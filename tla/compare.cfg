SPECIFICATION Spec
CONSTANTS
    Items = {i1, i2, i3}
SYMMETRY Symmetry
INVARIANTS CompareTypeOK CmpLawfulIffTotal
PROPERTIES PartialCmpExact MethodsAgreeIffRelated
