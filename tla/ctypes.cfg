SPECIFICATION Spec
CONSTANTS
    Chars = {0, 65, 127, 128, 195, 255, 256, 321, 2047, 2048, 65535, 65536, 1114111}
    MaxLength = 2
INVARIANTS CTypesTypeOK SurvivesIff OrderKeptIff
