-------------------------- MODULE MCAbiArtifact --------------------------
(* AbiArtifact on the types that differ in their operators, and, with an   *)
(* edit, on those that differ in anything else or in bool operators.       *)
EXTENDS AbiArtifact

PlainOperators == [o \in Operators |-> "none"]
PlainLayout    == [align |-> 8, size |-> 16]

Type(ops, order, facts, layout) ==
    [operators |-> ops, three_way |-> order, facts |-> facts, layout |-> layout]

\* Every combination of operators, on a type that is otherwise plain.
OperatorTypes ==
    {Type(ops, order, Lifecycle, PlainLayout) : ops \in [Operators -> Returns], order \in Orderings}

\* Operators that return bool where there are any.
BoolTypes ==
    {Type(ops, order, Lifecycle, PlainLayout) :
        ops \in {f \in [Operators -> {"none", "bool"}] : f["greater_than"] = f["less_than"]},
        order \in {"none", "weak", "strong"}}

\* Every legal combination of lifecycle facts, with one fact of each printing operation.
LifecycleTypes ==
    {Type(PlainOperators, "none", facts, PlainLayout) :
        facts \in {F \in SUBSET (Lifecycle \cup {"std_hash", "ostream_left_shift", "std_string"}) :
                     LegalFacts(F)}}

\* An empty class, and layouts that differ in one number or in both.
LayoutTypes ==
    {Type(PlainOperators, "none", Lifecycle, [align |-> a, size |-> s]) :
        a \in {1, 4, 8}, s \in {8, 16, 24}}
    \cup {Type(PlainOperators, "none", Lifecycle, [align |-> 1, size |-> 1])}

Plain(types) == {[type |-> t, lifetimes |-> <<>>] : t \in types}

\* No bound, one, two, or one that was never declared.
TwoLifetimes ==
    UNION {[D -> {<<>>, <<"a">>, <<"b">>, <<"static">>, <<"a", "static">>}] :
              D \in SUBSET {"a", "b"}}

LifetimeInputs ==
    {[type |-> Type(PlainOperators, "none", Lifecycle, PlainLayout), lifetimes |-> l] :
        l \in TwoLifetimes}

EditedInputs == Plain(LifecycleTypes \cup BoolTypes \cup LayoutTypes) \cup LifetimeInputs

AllInputs == Plain(OperatorTypes) \cup EditedInputs

=============================================================================
