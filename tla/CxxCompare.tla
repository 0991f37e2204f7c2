----------------------------- MODULE CxxCompare -----------------------------
(***************************************************************************)
(* How a C++ type is compared from Rust: the two templates of              *)
(* cxx_operator_three_way_comparison (cxx/include/cxx-memory-abi.hxx),     *)
(* partial_cmp and cmp of a generated module, which read the int8_t they   *)
(* return, and the methods lt, le, gt and ge beside them                   *)
(* (src/cxx_abi_artifact_info.rs).  A step compares two values of a type   *)
(* chosen at the start.                                                    *)
(***************************************************************************)
EXTENDS Integers

CONSTANT Items  \* the values of the C++ type

I8Max == 127

VARIABLES
    type,    \* the type: its operators, and what they mean
    asked,   \* the two values compared last
    answer   \* what Rust was told of them

vars == <<type, asked, answer>>

Pairs == Items \X Items

\* A strict partial order, and an equality that it respects: the laws of < and ==.
IsOrder(less) ==
    /\ \A x \in Items : <<x, x>> \notin less
    /\ \A x, y, z \in Items : <<x, y>> \in less /\ <<y, z>> \in less => <<x, z>> \in less

IsEquality(equal, less) ==
    /\ \A x \in Items : <<x, x>> \in equal
    /\ \A x, y \in Items : <<x, y>> \in equal => <<y, x>> \in equal /\ <<x, y>> \notin less
    /\ \A x, y, z \in Items : <<x, y>> \in equal =>
          /\ <<y, z>> \in equal => <<x, z>> \in equal
          /\ <<y, z>> \in less <=> <<x, z>> \in less
          /\ <<z, y>> \in less <=> <<z, x>> \in less

Related(t, x, y) == <<x, y>> \in t.less \/ <<y, x>> \in t.less \/ <<x, y>> \in t.equal

IsTotal(t) == \A x, y \in Items : Related(t, x, y)

\* spaceship: the category of operator<=>, "none" if the type has < and ==; has: which
\* other relational operators it has, all of them with a <=> to rewrite them to.  A weak
\* order ranks any two values, but == may still tell values of one rank apart.
Lawful(t) ==
    /\ t.spaceship # "none" => t.has = {"le", "gt", "ge"}
    /\ IsOrder(t.less) /\ IsEquality(t.equal, t.less)
    /\ t.spaceship = "strong" => IsTotal(t)
    /\ t.spaceship = "weak" =>
          \A x, y, z \in Items : <<x, y>> \in t.less => <<x, z>> \in t.less \/ <<z, y>> \in t.less

Types == {t \in [less : SUBSET Pairs, equal : SUBSET Pairs,
                 spaceship : {"none", "weak", "partial", "strong"},
                 has : SUBSET {"le", "gt", "ge"}] : Lawful(t)}

\* x <= y in C++: with a weak order, x is ranked no higher.
IsLessOrEqual(t, x, y) ==
    IF t.spaceship = "weak" THEN <<y, x>> \notin t.less ELSE <<x, y>> \in t.less \cup t.equal

-----------------------------------------------------------------------------
(* cxx_operator_three_way_comparison. *)

\* same_as_any_of<partial_ordering, strong_ordering>
Detected(t) == t.spaceship \in {"partial", "strong"}

Spaceship(t, x, y) ==
    CASE <<x, y>> \in t.less  -> -1
      [] <<y, x>> \in t.less  -> 1
      [] <<x, y>> \in t.equal -> 0
      [] OTHER                -> I8Max

\* A mistake to detect: equality is not looked at.
FallbackIgnoringEqual(t, x, y) == IF <<x, y>> \in t.less THEN -1 ELSE 1

\* From < and == alone, asked in one direction only.
Fallback(t, x, y) ==
    LET le == <<x, y>> \in t.less
        eq == <<x, y>> \in t.equal
    IN  CASE le /\ ~eq  -> -1
          [] ~le /\ ~eq -> 1
          [] ~le /\ eq  -> 0
          [] le /\ eq   -> I8Max

ThreeWayComparison(t, x, y) == IF Detected(t) THEN Spaceship(t, x, y) ELSE Fallback(t, x, y)

-----------------------------------------------------------------------------
(* The generated impls. *)

\* A mistake to detect: there is a fourth answer.
PartialCmpUnordered(res) ==
    CASE res = -1 -> "Less" [] res = 1 -> "Greater" [] res = 0 -> "Equal" [] OTHER -> "Unordered"

PartialCmp(res) ==
    CASE res = -1    -> "Less"
      [] res = 1     -> "Greater"
      [] res = 0     -> "Equal"
      [] res = I8Max -> "None"

\* A mistake to detect: what is not 1 or -1 is taken for equal.
CmpUnorderedEqual(res) == CASE res = -1 -> "Less" [] res = 1 -> "Greater" [] OTHER -> "Equal"

Cmp(res) == CASE res < 0 -> "Less" [] res > 0 -> "Greater" [] res = 0 -> "Equal"

\* The orderings for which Rust calls the relation true.
Accepts == [lt |-> {"Less"}, le |-> {"Less", "Equal"}, gt |-> {"Greater"}, ge |-> {"Greater", "Equal"}]

\* A mistake to detect: gt is a copy of ge.
CxxSaysCopied(t, m, x, y) ==
    CASE m = "lt" -> <<x, y>> \in t.less
      [] m = "le" -> IsLessOrEqual(t, x, y)
      [] m \in {"gt", "ge"} -> IsLessOrEqual(t, y, x)

CxxSays(t, m, x, y) ==
    CASE m = "lt" -> <<x, y>> \in t.less
      [] m = "le" -> IsLessOrEqual(t, x, y)
      [] m = "gt" -> <<y, x>> \in t.less
      [] m = "ge" -> IsLessOrEqual(t, y, x)

\* A method for each operator the type has; Rust's own methods, on partial_cmp, for the rest.
Methods(t, x, y) ==
    {m \in DOMAIN Accepts :
        IF m = "lt" \/ m \in t.has
        THEN CxxSays(t, m, x, y)
        ELSE PartialCmp(ThreeWayComparison(t, x, y)) \in Accepts[m]}

Compared(t, x, y) ==
    [partial_cmp |-> PartialCmp(ThreeWayComparison(t, x, y)),
     cmp         |-> Cmp(ThreeWayComparison(t, x, y)),
     methods     |-> Methods(t, x, y)]

Unasked == [partial_cmp |-> "None", cmp |-> "Equal", methods |-> {}]

Init ==
    /\ type \in Types
    /\ asked \in {<<x, x>> : x \in Items}
    /\ answer = Unasked

Compare(x, y) ==
    /\ asked' = <<x, y>>
    /\ answer' = Compared(type, x, y)
    /\ UNCHANGED type

Next == \E x, y \in Items : Compare(x, y)

Spec == Init /\ [][Next]_vars

-----------------------------------------------------------------------------
\* Every variable keeps its type; the assertions on the int8_t never fail.
CompareTypeOK ==
    /\ type \in Types
    /\ asked \in Pairs
    /\ answer.partial_cmp \in {"Less", "Equal", "Greater", "None"}
    /\ answer.cmp \in {"Less", "Equal", "Greater"}
    /\ answer.methods \subseteq DOMAIN Accepts

\* What the two values are to each other by the type's own < and ==.
Truth(t, x, y) == PartialCmp(Spaceship(t, x, y))

\* partial_cmp says what < and == say of two values they relate, whichever of the two
\* templates was chosen, and of any two values if the type's <=> was detected.
PartialCmpExact ==
    [][Related(type, asked'[1], asked'[2]) \/ Detected(type) =>
          answer'.partial_cmp = Truth(type, asked'[1], asked'[2])]_vars

\* Rust demands that x < y, x <= y, x > y and x >= y say what partial_cmp says.  They do,
\* except for unrelated values of a type whose <=> is not detected: there partial_cmp
\* answers Greater, and a > or >= of the type's own disagrees.
MethodsAgreeIffRelated ==
    [][LET x == asked'[1]  y == asked'[2]
           agrees == answer'.methods = {m \in DOMAIN Accepts : answer'.partial_cmp \in Accepts[m]}
       IN  agrees <=> \/ Related(type, x, y) \/ Detected(type)
                      \/ type.has \cap {"gt", "ge"} = {}]_vars

Opposite == [Less |-> "Greater", Greater |-> "Less", Equal |-> "Equal"]

\* cmp of x and y is always the opposite of cmp of y and x, as Rust's Ord demands,
\* exactly for the types that relate any two values: std::totally_ordered, which Ord
\* is decided by, does not ask for that.
CmpLawfulIffTotal ==
    (\A x, y \in Items :
        Compared(type, y, x).cmp = Opposite[Compared(type, x, y).cmp]) <=> IsTotal(type)

=============================================================================
