-------------------------- MODULE CxxCompareProofs --------------------------
(***************************************************************************)
(* Proofs about CxxCompare, for a type with any set of values, finite or   *)
(* not, and any lawful meaning of its operators: what Rust is told of two  *)
(* values, and for which types that is a lawful order.                     *)
(***************************************************************************)
EXTENDS CxxCompare, TLAPS

\* Two values are in at most one relation.
LEMMA OneRelation ==
  ASSUME NEW t \in Types, NEW x \in Items, NEW y \in Items
  PROVE  /\ <<x, y>> \in t.less => <<y, x>> \notin t.less /\ <<x, y>> \notin t.equal
         /\ <<x, y>> \in t.equal => <<x, y>> \notin t.less /\ <<y, x>> \notin t.less
         /\ <<x, y>> \in t.equal <=> <<y, x>> \in t.equal
<1>1. IsOrder(t.less) /\ IsEquality(t.equal, t.less)
  BY DEF Types, Lawful
<1>2. <<x, y>> \in t.equal <=> <<y, x>> \in t.equal
  BY <1>1 DEF IsEquality
<1>3. <<x, y>> \in t.equal => <<x, y>> \notin t.less /\ <<y, x>> \notin t.less
  BY <1>1, <1>2 DEF IsEquality
<1>4. <<x, y>> \in t.less => <<y, x>> \notin t.less
  <2>1. /\ <<x, x>> \notin t.less
        /\ <<x, y>> \in t.less /\ <<y, x>> \in t.less => <<x, x>> \in t.less
    BY <1>1 DEF IsOrder
  <2> QED
    BY <2>1
<1> QED
  BY <1>2, <1>3, <1>4

\* What the templates return: both the same of related values; of unrelated ones the
\* fallback, which asks in one direction only, cannot tell the second from a smaller one.
LEMMA Answers ==
  ASSUME NEW t \in Types, NEW x \in Items, NEW y \in Items
  PROVE  /\ <<x, y>> \in t.less => ThreeWayComparison(t, x, y) = -1
         /\ <<y, x>> \in t.less => ThreeWayComparison(t, x, y) = 1
         /\ <<x, y>> \in t.equal => ThreeWayComparison(t, x, y) = 0
         /\ ~Related(t, x, y) =>
               ThreeWayComparison(t, x, y) = IF Detected(t) THEN I8Max ELSE 1
<1>1. /\ <<x, y>> \in t.less => Spaceship(t, x, y) = -1
      /\ <<y, x>> \in t.less => Spaceship(t, x, y) = 1
      /\ <<x, y>> \in t.equal => Spaceship(t, x, y) = 0
      /\ ~Related(t, x, y) => Spaceship(t, x, y) = I8Max
  BY OneRelation DEF Spaceship, Related
<1>2. /\ <<x, y>> \in t.less => Fallback(t, x, y) = -1
      /\ <<y, x>> \in t.less => Fallback(t, x, y) = 1
      /\ <<x, y>> \in t.equal => Fallback(t, x, y) = 0
      /\ ~Related(t, x, y) => Fallback(t, x, y) = 1
  BY OneRelation DEF Fallback, Related
<1> QED
  BY <1>1, <1>2 DEF ThreeWayComparison

\* What the generated impls make of each result: 127 counts as greater for cmp.
LEMMA Readings ==
  /\ PartialCmp(-1) = "Less" /\ Cmp(-1) = "Less"
  /\ PartialCmp(1) = "Greater" /\ Cmp(1) = "Greater"
  /\ PartialCmp(0) = "Equal" /\ Cmp(0) = "Equal"
  /\ PartialCmp(I8Max) = "None" /\ Cmp(I8Max) = "Greater"
  BY DEF PartialCmp, Cmp, I8Max

\* The results the assertions on the int8_t allow are the only ones there are.
LEMMA ResultsRead ==
  ASSUME NEW t \in Types, NEW x \in Items, NEW y \in Items
  PROVE  /\ PartialCmp(ThreeWayComparison(t, x, y)) \in {"Less", "Equal", "Greater", "None"}
         /\ Cmp(ThreeWayComparison(t, x, y)) \in {"Less", "Equal", "Greater"}
<1>1. ThreeWayComparison(t, x, y) \in {-1, 0, 1, I8Max}
  BY Answers DEF Related
<1> QED
  BY <1>1, Readings

-----------------------------------------------------------------------------
LEMMA CompareInit == Init => CompareTypeOK
  BY DEF Init, CompareTypeOK, Unasked, Pairs, Accepts

LEMMA CompareStep == CompareTypeOK /\ [Next]_vars => CompareTypeOK'
<1> SUFFICES ASSUME CompareTypeOK, [Next]_vars PROVE CompareTypeOK'
  OBVIOUS
<1>1. ASSUME NEW x \in Items, NEW y \in Items, Compare(x, y) PROVE CompareTypeOK'
  <2>1. type' = type /\ type \in Types /\ asked' = <<x, y>> /\ answer' = Compared(type, x, y)
    BY <1>1 DEF Compare, CompareTypeOK
  <2>2. /\ answer'.partial_cmp = PartialCmp(ThreeWayComparison(type, x, y))
        /\ answer'.cmp = Cmp(ThreeWayComparison(type, x, y))
        /\ answer'.methods = Methods(type, x, y)
    BY <2>1 DEF Compared
  <2>3. Methods(type, x, y) \subseteq DOMAIN Accepts
    BY DEF Methods
  <2> QED
    BY <2>1, <2>2, <2>3, ResultsRead DEF CompareTypeOK, Pairs
<1>2. CASE UNCHANGED vars
  BY <1>2 DEF vars, CompareTypeOK
<1> QED
  BY <1>1, <1>2 DEF Next

\* Type correctness: no comparison trips the assertions of partial_cmp and cmp on the int8_t.
THEOREM CompareTypeCorrect == Spec => []CompareTypeOK
  BY CompareInit, CompareStep, PTL DEF Spec

LEMMA TypeIsLawful == Spec => [](type \in Types)
<1>1. CompareTypeOK => type \in Types
  BY DEF CompareTypeOK
<1> QED
  BY <1>1, CompareTypeCorrect, PTL

\* cmp is antisymmetric, as Ord demands, exactly for the types that relate any two values:
\* of two unrelated ones it calls each the greater, with either template.
THEOREM CmpLawful == Spec => []CmpLawfulIffTotal
<1>1. ASSUME type \in Types PROVE CmpLawfulIffTotal
  <2>1. ASSUME NEW x \in Items, NEW y \in Items
        PROVE  Compared(type, y, x).cmp = Opposite[Compared(type, x, y).cmp]
                  <=> Related(type, x, y)
    <3> DEFINE there == Cmp(ThreeWayComparison(type, x, y))
               back == Cmp(ThreeWayComparison(type, y, x))
    <3>1. Compared(type, y, x).cmp = back /\ Compared(type, x, y).cmp = there
      BY DEF Compared
    <3>2. \/ <<x, y>> \in type.less /\ there = "Less" /\ back = "Greater"
          \/ <<y, x>> \in type.less /\ there = "Greater" /\ back = "Less"
          \/ <<x, y>> \in type.equal /\ there = "Equal" /\ back = "Equal"
          \/ ~Related(type, x, y) /\ there = "Greater" /\ back = "Greater"
      <4>1. Related(type, x, y) <=> Related(type, y, x)
        BY <1>1, OneRelation DEF Related
      <4> QED
        BY <1>1, <4>1, OneRelation, Answers, Readings DEF Related
    <3> HIDE DEF there, back
    <3> QED
      BY <3>1, <3>2 DEF Opposite, Related
  <2> QED
    BY <2>1 DEF CmpLawfulIffTotal, IsTotal
<1> QED
  BY <1>1, TypeIsLawful, PTL

\* partial_cmp says what < and == say of any two values they relate, and of any two at all
\* if <=> was detected.
THEOREM PartialCmpTruthful == Spec => PartialCmpExact
<1>1. ASSUME type \in Types, [Next]_vars
      PROVE  [Related(type, asked'[1], asked'[2]) \/ Detected(type) =>
                answer'.partial_cmp = Truth(type, asked'[1], asked'[2])]_vars
  <2>1. CASE UNCHANGED vars
    BY <2>1
  <2>2. ASSUME NEW x \in Items, NEW y \in Items, Compare(x, y),
               Related(type, x, y) \/ Detected(type)
        PROVE  answer'.partial_cmp = Truth(type, x, y)
    <3>1. ThreeWayComparison(type, x, y) = Spaceship(type, x, y)
      <4>1. CASE Detected(type)
        BY <4>1 DEF ThreeWayComparison
      <4>2. CASE Related(type, x, y)
        BY <1>1, <4>2, OneRelation DEF Related, ThreeWayComparison, Spaceship, Fallback
      <4> QED
        BY <2>2, <4>1, <4>2
    <3> QED
      BY <2>2, <3>1 DEF Compare, Compared, Truth
  <2>3. ASSUME NEW x \in Items, NEW y \in Items, Compare(x, y)
        PROVE  asked'[1] = x /\ asked'[2] = y
    BY <2>3 DEF Compare
  <2> QED
    BY <1>1, <2>1, <2>2, <2>3 DEF Next
<1> QED
  BY <1>1, TypeIsLawful, PTL DEF PartialCmpExact, Spec

\* What the comparison operators of the type, and those C++ rewrites to its <=>, say.
LEMMA CxxSaysOf ==
  ASSUME NEW t \in Types, NEW x \in Items, NEW y \in Items
  PROVE  /\ CxxSays(t, "lt", x, y) <=> <<x, y>> \in t.less
         /\ CxxSays(t, "gt", x, y) <=> <<y, x>> \in t.less
         /\ t.spaceship # "weak" =>
               /\ CxxSays(t, "le", x, y) <=> <<x, y>> \in t.less \/ <<x, y>> \in t.equal
               /\ CxxSays(t, "ge", x, y) <=> <<y, x>> \in t.less \/ <<x, y>> \in t.equal
         /\ t.spaceship = "weak" =>
               /\ CxxSays(t, "le", x, y) <=> <<y, x>> \notin t.less
               /\ CxxSays(t, "ge", x, y) <=> <<x, y>> \notin t.less
<1>1. /\ CxxSays(t, "lt", x, y) = (<<x, y>> \in t.less)
      /\ CxxSays(t, "le", x, y) = IsLessOrEqual(t, x, y)
      /\ CxxSays(t, "gt", x, y) = (<<y, x>> \in t.less)
      /\ CxxSays(t, "ge", x, y) = IsLessOrEqual(t, y, x)
  BY DEF CxxSays
<1> QED
  BY <1>1, OneRelation DEF IsLessOrEqual

\* A method answers as partial_cmp of related values, and of any if <=> is detected; of
\* unrelated ones the fallback calls the first greater, which the type's own > denies, and
\* its own >= unless that is the >= of a weak order.
LEMMA MethodsOf ==
  ASSUME NEW t \in Types, NEW x \in Items, NEW y \in Items, NEW m \in {"lt", "le", "gt", "ge"}
  PROVE  LET same == m \in Methods(t, x, y)
                        <=> PartialCmp(ThreeWayComparison(t, x, y)) \in Accepts[m]
         IN  /\ \/ Related(t, x, y) \/ Detected(t)
                \/ t.spaceship = "none" /\ m \notin t.has \cap {"gt", "ge"}
                => same
             /\ /\ ~Related(t, x, y) /\ ~Detected(t) /\ m \in t.has
                /\ m = "gt" \/ (m = "ge" /\ t.spaceship # "weak")
                => ~same
<1> DEFINE p == PartialCmp(ThreeWayComparison(t, x, y))
           own == m = "lt" \/ m \in t.has
<1>1. /\ DOMAIN Accepts = {"lt", "le", "gt", "ge"}
      /\ Accepts["lt"] = {"Less"} /\ Accepts["le"] = {"Less", "Equal"}
      /\ Accepts["gt"] = {"Greater"} /\ Accepts["ge"] = {"Greater", "Equal"}
  BY DEF Accepts
<1>2. /\ own => (m \in Methods(t, x, y) <=> CxxSays(t, m, x, y))
      /\ ~own => (m \in Methods(t, x, y) <=> p \in Accepts[m])
  BY <1>1 DEF Methods
<1>3. \/ <<x, y>> \in t.less /\ p = "Less"
      \/ <<y, x>> \in t.less /\ p = "Greater"
      \/ <<x, y>> \in t.equal /\ p = "Equal"
      \/ ~Related(t, x, y) /\ Detected(t) /\ p = "None"
      \/ ~Related(t, x, y) /\ ~Detected(t) /\ p = "Greater"
  BY Answers, Readings DEF Related
<1>4. t.spaceship = "weak" => t.has = {"le", "gt", "ge"} /\ ~Detected(t)
  BY DEF Types, Lawful, Detected
<1> HIDE DEF p
<1>5. /\ p \in Accepts["lt"] <=> p = "Less"
      /\ p \in Accepts["le"] <=> p = "Less" \/ p = "Equal"
      /\ p \in Accepts["gt"] <=> p = "Greater"
      /\ p \in Accepts["ge"] <=> p = "Greater" \/ p = "Equal"
  BY <1>1
<1> DEFINE same == m \in Methods(t, x, y) <=> p \in Accepts[m]
<1> SUFFICES
      /\ \/ Related(t, x, y) \/ Detected(t)
         \/ t.spaceship = "none" /\ m \notin t.has \cap {"gt", "ge"}
         => same
      /\ /\ ~Related(t, x, y) /\ ~Detected(t) /\ m \in t.has
         /\ m = "gt" \/ (m = "ge" /\ t.spaceship # "weak")
         => ~same
  BY DEF p
<1>6. CASE ~own
  BY <1>2, <1>6
<1>7. CASE m = "lt"
  <2>1. m \in Methods(t, x, y) <=> <<x, y>> \in t.less
    BY <1>2, <1>7, CxxSaysOf
  <2>2. p \in Accepts[m] <=> <<x, y>> \in t.less
    BY <1>3, <1>5, <1>7, OneRelation DEF Related
  <2> QED
    BY <1>7, <2>1, <2>2
<1>8. CASE m = "le" /\ m \in t.has
  <2>1. m \in Methods(t, x, y) <=> CxxSays(t, "le", x, y)
    BY <1>2, <1>8
  <2>2. Related(t, x, y) => same
    BY <1>3, <1>5, <1>8, <2>1, CxxSaysOf, OneRelation DEF Related
  <2>3. ~Related(t, x, y) => p \notin Accepts[m]
    BY <1>3, <1>5, <1>8 DEF Related
  <2>4. ~Related(t, x, y) /\ t.spaceship # "weak" => m \notin Methods(t, x, y)
    BY <1>8, <2>1, CxxSaysOf DEF Related
  <2> QED
    BY <1>4, <1>8, <2>2, <2>3, <2>4
<1>9. CASE m = "gt" /\ m \in t.has
  <2>1. m \in Methods(t, x, y) <=> <<y, x>> \in t.less
    BY <1>2, <1>9, CxxSaysOf
  <2> QED
    BY <1>3, <1>5, <1>9, <2>1, OneRelation DEF Related
<1>10. CASE m = "ge" /\ m \in t.has
  <2>1. m \in Methods(t, x, y) <=> CxxSays(t, "ge", x, y)
    BY <1>2, <1>10
  <2> QED
    BY <1>3, <1>4, <1>5, <1>10, <2>1, CxxSaysOf, OneRelation DEF Related
<1> QED
  BY <1>6, <1>7, <1>8, <1>9, <1>10

\* lt, le, gt and ge of the generated impl say what partial_cmp says, as Rust demands, but
\* not for unrelated values of a type with a > or >= and no <=> the templates detect.
THEOREM MethodsAgree == Spec => MethodsAgreeIffRelated
<1> DEFINE x == asked'[1]
           y == asked'[2]
           agrees == answer'.methods = {m \in DOMAIN Accepts : answer'.partial_cmp \in Accepts[m]}
           exempt == type.has \cap {"gt", "ge"} = {}
<1>1. ASSUME type \in Types, NEW v \in Items, NEW w \in Items, Compare(v, w)
      PROVE  agrees <=> Related(type, x, y) \/ Detected(type) \/ exempt
  <2>1. /\ x = v /\ y = w /\ answer'.methods = Methods(type, v, w)
        /\ answer'.partial_cmp = PartialCmp(ThreeWayComparison(type, v, w))
    BY <1>1 DEF Compare, Compared
  <2>2. DOMAIN Accepts = {"lt", "le", "gt", "ge"} /\ Methods(type, v, w) \subseteq DOMAIN Accepts
    BY DEF Accepts, Methods
  <2>3. agrees <=> \A m \in {"lt", "le", "gt", "ge"} :
                      m \in Methods(type, v, w)
                         <=> PartialCmp(ThreeWayComparison(type, v, w)) \in Accepts[m]
    BY <2>1, <2>2
  <2> HIDE DEF agrees
  <2>4. CASE Related(type, v, w) \/ Detected(type)
    BY <1>1, <2>1, <2>3, <2>4, MethodsOf
  <2>5. CASE ~Related(type, v, w) /\ ~Detected(type) /\ exempt
    <3>1. type.spaceship = "none"
      BY <1>1, <2>5 DEF Types, Lawful
    <3>2. agrees
      BY <1>1, <2>3, <2>5, <3>1, MethodsOf
    <3> QED
      BY <2>5, <3>2
  <2>6. CASE ~Related(type, v, w) /\ ~Detected(type) /\ ~exempt
    <3>1. PICK m \in {"lt", "le", "gt", "ge"} :
             m \in type.has /\ (m = "gt" \/ (m = "ge" /\ type.spaceship # "weak"))
      <4>1. CASE "gt" \in type.has
        <5>1. "gt" \in {"lt", "le", "gt", "ge"}
          OBVIOUS
        <5> QED
          BY <4>1, <5>1
      <4>2. CASE "gt" \notin type.has
        <5>1. type.spaceship = "none"
          BY <1>1, <4>2 DEF Types, Lawful
        <5>2. "ge" \in type.has
          BY <2>6, <4>2
        <5> QED
          BY <5>1, <5>2
      <4> QED
        BY <4>1, <4>2
    <3>2. ~ (m \in Methods(type, v, w)
                <=> PartialCmp(ThreeWayComparison(type, v, w)) \in Accepts[m])
      BY <1>1, <2>6, <3>1, MethodsOf
    <3>3. ~agrees
      BY <2>3, <3>2
    <3> QED
      BY <2>1, <2>6, <3>3
  <2> QED
    BY <2>4, <2>5, <2>6
<1>2. ASSUME type \in Types, [Next]_vars
      PROVE  [agrees <=> Related(type, x, y) \/ Detected(type) \/ exempt]_vars
  BY <1>1, <1>2 DEF Next
<1> QED
  BY <1>2, TypeIsLawful, PTL DEF MethodsAgreeIffRelated, Spec

=============================================================================
