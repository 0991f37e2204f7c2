------------------------- MODULE AbiArtifactProofs -------------------------
(***************************************************************************)
(* Proofs about AbiArtifact, for all C++ types, layouts and lifetimes: the *)
(* generator and the two compilers agree.                                  *)
(***************************************************************************)
EXTENDS AbiArtifact, TLAPS

-----------------------------------------------------------------------------
(* What the generator asks and writes, flag by flag. *)

\* The decisions of the header, one by one.
LEMMA Decisions ==
  ASSUME NEW t
  PROVE  /\ ShouldImpl(t)["extern_type_trivial"] <=> IsTriviallyMovable(t)
         /\ ShouldImpl(t)["unpin"] <=> IsTriviallyMovable(t)
         /\ ShouldImpl(t)["send"] <=> FALSE
         /\ ShouldImpl(t)["sync"] <=> FALSE
         /\ ShouldImpl(t)["drop"] <=> ShouldImplDrop(t)
         /\ ShouldImpl(t)["copy"] <=> ShouldImplCopy(t)
         /\ ShouldImpl(t)["default_new"] <=> Has(t, "default_constructible")
         /\ ShouldImpl(t)["copy_new"] <=> Has(t, "copy_constructible")
         /\ ShouldImpl(t)["move_new"] <=> Has(t, "move_constructible")
         /\ ShouldImpl(t)["eq"] <=> IsEqualityComparable(t)
         /\ ShouldImpl(t)["partial_eq"] <=> HasOperator(t, "equal")
         /\ ShouldImpl(t)["partial_ord"] <=> ShouldImplPartialOrd(t)
         /\ ShouldImpl(t)["ord"] <=> IsTotallyOrdered(t)
         /\ ShouldImpl(t)["hash"] <=> Has(t, "std_hash")
         /\ ShouldImpl(t)["debug"] <=> Has(t, "ostream_left_shift")
         /\ ShouldImpl(t)["display"] <=> IsDisplayable(t)
BY Zenon DEF ShouldImpl

\* The same, as artifact_info() has recorded them.
LEMMA Answers ==
  ASSUME NEW n
  PROVE  /\ "extern_type_trivial" \in ArtifactInfo(n).is <=> IsTriviallyMovable(n.type)
         /\ "unpin" \in ArtifactInfo(n).is <=> IsTriviallyMovable(n.type)
         /\ "send" \notin ArtifactInfo(n).is
         /\ "sync" \notin ArtifactInfo(n).is
         /\ "drop" \in ArtifactInfo(n).is <=> ShouldImplDrop(n.type)
         /\ "copy" \in ArtifactInfo(n).is <=> ShouldImplCopy(n.type)
         /\ "default_new" \in ArtifactInfo(n).is <=> Has(n.type, "default_constructible")
         /\ "copy_new" \in ArtifactInfo(n).is <=> Has(n.type, "copy_constructible")
         /\ "move_new" \in ArtifactInfo(n).is <=> Has(n.type, "move_constructible")
         /\ "eq" \in ArtifactInfo(n).is <=> IsEqualityComparable(n.type)
         /\ "partial_eq" \in ArtifactInfo(n).is <=> HasOperator(n.type, "equal")
         /\ "partial_ord" \in ArtifactInfo(n).is <=> ShouldImplPartialOrd(n.type)
         /\ "ord" \in ArtifactInfo(n).is <=> IsTotallyOrdered(n.type)
         /\ "hash" \in ArtifactInfo(n).is <=> Has(n.type, "std_hash")
         /\ "debug" \in ArtifactInfo(n).is <=> Has(n.type, "ostream_left_shift")
         /\ "display" \in ArtifactInfo(n).is <=> IsDisplayable(n.type)
<1>1. \A f \in Flags : f \in ArtifactInfo(n).is <=> ShouldImpl(n.type)[f]
  BY DEF ArtifactInfo
<1>2. /\ {"extern_type_trivial", "unpin", "send", "sync", "drop", "copy"} \subseteq Flags
      /\ {"default_new", "copy_new", "move_new", "eq", "partial_eq"} \subseteq Flags
      /\ {"partial_ord", "ord", "hash", "debug", "display"} \subseteq Flags
  BY DEF Flags
<1> QED
  BY <1>1, <1>2, Decisions, Zenon

\* The operators it has, and what is taken over as it is.
LEMMA Recorded ==
  ASSUME NEW n
  PROVE  /\ ArtifactInfo(n).has = {o \in Operators : HasOperator(n.type, o)}
         /\ ArtifactInfo(n).lifetimes = n.lifetimes
         /\ ArtifactInfo(n).layout = n.type.layout
BY DEF ArtifactInfo

\* Each impl goes by one flag; neither Send nor Sync is ever written.
LEMMA Emitted ==
  ASSUME NEW info, "send" \notin info.is, "sync" \notin info.is
  PROVE  EmitImpls(info) = {i \in DOMAIN Gate : Gate[i] \in info.is} \cup {"Debug"}
BY DEF EmitImpls

LEMMA EmittedByName ==
  ASSUME NEW info, "send" \notin info.is, "sync" \notin info.is
  PROVE  /\ "Copy" \in EmitImpls(info) <=> "copy" \in info.is
         /\ "Drop" \in EmitImpls(info) <=> "drop" \in info.is
         /\ "Unpin" \in EmitImpls(info) <=> "unpin" \in info.is
         /\ "Default" \in EmitImpls(info) <=> "default_new" \in info.is
         /\ "CopyNew" \in EmitImpls(info) <=> "copy_new" \in info.is
         /\ "MoveNew" \in EmitImpls(info) <=> "move_new" \in info.is
         /\ "PartialEq" \in EmitImpls(info) <=> "partial_eq" \in info.is
         /\ "Eq" \in EmitImpls(info) <=> "eq" \in info.is
         /\ "PartialOrd" \in EmitImpls(info) <=> "partial_ord" \in info.is
         /\ "Ord" \in EmitImpls(info) <=> "ord" \in info.is
         /\ "Hash" \in EmitImpls(info) <=> "hash" \in info.is
         /\ "Display" \in EmitImpls(info) <=> "display" \in info.is
         /\ "Debug" \in EmitImpls(info)
<1>1. "Debug" \in EmitImpls(info)
  BY Emitted
<1>2. \A i \in DOMAIN Gate : i \in EmitImpls(info) <=> Gate[i] \in info.is
  <2>1. "Debug" \notin DOMAIN Gate
    BY DEF Gate
  <2> QED
    BY <2>1, Emitted
<1> QED
  BY <1>1, <1>2 DEF Gate

\* The bridge declares each function by one flag.
LEMMA Declared ==
  ASSUME NEW info
  PROVE  \A f : f \in EmitBridge(info) <=>
            \/ f = "copy_new" /\ "copy_new" \in info.is
            \/ f = "move_new" /\ "move_new" \in info.is
            \/ f = "default_new" /\ "default_new" \in info.is
            \/ f = "destruct" /\ "drop" \in info.is
            \/ f \in {"equal", "not_equal"} /\ "eq" \in info.is
            \/ f = "three_way_comparison" /\ "partial_ord" \in info.is
            \/ f \in {"hash", "debug", "display"} /\ f \in info.is
            \/ f \in Relational /\ f \in info.has
<1> TAKE f
<1>1. f \in EmitBridge(info) <=>
         (f \in DOMAIN BridgeGate /\ BridgeGate[f] \in info.is) \/ (f \in Relational /\ f \in info.has)
  BY DEF EmitBridge
<1> QED
  BY <1>1 DEF BridgeGate

\* The functions that some impl calls.
LEMMA Called ==
  ASSUME NEW info, "send" \notin info.is, "sync" \notin info.is
  PROVE  \A f : f \in UNION {Calls(info, i) : i \in EmitImpls(info)} <=>
            \/ f = "destruct" /\ "drop" \in info.is
            \/ f = "default_new" /\ "default_new" \in info.is
            \/ f = "copy_new" /\ "copy_new" \in info.is
            \/ f = "move_new" /\ "move_new" \in info.is
            \/ f = "equal" /\ "partial_eq" \in info.is
            \/ f = "not_equal" /\ "not_equal" \in info.has /\ "partial_eq" \in info.is
            \/ f = "three_way_comparison" /\ info.is \cap {"partial_ord", "ord"} # {}
            \/ f \in Relational /\ f \in info.has /\ "partial_ord" \in info.is
            \/ f \in {"hash", "debug", "display"} /\ f \in info.is
<1> TAKE f
<1> DEFINE S == EmitImpls(info)
<1>1. /\ Calls(info, "Drop") = {"destruct"}
      /\ Calls(info, "Default") = {"default_new"}
      /\ Calls(info, "CopyNew") = {"copy_new"}
      /\ Calls(info, "MoveNew") = {"move_new"}
      /\ Calls(info, "PartialEq") = {"equal"} \cup (info.has \cap {"not_equal"})
      /\ Calls(info, "PartialOrd") = {"three_way_comparison"} \cup (info.has \cap Relational)
      /\ Calls(info, "Ord") = {"three_way_comparison"}
      /\ Calls(info, "Hash") = {"hash"}
      /\ Calls(info, "Debug") = info.is \cap {"debug"}
      /\ Calls(info, "Display") = {"display"}
  BY DEF Calls
<1>2. \A i \in {"Copy", "Unpin", "Eq"} : Calls(info, i) = {}
  BY DEF Calls
<1>3. S \subseteq {"Copy", "Drop", "Unpin", "Default", "CopyNew", "MoveNew", "PartialEq", "Eq",
                   "PartialOrd", "Ord", "Hash", "Display", "Debug"}
  BY Emitted DEF Gate
<1>4. f \in UNION {Calls(info, i) : i \in S} <=> \E i \in S : f \in Calls(info, i)
  OBVIOUS
<1> HIDE DEF S
<1>5. (\E i \in S : f \in Calls(info, i)) <=>
         \/ "Drop" \in S /\ f = "destruct"
         \/ "Default" \in S /\ f = "default_new"
         \/ "CopyNew" \in S /\ f = "copy_new"
         \/ "MoveNew" \in S /\ f = "move_new"
         \/ "PartialEq" \in S /\ (f = "equal" \/ (f = "not_equal" /\ f \in info.has))
         \/ "PartialOrd" \in S /\ (f = "three_way_comparison" \/ (f \in Relational /\ f \in info.has))
         \/ "Ord" \in S /\ f = "three_way_comparison"
         \/ "Hash" \in S /\ f = "hash"
         \/ "Debug" \in S /\ f = "debug" /\ f \in info.is
         \/ "Display" \in S /\ f = "display"
  BY <1>1, <1>2, <1>3
<1>6. (\E i \in S : f \in Calls(info, i)) <=>
         \/ f = "destruct" /\ "drop" \in info.is
         \/ f = "default_new" /\ "default_new" \in info.is
         \/ f = "copy_new" /\ "copy_new" \in info.is
         \/ f = "move_new" /\ "move_new" \in info.is
         \/ "partial_eq" \in info.is /\ (f = "equal" \/ (f = "not_equal" /\ f \in info.has))
         \/ "partial_ord" \in info.is /\ (f = "three_way_comparison" \/ (f \in Relational /\ f \in info.has))
         \/ f = "three_way_comparison" /\ "ord" \in info.is
         \/ f = "hash" /\ "hash" \in info.is
         \/ f = "debug" /\ "debug" \in info.is
         \/ f = "display" /\ "display" \in info.is
  BY <1>5, EmittedByName DEF S
<1> QED
  BY <1>4, <1>6 DEF S

-----------------------------------------------------------------------------
(* The gates of impls, declarations and requires clauses agree but for the *)
(* comparison operators.                                                   *)

Generated(n) == EmitFile(ArtifactInfo(n))

\* The functions called are declared, given coherent operators, and only then.
LEMMA CallsDeclared ==
  ASSUME NEW n
  PROVE  Generated(n).calls \subseteq Generated(n).declares <=>
            /\ HasOperator(n.type, "equal") => IsEqualityComparable(n.type)
            /\ IsTotallyOrdered(n.type) => ShouldImplPartialOrd(n.type)
<1> DEFINE info == ArtifactInfo(n)
           calls == UNION {Calls(info, i) : i \in EmitImpls(info)}
<1>1. Generated(n).calls = calls /\ Generated(n).declares = EmitBridge(info)
  BY DEF Generated, EmitFile
<1>2. /\ "send" \notin info.is /\ "sync" \notin info.is
      /\ "eq" \in info.is <=> IsEqualityComparable(n.type)
      /\ "partial_eq" \in info.is <=> HasOperator(n.type, "equal")
      /\ "partial_ord" \in info.is <=> ShouldImplPartialOrd(n.type)
      /\ "ord" \in info.is <=> IsTotallyOrdered(n.type)
  BY Answers
<1> HIDE DEF info
<1>3. \A f : f \in calls <=>
         \/ f = "destruct" /\ "drop" \in info.is
         \/ f = "default_new" /\ "default_new" \in info.is
         \/ f = "copy_new" /\ "copy_new" \in info.is
         \/ f = "move_new" /\ "move_new" \in info.is
         \/ f = "equal" /\ "partial_eq" \in info.is
         \/ f = "not_equal" /\ "not_equal" \in info.has /\ "partial_eq" \in info.is
         \/ f = "three_way_comparison" /\ info.is \cap {"partial_ord", "ord"} # {}
         \/ f \in Relational /\ f \in info.has /\ "partial_ord" \in info.is
         \/ f \in {"hash", "debug", "display"} /\ f \in info.is
  BY <1>2, Called
<1> HIDE DEF calls
<1>4. calls \subseteq EmitBridge(info) <=>
         /\ "partial_eq" \in info.is => "eq" \in info.is
         /\ "ord" \in info.is => "partial_ord" \in info.is
  BY <1>3, Declared DEF Relational
<1> QED
  BY <1>1, <1>2, <1>4

\* The impls come with their supertraits.
LEMMA SupertraitsPresent ==
  ASSUME NEW n
  PROVE  (\A i \in DOMAIN Supertraits \cap Generated(n).impls :
             Supertraits[i] \subseteq Generated(n).impls) <=>
            /\ IsEqualityComparable(n.type) => HasOperator(n.type, "equal")
            /\ ShouldImplPartialOrd(n.type) => HasOperator(n.type, "equal")
            /\ IsTotallyOrdered(n.type) =>
                  IsEqualityComparable(n.type) /\ ShouldImplPartialOrd(n.type)
<1>1. Generated(n).impls = EmitImpls(ArtifactInfo(n))
  BY DEF Generated, EmitFile
<1>2. /\ "PartialEq" \in Generated(n).impls <=> HasOperator(n.type, "equal")
      /\ "Eq" \in Generated(n).impls <=> IsEqualityComparable(n.type)
      /\ "PartialOrd" \in Generated(n).impls <=> ShouldImplPartialOrd(n.type)
      /\ "Ord" \in Generated(n).impls <=> IsTotallyOrdered(n.type)
  BY <1>1, Answers, EmittedByName
<1>3. /\ DOMAIN Supertraits = {"Eq", "PartialOrd", "Ord"}
      /\ Supertraits["Eq"] = {"PartialEq"}
      /\ Supertraits["PartialOrd"] = {"PartialEq"}
      /\ Supertraits["Ord"] = {"Eq", "PartialOrd"}
  BY DEF Supertraits
<1> QED
  BY <1>2, <1>3

\* Copy and Drop are never both written.
LEMMA CopyNotDrop ==
  ASSUME NEW n
  PROVE  ~({"Copy", "Drop"} \subseteq Generated(n).impls)
<1>1. Generated(n).impls = EmitImpls(ArtifactInfo(n))
  BY DEF Generated, EmitFile
<1>2. /\ "Copy" \in Generated(n).impls <=> ShouldImplCopy(n.type)
      /\ "Drop" \in Generated(n).impls <=> ShouldImplDrop(n.type)
  BY <1>1, Answers, EmittedByName
<1> QED
  BY <1>2 DEF ShouldImplCopy

\* What a type provides, one function after the other.
LEMMA Provided ==
  ASSUME NEW t
  PROVE  /\ \A o \in Operators : o \in Provides(t) <=> HasOperator(t, o)
         /\ "three_way_comparison" \in Provides(t) <=> HasOperatorThreeWayComparison(t)
         /\ "destruct" \in Provides(t) <=> Has(t, "destructible")
         /\ "default_new" \in Provides(t) <=> Has(t, "default_constructible")
         /\ "copy_new" \in Provides(t) <=> Has(t, "copy_constructible")
         /\ "move_new" \in Provides(t) <=> Has(t, "move_constructible")
         /\ "hash" \in Provides(t) <=> Has(t, "std_hash")
         /\ "debug" \in Provides(t) <=> Has(t, "ostream_left_shift")
         /\ "display" \in Provides(t) <=> IsDisplayable(t)
BY DEF Provides, Functions, Operators, Relational

\* What a module made from one type declares is provided by another one, if that has kept
\* what the gates of the declarations look at.
LEMMA DeclaredProvided ==
  ASSUME NEW n, NEW k
  PROVE  CxxAccepts(Generated(n), k.type) <=>
            /\ ShouldImplDrop(n.type) => Has(k.type, "destructible")
            /\ Has(n.type, "default_constructible") => Has(k.type, "default_constructible")
            /\ Has(n.type, "copy_constructible") => Has(k.type, "copy_constructible")
            /\ Has(n.type, "move_constructible") => Has(k.type, "move_constructible")
            /\ IsEqualityComparable(n.type) =>
                  HasOperator(k.type, "equal") /\ HasOperator(k.type, "not_equal")
            /\ HasOperatorThreeWayComparison(n.type) => HasOperatorThreeWayComparison(k.type)
            /\ Has(n.type, "std_hash") => Has(k.type, "std_hash")
            /\ Has(n.type, "ostream_left_shift") => Has(k.type, "ostream_left_shift")
            /\ IsDisplayable(n.type) => IsDisplayable(k.type)
            /\ \A o \in Relational : HasOperator(n.type, o) => HasOperator(k.type, o)
<1> DEFINE info == ArtifactInfo(n)
           s == n.type
           t == k.type
<1>1. Generated(n).declares = EmitBridge(info)
  BY DEF Generated, EmitFile
<1>2. /\ "drop" \in info.is <=> ShouldImplDrop(s)
      /\ "default_new" \in info.is <=> Has(s, "default_constructible")
      /\ "copy_new" \in info.is <=> Has(s, "copy_constructible")
      /\ "move_new" \in info.is <=> Has(s, "move_constructible")
      /\ "eq" \in info.is <=> IsEqualityComparable(s)
      /\ "partial_ord" \in info.is <=> HasOperatorThreeWayComparison(s)
      /\ "hash" \in info.is <=> Has(s, "std_hash")
      /\ "debug" \in info.is <=> Has(s, "ostream_left_shift")
      /\ "display" \in info.is <=> IsDisplayable(s)
  BY Answers DEF ShouldImplPartialOrd, HasOperatorThreeWayComparison
<1>3. /\ \A o \in Relational : o \in info.has <=> HasOperator(s, o)
      /\ \A o \in Relational : o \in Provides(t) <=> HasOperator(t, o)
  BY Recorded, Provided, ZenonT(60) DEF Operators
<1>4. /\ "equal" \in Provides(t) <=> HasOperator(t, "equal")
      /\ "not_equal" \in Provides(t) <=> HasOperator(t, "not_equal")
  BY Provided DEF Operators
<1> HIDE DEF info, s, t
<1>5. EmitBridge(info) \subseteq Provides(t) <=>
         /\ "drop" \in info.is => "destruct" \in Provides(t)
         /\ "default_new" \in info.is => "default_new" \in Provides(t)
         /\ "copy_new" \in info.is => "copy_new" \in Provides(t)
         /\ "move_new" \in info.is => "move_new" \in Provides(t)
         /\ "eq" \in info.is => "equal" \in Provides(t) /\ "not_equal" \in Provides(t)
         /\ "partial_ord" \in info.is => "three_way_comparison" \in Provides(t)
         /\ "hash" \in info.is => "hash" \in Provides(t)
         /\ "debug" \in info.is => "debug" \in Provides(t)
         /\ "display" \in info.is => "display" \in Provides(t)
         /\ \A o \in Relational : o \in info.has => o \in Provides(t)
  BY Declared
<1>6. EmitBridge(info) \subseteq Provides(t) <=>
         /\ ShouldImplDrop(s) => Has(t, "destructible")
         /\ Has(s, "default_constructible") => Has(t, "default_constructible")
         /\ Has(s, "copy_constructible") => Has(t, "copy_constructible")
         /\ Has(s, "move_constructible") => Has(t, "move_constructible")
         /\ IsEqualityComparable(s) => HasOperator(t, "equal") /\ HasOperator(t, "not_equal")
         /\ HasOperatorThreeWayComparison(s) => HasOperatorThreeWayComparison(t)
         /\ Has(s, "std_hash") => Has(t, "std_hash")
         /\ Has(s, "ostream_left_shift") => Has(t, "ostream_left_shift")
         /\ IsDisplayable(s) => IsDisplayable(t)
         /\ \A o \in Relational : HasOperator(s, o) => HasOperator(t, o)
  BY <1>2, <1>3, <1>4, <1>5, Provided
<1> QED
  BY <1>1, <1>6 DEF CxxAccepts, s, t

\* repr(C, align) around as many bytes as C++ needs adds nothing to them.
LEMMA LayoutKept ==
  ASSUME NEW struct, struct.layout \in Layout, LegalLayout(struct.layout)
  PROVE  RustLayout(struct) = struct.layout
<1> DEFINE a == struct.layout.align
           s == struct.layout.size
<1>1. a \in Nat /\ s \in Nat
  BY DEF Layout
<1>2. PICK k \in 1 .. s : s = k * a
  BY DEF LegalLayout
<1>3. a > 0
  <2>1. SUFFICES ASSUME a = 0 PROVE FALSE
    BY <1>1
  <2>2. s = 0
    BY <1>1, <1>2, <2>1
  <2> QED
    BY <1>2, <2>2
<1> HIDE DEF a, s
<1>4. ((s + a - 1) \div a) * a = s
  BY <1>1, <1>2, <1>3
<1> QED
  BY <1>4 DEF RustLayout, Layout, a, s

\* What rustc makes of the module of an input.
LEMMA RustAgreement ==
  ASSUME NEW n \in Inputs
  PROVE  RustAccepts(Generated(n)) <=>
            /\ Bounded(n.lifetimes)
            /\ HasOperator(n.type, "equal") <=> IsEqualityComparable(n.type)
            /\ ShouldImplPartialOrd(n.type) => HasOperator(n.type, "equal")
            /\ IsTotallyOrdered(n.type) =>
                  ShouldImplPartialOrd(n.type) /\ IsEqualityComparable(n.type)
<1> DEFINE m == Generated(n)
           t == n.type
<1>1. m.struct = EmitStruct(ArtifactInfo(n))
  BY DEF Generated, EmitFile
<1>2. IsPowerOfTwo(m.struct.layout.align)
  <2>1. m.struct.layout = n.type.layout
    BY <1>1, Recorded DEF EmitStruct
  <2> QED
    BY <2>1, InputsAssumption DEF IsInput, LegalLayout
<1>3. m.struct.bounds \subseteq m.struct.params \cup {"static"} <=> Bounded(n.lifetimes)
  BY <1>1, Recorded DEF EmitStruct, Bounded
<1>4. m.struct.params \subseteq m.struct.marked
  BY <1>1 DEF EmitStruct
<1>5. m.calls \subseteq m.declares <=>
         /\ HasOperator(t, "equal") => IsEqualityComparable(t)
         /\ IsTotallyOrdered(t) => ShouldImplPartialOrd(t)
  BY CallsDeclared
<1>6. (\A i \in DOMAIN Supertraits \cap m.impls : Supertraits[i] \subseteq m.impls) <=>
         /\ IsEqualityComparable(t) => HasOperator(t, "equal")
         /\ ShouldImplPartialOrd(t) => HasOperator(t, "equal")
         /\ IsTotallyOrdered(t) => IsEqualityComparable(t) /\ ShouldImplPartialOrd(t)
  BY SupertraitsPresent
<1>7. ~({"Copy", "Drop"} \subseteq m.impls)
  BY CopyNotDrop
<1> HIDE DEF m, t
<1>8. RustAccepts(m) <=>
         /\ Bounded(n.lifetimes)
         /\ HasOperator(t, "equal") <=> IsEqualityComparable(t)
         /\ ShouldImplPartialOrd(t) => HasOperator(t, "equal")
         /\ IsTotallyOrdered(t) => ShouldImplPartialOrd(t) /\ IsEqualityComparable(t)
  BY <1>2, <1>3, <1>4, <1>5, <1>6, <1>7 DEF RustAccepts
<1> QED
  BY <1>8 DEF m, t

\* What the predicates of the header say of the operators.
LEMMA Comparisons ==
  ASSUME NEW t
  PROVE  /\ HasOperator(t, "equal") /\ HasOperator(t, "not_equal") => IsEqualityComparable(t)
         /\ IsTotallyOrdered(t) => IsEqualityComparable(t)
         /\ ShouldImplPartialOrd(t) <=> HasOperatorThreeWayComparison(t)
         /\ HasOperatorThreeWayComparison(t) <=>
               \/ t.three_way \in {"partial", "strong"}
               \/ HasOperator(t, "less_than") /\ HasOperator(t, "equal")
  BY DEF HasOperator, IsEqualityComparable, Usable, IsTotallyOrdered, ShouldImplPartialOrd,
         HasOperatorThreeWayComparison

\* Every operator returns bool, if there is one.
BoolOperators(t) == \A o \in Operators : t.operators[o] \in {"none", "bool"}

\* A module compiles against what its type has become exactly if the type was in order and
\* has kept what the module needs, given operators that return bool.
LEMMA StaleAgreement ==
  ASSUME NEW n \in Inputs, NEW k, BoolOperators(n.type) \/ k = n
  PROVE  RustAccepts(Generated(n)) /\ CxxAccepts(Generated(n), k.type) <=>
            Coherent(n.type) /\ Bounded(n.lifetimes) /\ Keeps(n.type, k.type)
<1> DEFINE s == n.type
           t == k.type
           rust == RustAccepts(Generated(n))
           cxx == CxxAccepts(Generated(n), k.type)
<1>1. rust <=>
         /\ Bounded(n.lifetimes)
         /\ HasOperator(s, "equal") <=> IsEqualityComparable(s)
         /\ ShouldImplPartialOrd(s) => HasOperator(s, "equal")
         /\ IsTotallyOrdered(s) => ShouldImplPartialOrd(s) /\ IsEqualityComparable(s)
  BY RustAgreement
<1>2. cxx <=>
         /\ ShouldImplDrop(s) => Has(t, "destructible")
         /\ Has(s, "default_constructible") => Has(t, "default_constructible")
         /\ Has(s, "copy_constructible") => Has(t, "copy_constructible")
         /\ Has(s, "move_constructible") => Has(t, "move_constructible")
         /\ IsEqualityComparable(s) => HasOperator(t, "equal") /\ HasOperator(t, "not_equal")
         /\ HasOperatorThreeWayComparison(s) => HasOperatorThreeWayComparison(t)
         /\ Has(s, "std_hash") => Has(t, "std_hash")
         /\ Has(s, "ostream_left_shift") => Has(t, "ostream_left_shift")
         /\ IsDisplayable(s) => IsDisplayable(t)
         /\ \A o \in Relational : HasOperator(s, o) => HasOperator(t, o)
  BY DeclaredProvided
<1>3. Keeps(s, t) <=>
         /\ ShouldImplDrop(s) => Has(t, "destructible")
         /\ Has(s, "default_constructible") => Has(t, "default_constructible")
         /\ Has(s, "copy_constructible") => Has(t, "copy_constructible")
         /\ Has(s, "move_constructible") => Has(t, "move_constructible")
         /\ HasOperator(s, "equal") => HasOperator(t, "equal") /\ HasOperator(t, "not_equal")
         /\ s.three_way \in {"partial", "strong"} =>
               t.three_way \in {"partial", "strong"} \/ HasOperator(t, "less_than")
         /\ Has(s, "std_hash") => Has(t, "std_hash")
         /\ Has(s, "ostream_left_shift") => Has(t, "ostream_left_shift")
         /\ IsDisplayable(s) => IsDisplayable(t)
         /\ \A o \in Relational : HasOperator(s, o) => HasOperator(t, o)
  BY DEF Keeps, ShouldImplDrop
<1>4. HasOperator(s, "less_than") => (cxx \/ Keeps(s, t) => HasOperator(t, "less_than"))
  BY <1>2, <1>3 DEF Relational
<1>5. cxx /\ IsEqualityComparable(s) => HasOperator(s, "equal") /\ HasOperator(s, "not_equal")
  <2>1. CASE k = n
    BY <1>2, <2>1
  <2>2. CASE BoolOperators(n.type)
    BY <2>2 DEF BoolOperators, IsEqualityComparable, Usable, HasOperator, Operators
  <2> QED
    BY <2>1, <2>2
<1> HIDE DEF s, t, rust, cxx
<1>6. Coherent(s) /\ Bounded(n.lifetimes) /\ Keeps(s, t) => rust /\ cxx
  <2> SUFFICES ASSUME Coherent(s), Bounded(n.lifetimes), Keeps(s, t) PROVE rust /\ cxx
    OBVIOUS
  <2>1. rust
    BY <1>1, Comparisons DEF Coherent
  <2>2. IsEqualityComparable(s) => HasOperator(t, "equal") /\ HasOperator(t, "not_equal")
    BY <1>3 DEF Coherent
  <2>3. HasOperatorThreeWayComparison(s) => HasOperatorThreeWayComparison(t)
    BY <1>3, <1>4, Comparisons DEF Coherent
  <2> QED
    BY <1>2, <1>3, <2>1, <2>2, <2>3
<1>7. rust /\ cxx => Coherent(s) /\ Bounded(n.lifetimes) /\ Keeps(s, t)
  <2> SUFFICES ASSUME rust, cxx PROVE Coherent(s) /\ Bounded(n.lifetimes) /\ Keeps(s, t)
    OBVIOUS
  <2>1. HasOperator(s, "equal") => HasOperator(t, "equal") /\ HasOperator(t, "not_equal")
    BY <1>1, <1>2
  <2>2. s.three_way \in {"partial", "strong"} =>
           t.three_way \in {"partial", "strong"} \/ HasOperator(t, "less_than")
    BY <1>2, Comparisons
  <2>3. Keeps(s, t)
    BY <1>2, <1>3, <2>1, <2>2
  <2> QED
    BY <1>1, <1>5, <2>3, Comparisons DEF Coherent
<1> QED
  BY <1>6, <1>7 DEF s, t, rust, cxx

\* rustc and the C++ compiler take a module that is up to date exactly if the operators
\* of the type are coherent and its lifetimes bounded.
LEMMA Agreement ==
  ASSUME NEW n \in Inputs
  PROVE  RustAccepts(Generated(n)) /\ CxxAccepts(Generated(n), n.type) <=>
            Coherent(n.type) /\ Bounded(n.lifetimes)
<1>1. Coherent(n.type) => Keeps(n.type, n.type)
  BY DEF Coherent, Keeps
<1> QED
  BY <1>1, StaleAgreement

\* A module passes its own tests, whatever has become of the type.
LEMMA TestsAgree ==
  ASSUME NEW n \in Inputs
  PROVE  TestsPass(Generated(n))
<1> DEFINE info == ArtifactInfo(n)
<1>1. /\ Generated(n).struct.layout = info.layout
      /\ Generated(n).impls = EmitImpls(info)
      /\ Generated(n).tests.layout = info.layout
      /\ Generated(n).tests.asserts = {i \in {"Copy", "Unpin"} : Gate[i] \in info.is}
  BY DEF Generated, EmitFile, EmitStruct, EmitInfoTestModule
<1>2. info.layout \in Layout /\ LegalLayout(info.layout)
  BY InputsAssumption, Recorded DEF IsInput, CxxType
<1>3. {i \in {"Copy", "Unpin"} : Gate[i] \in info.is} \subseteq EmitImpls(info)
  BY DEF EmitImpls, Gate
<1> HIDE DEF info
<1> QED
  BY <1>1, <1>2, <1>3, LayoutKept DEF TestsPass

-----------------------------------------------------------------------------
(* Invariants of Spec. *)

\* What a build that ended stands for.
BuildInv ==
    /\ built = "ok" => /\ module = Generated(source)
                       /\ RustAccepts(module) /\ CxxAccepts(module, input.type)
    /\ built = "error" => /\ module = Generated(source)
                          /\ ~(RustAccepts(module) /\ CxxAccepts(module, input.type))

AbiInv ==
    /\ input \in Inputs /\ source \in Inputs
    /\ input # source => input \in Edited /\ source \in Edited
    /\ module \in {NoModule, Generated(source)}
    /\ built \in {"no", "ok", "error", "panic"}
    /\ edits \in 0 .. MaxEdits
    /\ BuildInv

\* The module is the one its source stands for, and the outcome of a build speaks of it.
LEMMA AbiInductive == Spec => []AbiInv
<1>1. Init => AbiInv
  BY InputsAssumption, MaxEditsAssumption DEF Init, AbiInv, BuildInv
<1>2. AbiInv /\ [Next]_vars => AbiInv'
  <2> SUFFICES ASSUME AbiInv, [Next]_vars PROVE AbiInv'
    OBVIOUS
  <2>1. CASE WriteModuleForFile
    BY <2>1 DEF WriteModuleForFile, AbiInv, BuildInv, Generated
  <2>2. CASE Build
    BY <2>2 DEF Build, AbiInv, BuildInv
  <2>3. CASE Edit
    BY <2>3, EditedAssumption, MaxEditsAssumption DEF Edit, AbiInv, BuildInv
  <2>4. CASE UNCHANGED vars
    BY <2>4 DEF vars, AbiInv, BuildInv
  <2> QED
    BY <2>1, <2>2, <2>3, <2>4 DEF Next
<1> QED
  BY <1>1, <1>2, PTL DEF Spec

\* What emit_file writes is a module, whatever it was asked about.
LEMMA GeneratedType ==
  ASSUME NEW n \in Inputs
  PROVE  Generated(n) \in Module
<1> DEFINE info == ArtifactInfo(n)
           l == n.lifetimes
<1>1. /\ n.type.layout \in Layout
      /\ \E D \in SUBSET LifetimeNames : l \in [D -> Seq(LifetimeNames \cup {"static"})]
  BY InputsAssumption DEF IsInput, CxxType, AreLifetimes
<1>2. BoundNames(l) \subseteq LifetimeNames \cup {"static"}
  <2>1. ASSUME NEW x \in DOMAIN l, NEW i \in DOMAIN l[x]
        PROVE  l[x][i] \in LifetimeNames \cup {"static"}
    <3>1. l[x] \in Seq(LifetimeNames \cup {"static"})
      BY <1>1
    <3> QED
      BY <3>1
  <2> QED
    BY <2>1 DEF BoundNames
<1>3. EmitStruct(info) \in Struct
  BY <1>1, <1>2, Recorded DEF EmitStruct, Struct
<1>4. EmitImpls(info) \subseteq Impls
  BY Answers, Emitted DEF Gate, Impls
<1>5. EmitBridge(info) \subseteq Functions
  BY Declared DEF Functions, Operators, Relational
<1>6. UNION {Calls(info, i) : i \in EmitImpls(info)} \subseteq Functions
  BY Answers, Called DEF Functions, Operators, Relational
<1>7. EmitInfoTestModule(info) \in Tests
  BY <1>1, Recorded DEF EmitInfoTestModule, Tests
<1> HIDE DEF info
<1> QED
  BY <1>3, <1>4, <1>5, <1>6, <1>7 DEF Generated, EmitFile, Module, info

\* Every variable keeps its type.
THEOREM AbiTypeCorrect == Spec => []AbiTypeOK
<1>1. NoModule \in Module
  BY DEF NoModule, Module, Struct, Layout, Tests
<1>2. AbiInv => AbiTypeOK
  BY <1>1, GeneratedType, InputsAssumption DEF AbiInv, AbiTypeOK
<1> QED
  BY <1>2, AbiInductive, PTL

\* A module that is up to date compiles exactly if the operators of the type are coherent
\* and its lifetimes bounded, whatever the type (emit_file, the bridge and the requires
\* clauses of the header).
THEOREM CompilesIffCoherentHolds == Spec => []CompilesIffCoherent
<1>1. AbiInv => CompilesIffCoherent
  BY Agreement DEF AbiInv, BuildInv, CompilesIffCoherent, Fresh
<1> QED
  BY <1>1, AbiInductive, PTL

\* An up-to-date module runs the C++ destructor where there is one, copies and moves bits
\* only where C++ would, and has the layout of the C++ type (rust_should_impl_drop and its
\* neighbours, through artifact_info and emit_file).
THEOREM FreshBuildFaithfulHolds == Spec => []FreshBuildFaithful
<1>1. ASSUME AbiInv, Fresh, built = "ok"
      PROVE  /\ "Drop" \in module.impls <=>
                   Has(input.type, "destructible") /\ ~Has(input.type, "trivially_destructible")
             /\ "Copy" \in module.impls => Has(input.type, "trivially_copyable")
             /\ {"Copy", "Unpin"} \cap module.impls # {} \/ module.kind = "Trivial" =>
                   Has(input.type, "trivially_move_constructible") /\ "Drop" \notin module.impls
  <2>1. module = Generated(input)
    BY <1>1 DEF AbiInv, BuildInv, Fresh
  <2>2. /\ module.impls = EmitImpls(ArtifactInfo(input))
        /\ module.kind = "Trivial" <=> "extern_type_trivial" \in ArtifactInfo(input).is
    BY <2>1 DEF Generated, EmitFile
  <2>3. /\ "Drop" \in module.impls <=> ShouldImplDrop(input.type)
        /\ "Copy" \in module.impls <=> ShouldImplCopy(input.type)
        /\ "Unpin" \in module.impls <=> IsTriviallyMovable(input.type)
        /\ module.kind = "Trivial" <=> IsTriviallyMovable(input.type)
    BY <2>2, Answers, EmittedByName
  <2> QED
    BY <2>3 DEF ShouldImplDrop, ShouldImplCopy, IsTriviallyMovable
<1>2. ASSUME AbiInv, Fresh, built = "ok"
      PROVE  RustLayout(module.struct) = input.type.layout
  <2>1. module.struct.layout = input.type.layout
    BY <1>2, Recorded DEF AbiInv, BuildInv, Fresh, Generated, EmitFile, EmitStruct
  <2>2. input.type.layout \in Layout /\ LegalLayout(input.type.layout)
    BY <1>2, InputsAssumption DEF AbiInv, IsInput, CxxType
  <2> QED
    BY <2>1, <2>2, LayoutKept
<1>3. AbiInv => FreshBuildFaithful
  BY <1>1, <1>2 DEF FreshBuildFaithful
<1> QED
  BY <1>3, AbiInductive, PTL

-----------------------------------------------------------------------------
(* Stale modules. *)

\* What a C++ function backs: the type of now provides what the impls of the type of then
\* call, so it is given the same impls.
LEMMA BackedImpls ==
  ASSUME NEW n, NEW k, BoolOperators(n.type),
         RustAccepts(Generated(n)), CxxAccepts(Generated(n), k.type)
  PROVE  Generated(n).impls \subseteq ImplsOf(k) \cup LayoutImpls
<1> DEFINE G == Generated(n)
           t == k.type
<1>1. /\ G.impls = EmitImpls(ArtifactInfo(n))
      /\ G.declares = EmitBridge(ArtifactInfo(n))
      /\ G.calls = UNION {Calls(ArtifactInfo(n), i) : i \in EmitImpls(ArtifactInfo(n))}
      /\ ImplsOf(k) = EmitImpls(ArtifactInfo(k))
  BY DEF Generated, EmitFile, ImplsOf
<1>2. G.calls \subseteq Provides(t) /\ G.declares \subseteq Provides(t)
  BY DEF RustAccepts, CxxAccepts
<1>3. /\ "Default" \in G.impls => Has(t, "default_constructible")
      /\ "CopyNew" \in G.impls => Has(t, "copy_constructible")
      /\ "MoveNew" \in G.impls => Has(t, "move_constructible")
      /\ "Hash" \in G.impls => Has(t, "std_hash")
      /\ "Display" \in G.impls => IsDisplayable(t)
      /\ "PartialOrd" \in G.impls => HasOperatorThreeWayComparison(t)
  BY <1>1, <1>2, Answers, EmittedByName, Declared, Provided
<1>4. "PartialEq" \in G.impls => HasOperator(t, "equal")
  <2>1. "PartialEq" \in G.impls => "equal" \in G.calls
    BY <1>1, Answers, EmittedByName, Called
  <2> QED
    BY <2>1, <1>2, Provided DEF Operators
<1>5. "Eq" \in G.impls => HasOperator(t, "equal") /\ HasOperator(t, "not_equal")
  <2>1. "Eq" \in G.impls => {"equal", "not_equal"} \subseteq G.declares
    BY <1>1, Answers, EmittedByName, Declared
  <2> QED
    BY <2>1, <1>2, Provided DEF Operators
<1>6. "Ord" \in G.impls => "Eq" \in G.impls /\ \A o \in Relational : HasOperator(t, o)
  <2>1. "Ord" \in G.impls => "Eq" \in G.impls
    BY DEF RustAccepts, Supertraits
  <2>2. ASSUME "Ord" \in G.impls, NEW o \in Relational
        PROVE  HasOperator(t, o)
    <3>1. IsTotallyOrdered(n.type)
      BY <1>1, <2>2, Answers, EmittedByName
    <3>2. HasOperator(n.type, o)
      BY <3>1 DEF IsTotallyOrdered, Usable, HasOperator, BoolOperators, Operators
    <3>3. o \in G.declares
      BY <1>1, <3>2, Recorded, Declared DEF Operators
    <3> QED
      BY <1>2, <3>3, Provided DEF Operators
  <2> QED
    BY <2>1, <2>2
<1>7. G.impls \subseteq DOMAIN Gate \cup {"Debug"}
  BY <1>1, Answers, Emitted
<1> HIDE DEF G, t
<1>8. ASSUME NEW i \in G.impls, i \notin LayoutImpls
      PROVE  i \in EmitImpls(ArtifactInfo(k))
  <2>1. /\ "Eq" \in G.impls => IsEqualityComparable(t)
        /\ "Ord" \in G.impls => IsTotallyOrdered(t)
        /\ "PartialOrd" \in G.impls => ShouldImplPartialOrd(t)
    BY <1>3, <1>5, <1>6
       DEF IsEqualityComparable, IsTotallyOrdered, Usable, HasOperator, ShouldImplPartialOrd
  <2>2. i \in {"Default", "CopyNew", "MoveNew", "PartialEq", "Eq", "PartialOrd", "Ord", "Hash",
               "Debug", "Display"}
    BY <1>7, <1>8 DEF Gate, LayoutImpls
  <2> QED
    BY <1>3, <1>4, <2>1, <2>2, Answers, EmittedByName DEF t
<1> QED
  BY <1>1, <1>8 DEF G

\* A stale module that still compiles offers nothing the type has lost but what no C++
\* function backs, if the operators of the types that come about by an edit return bool
\* (the requires clauses of the header).
THEOREM StaleBuildSupportedHolds ==
  ASSUME \A n \in Edited : BoolOperators(n.type)
  PROVE  Spec => []StaleBuildSupported
<1>1. ASSUME AbiInv, built = "ok"
      PROVE  module.impls \subseteq ImplsOf(input) \cup LayoutImpls
  <2>1. /\ module = Generated(source)
        /\ RustAccepts(module) /\ CxxAccepts(module, input.type)
    BY <1>1 DEF AbiInv, BuildInv
  <2>2. CASE input = source
    BY <2>1, <2>2 DEF ImplsOf, Generated
  <2>3. CASE input # source
    BY <1>1, <2>1, <2>3, BackedImpls DEF AbiInv
  <2> QED
    BY <2>2, <2>3
<1>2. AbiInv => StaleBuildSupported
  BY <1>1 DEF StaleBuildSupported
<1> QED
  BY <1>2, AbiInductive, PTL

\* The limit of what a build and the tests in the module notice of an edit: they pass
\* exactly if the first input was in order and the type has lost no function that the
\* module calls, if the operators of the types that come about by an edit return bool
\* (emit_info_test_module and the requires clauses of the header).
THEOREM EditNoticedIffHolds ==
  ASSUME \A n \in Edited : BoolOperators(n.type)
  PROVE  Spec => []EditNoticedIff
<1>1. ASSUME AbiInv, built \in {"ok", "error"}
      PROVE  built = "ok" /\ TestsPass(module) <=>
                /\ Coherent(source.type) /\ Bounded(source.lifetimes)
                /\ Keeps(source.type, input.type)
  <2>1. /\ source \in Inputs /\ module = Generated(source)
        /\ built = "ok" <=> RustAccepts(module) /\ CxxAccepts(module, input.type)
    BY <1>1 DEF AbiInv, BuildInv
  <2>2. BoolOperators(source.type) \/ input = source
    BY <1>1 DEF AbiInv
  <2>3. TestsPass(module)
    BY <2>1, TestsAgree
  <2> QED
    BY <2>1, <2>2, <2>3, StaleAgreement
<1>2. AbiInv => EditNoticedIff
  BY <1>1 DEF EditNoticedIff
<1> QED
  BY <1>2, AbiInductive, PTL

=============================================================================
