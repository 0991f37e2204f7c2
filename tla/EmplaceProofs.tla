---------------------------- MODULE EmplaceProofs ----------------------------
(***************************************************************************)
(* Proofs about Emplace, for any threads and any heap: the strong counts   *)
(* are exact, nobody else has a pointer to a block that is being built,    *)
(* and the values behind the pointers live as SharedOwners says.           *)
(*                                                                         *)
(* The invariant counts a set, the pointers to a block: a step takes one   *)
(* pointer out of it or puts one in, and changes the strong count alike.   *)
(***************************************************************************)
EXTENDS Emplace, FiniteSetTheorems, SequenceTheorems, TLAPS

EmplaceTypes ==
    /\ block \in [Blocks -> Block]
    /\ held \in [Threads -> [Blocks -> Nat]]
    /\ calls \in [Threads -> Seq(Call)]
    /\ mode \in [Threads -> {"running", "unwinding"}]
    /\ leaked \subseteq Blocks
    /\ aborted \in BOOLEAN

\* What EmplaceTypes says of the single parts.
LEMMA Facts ==
  ASSUME EmplaceTypes
  PROVE  /\ \A b \in Blocks : /\ block[b].kind \in AllKinds /\ block[b].content \in Contents
                              /\ block[b].refs \in Nat /\ block[b].refs <= MaxRefs
         /\ \A t \in Threads, b \in Blocks : held[t][b] \in Nat
         /\ \A t \in Threads : /\ calls[t] \in Seq(Call) /\ Len(calls[t]) \in Nat
                               /\ DOMAIN calls[t] = 1 .. Len(calls[t])
         /\ \A t \in Threads : \A i \in 1 .. Len(calls[t]) :
               /\ calls[t][i] \in Call /\ calls[t][i].self \in Blocks
               /\ calls[t][i].uninit \in Blocks /\ calls[t][i].phase \in Phases
<1>1. \A b \in Blocks : /\ block[b].kind \in AllKinds /\ block[b].content \in Contents
                        /\ block[b].refs \in Nat /\ block[b].refs <= MaxRefs
  BY MaxRefsAssumption DEF EmplaceTypes, Block
<1>2. \A t \in Threads, b \in Blocks : held[t][b] \in Nat
  BY DEF EmplaceTypes
<1>3. \A t \in Threads : /\ calls[t] \in Seq(Call) /\ Len(calls[t]) \in Nat
                         /\ DOMAIN calls[t] = 1 .. Len(calls[t])
  BY DEF EmplaceTypes
<1>4. ASSUME NEW t \in Threads, NEW i \in 1 .. Len(calls[t])
      PROVE  /\ calls[t][i] \in Call /\ calls[t][i].self \in Blocks
             /\ calls[t][i].uninit \in Blocks /\ calls[t][i].phase \in Phases
  <2>1. calls[t][i] \in Call
    BY <1>3, <1>4
  <2> QED
    BY <2>1 DEF Call
<1> QED
  BY <1>1, <1>2, <1>3, <1>4

-----------------------------------------------------------------------------
(* Pointers. *)

Roles == {"code", "self", "new"}

\* Is the i-th pointer of t in role w, or the pointer of its i-th call, one to b?
Ptr(w, t, i, b) ==
    \/ w = "code" /\ 1 <= i /\ i <= held[t][b]
    \/ w = "self" /\ 1 <= i /\ i <= Len(calls[t]) /\ calls[t][i].self = b
                  /\ calls[t][i].phase # "cleanup"
    \/ w = "new"  /\ 1 <= i /\ i <= Len(calls[t]) /\ calls[t][i].uninit = b
                  /\ calls[t][i].phase # "failing"

PointersAre(b) ==
    \A p : p \in Pointers(b) <=>
       \/ \E w \in Roles, t \in Threads, i \in Nat : p = <<w, t, i>> /\ Ptr(w, t, i, b)
       \/ b \in leaked /\ p = <<"lost", b>>

LEMMA PointerIs ==
  ASSUME EmplaceTypes, NEW b \in Blocks
  PROVE  PointersAre(b)
<1>1. \A t \in Threads : \A p : p \in PointersOf(t, b) <=>
         \E w \in Roles, i \in Nat : p = <<w, t, i>> /\ Ptr(w, t, i, b)
  <2> SUFFICES ASSUME NEW t \in Threads, NEW p
               PROVE  p \in PointersOf(t, b) <=>
                         \E w \in Roles, i \in Nat : p = <<w, t, i>> /\ Ptr(w, t, i, b)
    OBVIOUS
  <2>1. DOMAIN calls[t] = 1 .. Len(calls[t]) /\ Len(calls[t]) \in Nat /\ held[t][b] \in Nat
    BY Facts
  <2>2. p \in PointersOf(t, b) <=>
           \/ \E i \in Nat : p = <<"code", t, i>> /\ 1 <= i /\ i <= held[t][b]
           \/ \E i \in Nat : /\ p = <<"self", t, i>> /\ 1 <= i /\ i <= Len(calls[t])
                             /\ calls[t][i].self = b /\ calls[t][i].phase # "cleanup"
           \/ \E i \in Nat : /\ p = <<"new", t, i>> /\ 1 <= i /\ i <= Len(calls[t])
                             /\ calls[t][i].uninit = b /\ calls[t][i].phase # "failing"
    BY <2>1 DEF PointersOf
  <2> QED
    BY <2>2 DEF Roles, Ptr
<1>2. \A p : p \in Pointers(b) <=>
         \/ \E t \in Threads : p \in PointersOf(t, b)
         \/ b \in leaked /\ p = <<"lost", b>>
  BY DEF Pointers
<1> QED
  BY <1>1, <1>2 DEF PointersAre

\* The same of the next state.
LEMMA PointerIsNext == (EmplaceTypes => \A b \in Blocks : PointersAre(b))'
<1>1. EmplaceTypes => \A b \in Blocks : PointersAre(b)
  BY PointerIs
<1> QED
  BY <1>1, PTL

\* A step keeps the pointers to b, puts one in, takes one out, or exchanges one.
LEMMA Keeps ==
  ASSUME EmplaceTypes, EmplaceTypes', NEW b \in Blocks, b \in leaked' <=> b \in leaked,
         \A w \in Roles, t \in Threads, i \in Nat : Ptr(w, t, i, b)' <=> Ptr(w, t, i, b)
  PROVE  Pointers(b)' = Pointers(b)
<1>1. PointersAre(b) /\ PointersAre(b)'
  BY PointerIs, PointerIsNext
<1>2. \A p : p \in Pointers(b)' <=> p \in Pointers(b)
  BY <1>1 DEF PointersAre
<1> QED
  BY <1>2

LEMMA Exchanges ==
  ASSUME EmplaceTypes, EmplaceTypes', NEW b \in Blocks, b \in leaked' <=> b \in leaked,
         NEW p, p # <<"lost", b>>,
         NEW q, \E v \in Roles, y \in Threads, k \in Nat : q = <<v, y, k>>,
         \A w \in Roles, t \in Threads, i \in Nat :
            Ptr(w, t, i, b)' <=> (Ptr(w, t, i, b) /\ <<w, t, i>> # p) \/ <<w, t, i>> = q
  PROVE  Pointers(b)' = (Pointers(b) \ {p}) \cup {q}
<1>1. PointersAre(b) /\ PointersAre(b)'
  BY PointerIs, PointerIsNext
<1>2. ASSUME NEW x
      PROVE  x \in Pointers(b)' <=> (x \in Pointers(b) /\ x # p) \/ x = q
  BY <1>1 DEF PointersAre
<1> QED
  BY <1>2

LEMMA Takes ==
  ASSUME EmplaceTypes, EmplaceTypes', NEW b \in Blocks, b \in leaked' <=> b \in leaked,
         NEW p, p # <<"lost", b>>,
         \A w \in Roles, t \in Threads, i \in Nat :
            Ptr(w, t, i, b)' <=> Ptr(w, t, i, b) /\ <<w, t, i>> # p
  PROVE  Pointers(b)' = Pointers(b) \ {p}
<1>1. PointersAre(b) /\ PointersAre(b)'
  BY PointerIs, PointerIsNext
<1>2. ASSUME NEW x
      PROVE  x \in Pointers(b)' <=> x \in Pointers(b) /\ x # p
  BY <1>1 DEF PointersAre
<1> QED
  BY <1>2

LEMMA Puts ==
  ASSUME EmplaceTypes, EmplaceTypes', NEW b \in Blocks, b \in leaked' <=> b \in leaked,
         NEW q, \E v \in Roles, y \in Threads, k \in Nat : q = <<v, y, k>>,
         \A w \in Roles, t \in Threads, i \in Nat :
            Ptr(w, t, i, b)' <=> Ptr(w, t, i, b) \/ <<w, t, i>> = q
  PROVE  Pointers(b)' = Pointers(b) \cup {q}
<1>1. PointersAre(b) /\ PointersAre(b)'
  BY PointerIs, PointerIsNext
<1>2. ASSUME NEW x
      PROVE  x \in Pointers(b)' <=> x \in Pointers(b) \/ x = q
  BY <1>1 DEF PointersAre
<1> QED
  BY <1>2

-----------------------------------------------------------------------------
(* The invariant. *)

Exact(b) == IsFiniteSet(Pointers(b)) /\ block[b].refs = Cardinality(Pointers(b))

IsBuilding(t, i, b) ==
    /\ 1 <= i /\ i <= Len(calls[t])
    /\ calls[t][i].uninit = b /\ calls[t][i].phase = "construct"

\* Only a block with pointers has a value, and a half-built one belongs to a call.
BlockInv(b) ==
    /\ block[b].content \in {"free", "dead", "discarded"} => block[b].refs = 0
    /\ block[b].content = "alive" => block[b].refs >= 1
    /\ block[b].content = "uninit" =>
          block[b].refs = 1 /\ \E t \in Threads, i \in Nat : IsBuilding(t, i, b)

\* The new block of a call is half-built until the constructor has written it, and is
\* not shared before the call returns.
CallInv(t, i) ==
    LET c == calls[t][i]
    IN  c.phase # "failing" =>
           /\ block[c.uninit].refs = 1
           /\ block[c.uninit].content = "uninit" <=> c.phase = "construct"

EmplaceInv ==
    /\ EmplaceTypes
    /\ \A b \in Blocks : Exact(b) /\ BlockInv(b)
    /\ \A t \in Threads : \A i \in 1 .. Len(calls[t]) : CallInv(t, i)

LEMMA IsPointer ==
  ASSUME EmplaceTypes, NEW b \in Blocks, NEW w \in Roles, NEW t \in Threads, NEW i \in Nat
  PROVE  <<w, t, i>> \in Pointers(b) <=> Ptr(w, t, i, b)
<1>1. PointersAre(b)
  BY PointerIs
<1>2. <<w, t, i>> # <<"lost", b>>
  OBVIOUS
<1> QED
  BY <1>1, <1>2 DEF PointersAre

LEMMA SomePointer ==
  ASSUME NEW b, Exact(b), NEW p \in Pointers(b)
  PROVE  block[b].refs \in Nat /\ block[b].refs >= 1
<1>1. Cardinality(Pointers(b)) \in Nat /\ Cardinality(Pointers(b)) # 0
  BY FS_CardinalityType, FS_EmptySet DEF Exact
<1> QED
  BY <1>1 DEF Exact

LEMMA OnlyPointer ==
  ASSUME NEW b, Exact(b), block[b].refs = 1, NEW p \in Pointers(b), NEW q \in Pointers(b)
  PROVE  p = q
<1>1. \E x : Pointers(b) = {x}
  BY FS_Singleton DEF Exact
<1> QED
  BY <1>1

-----------------------------------------------------------------------------
(* Counting: how the pointers of a block and its strong count change together. *)

LEMMA ExactKept ==
  ASSUME NEW b, Exact(b), Pointers(b)' = Pointers(b), block'[b].refs = block[b].refs
  PROVE  Exact(b)'
  BY DEF Exact

LEMMA ExactPut ==
  ASSUME NEW b, Exact(b), NEW p, p \notin Pointers(b), Pointers(b)' = Pointers(b) \cup {p},
         block'[b].refs = block[b].refs + 1
  PROVE  Exact(b)'
<1>1. /\ IsFiniteSet(Pointers(b) \cup {p})
      /\ Cardinality(Pointers(b) \cup {p}) = Cardinality(Pointers(b)) + 1
  BY FS_AddElement DEF Exact
<1> QED
  BY <1>1 DEF Exact

LEMMA ExactTaken ==
  ASSUME NEW b, Exact(b), NEW p, p \in Pointers(b), Pointers(b)' = Pointers(b) \ {p},
         block'[b].refs = block[b].refs - 1
  PROVE  Exact(b)'
<1>1. /\ IsFiniteSet(Pointers(b) \ {p})
      /\ Cardinality(Pointers(b) \ {p}) = Cardinality(Pointers(b)) - 1
  BY FS_RemoveElement DEF Exact
<1> QED
  BY <1>1 DEF Exact

LEMMA ExactExchanged ==
  ASSUME NEW b, Exact(b), NEW p, p \in Pointers(b), NEW q, q \notin Pointers(b),
         Pointers(b)' = (Pointers(b) \ {p}) \cup {q}, block'[b].refs = block[b].refs
  PROVE  Exact(b)'
<1>1. /\ IsFiniteSet(Pointers(b) \ {p})
      /\ Cardinality(Pointers(b) \ {p}) = Cardinality(Pointers(b)) - 1
  BY FS_RemoveElement DEF Exact
<1>2. /\ IsFiniteSet((Pointers(b) \ {p}) \cup {q})
      /\ Cardinality((Pointers(b) \ {p}) \cup {q}) = Cardinality(Pointers(b) \ {p}) + 1
  BY <1>1, FS_AddElement DEF Exact
<1>3. Cardinality(Pointers(b)) \in Nat
  BY FS_CardinalityType DEF Exact
<1> QED
  BY <1>1, <1>2, <1>3 DEF Exact

-----------------------------------------------------------------------------
(* What is left alone. *)

LEMMA InvFacts ==
  ASSUME EmplaceInv
  PROVE  /\ EmplaceTypes
         /\ \A b \in Blocks : Exact(b) /\ BlockInv(b)
         /\ \A t \in Threads : \A i \in 1 .. Len(calls[t]) : CallInv(t, i)
  BY DEF EmplaceInv

LEMMA BlockKept ==
  ASSUME NEW b, BlockInv(b),
         block'[b].content = block[b].content, block'[b].refs = block[b].refs,
         \A t \in Threads, i \in Nat : IsBuilding(t, i, b) => IsBuilding(t, i, b)'
  PROVE  BlockInv(b)'
  BY DEF BlockInv

\* A new block with one pointer is not changed through any other.
LEMMA CallKept ==
  ASSUME EmplaceInv, NEW t \in Threads, NEW i \in 1 .. Len(calls[t]),
         calls'[t][i] = calls[t][i],
         \/ block'[calls[t][i].uninit] = block[calls[t][i].uninit]
         \/ block[calls[t][i].uninit].refs = 0
         \/ \E q \in Pointers(calls[t][i].uninit) : q # <<"new", t, i>>
  PROVE  CallInv(t, i)'
<1> DEFINE c == calls[t][i]
           n == calls[t][i].uninit
<1>1. n \in Blocks /\ Exact(n) /\ CallInv(t, i) /\ i \in Nat
  BY InvFacts, Facts
<1>2. SUFFICES ASSUME c.phase # "failing"
               PROVE  block'[n] = block[n]
  BY <1>1 DEF CallInv
<1>3. block[n].refs = 1
  BY <1>1, <1>2 DEF CallInv
<1>4. <<"new", t, i>> \in Pointers(n)
  <2>1. Ptr("new", t, i, n)
    BY <1>1, <1>2, InvFacts, Facts DEF Ptr
  <2> QED
    BY <1>1, <2>1, IsPointer, InvFacts DEF Roles
<1>5. \A q \in Pointers(n) : q = <<"new", t, i>>
  BY <1>1, <1>3, <1>4, OnlyPointer
<1> QED
  BY <1>3, <1>5

\* The pointers of the code change, and no call does.
LEMMA CodeKept ==
  ASSUME EmplaceTypes, EmplaceTypes', UNCHANGED <<calls, leaked>>, NEW b \in Blocks,
         \A t \in Threads : held'[t][b] = held[t][b]
  PROVE  Pointers(b)' = Pointers(b)
<1>1. \A w \in Roles, t \in Threads, i \in Nat : Ptr(w, t, i, b)' <=> Ptr(w, t, i, b)
  BY DEF Ptr
<1> QED
  BY <1>1, Keeps

LEMMA CodePut ==
  ASSUME EmplaceTypes, EmplaceTypes', UNCHANGED <<calls, leaked>>, NEW b \in Blocks,
         NEW t \in Threads, held'[t][b] = held[t][b] + 1,
         \A u \in Threads \ {t} : held'[u][b] = held[u][b],
         Exact(b), block'[b].refs = block[b].refs + 1
  PROVE  Exact(b)'
<1> PICK k \in Nat : k = held[t][b] + 1
  BY Facts
<1> DEFINE q == <<"code", t, k>>
<1>1. held[t][b] \in Nat /\ "code" \in Roles
  BY Facts DEF Roles
<1>2. \A w \in Roles, x \in Threads, i \in Nat :
         Ptr(w, x, i, b)' <=> Ptr(w, x, i, b) \/ <<w, x, i>> = q
  BY <1>1 DEF Ptr, Roles
<1>3. q \notin Pointers(b)
  BY <1>1, IsPointer DEF Ptr
<1>4. \E v \in Roles, y \in Threads, l \in Nat : q = <<v, y, l>>
  BY <1>1
<1> HIDE DEF q
<1>5. Pointers(b)' = Pointers(b) \cup {q}
  BY <1>2, <1>4, Puts
<1> QED
  BY <1>3, <1>5, ExactPut

LEMMA CodeTaken ==
  ASSUME EmplaceTypes, EmplaceTypes', UNCHANGED <<calls, leaked>>, NEW b \in Blocks,
         NEW t \in Threads, held[t][b] > 0, held'[t][b] = held[t][b] - 1,
         \A u \in Threads \ {t} : held'[u][b] = held[u][b],
         Exact(b), block'[b].refs = block[b].refs - 1
  PROVE  Exact(b)'
<1> PICK j \in Nat : j = held[t][b]
  BY Facts
<1> DEFINE p == <<"code", t, j>>
<1>1. "code" \in Roles
  BY DEF Roles
<1>2. \A w \in Roles, x \in Threads, i \in Nat :
         Ptr(w, x, i, b)' <=> Ptr(w, x, i, b) /\ <<w, x, i>> # p
  BY <1>1 DEF Ptr, Roles
<1>3. p \in Pointers(b)
  BY <1>1, IsPointer DEF Ptr
<1>4. p # <<"lost", b>>
  OBVIOUS
<1> HIDE DEF p
<1>5. Pointers(b)' = Pointers(b) \ {p}
  BY <1>2, <1>4, Takes
<1> QED
  BY <1>3, <1>5, ExactTaken

LEMMA CodeExchanged ==
  ASSUME EmplaceTypes, EmplaceTypes', UNCHANGED <<calls, leaked>>, NEW b \in Blocks,
         NEW t \in Threads, held[t][b] > 0, held'[t][b] = held[t][b] - 1,
         NEW u \in Threads, t # u, held'[u][b] = held[u][b] + 1,
         \A x \in Threads \ {t, u} : held'[x][b] = held[x][b],
         Exact(b), block'[b].refs = block[b].refs
  PROVE  Exact(b)'
<1> PICK j \in Nat : j = held[t][b]
  BY Facts
<1> PICK k \in Nat : k = held[u][b] + 1
  BY Facts
<1> DEFINE p == <<"code", t, j>>
           q == <<"code", u, k>>
<1>1. held[u][b] \in Nat /\ "code" \in Roles
  BY Facts DEF Roles
<1>2. \A w \in Roles, x \in Threads, i \in Nat :
         Ptr(w, x, i, b)' <=> (Ptr(w, x, i, b) /\ <<w, x, i>> # p) \/ <<w, x, i>> = q
  BY <1>1 DEF Ptr, Roles
<1>3. p \in Pointers(b) /\ q \notin Pointers(b)
  BY <1>1, IsPointer DEF Ptr
<1>4. p # <<"lost", b>> /\ \E v \in Roles, y \in Threads, l \in Nat : q = <<v, y, l>>
  BY <1>1
<1> HIDE DEF p, q
<1>5. Pointers(b)' = (Pointers(b) \ {p}) \cup {q}
  BY <1>2, <1>4, Exchanges
<1> QED
  BY <1>3, <1>5, ExactExchanged

-----------------------------------------------------------------------------
(* The client. *)

LEMMA CodePointer ==
  ASSUME EmplaceTypes, NEW b \in Blocks, NEW t \in Threads, held[t][b] > 0
  PROVE  <<"code", t, 1>> \in Pointers(b)
<1>1. Ptr("code", t, 1, b)
  BY Facts DEF Ptr
<1> QED
  BY <1>1, IsPointer DEF Roles

LEMMA NoPointer ==
  ASSUME EmplaceTypes, NEW b \in Blocks, Exact(b), block[b].refs = 0
  PROVE  Pointers(b) = {} /\ \A t \in Threads : held[t][b] = 0
<1>1. Pointers(b) = {}
  BY FS_EmptySet DEF Exact
<1>2. ASSUME NEW t \in Threads, held[t][b] # 0
      PROVE  FALSE
  <2>1. held[t][b] > 0
    BY <1>2, Facts
  <2> QED
    BY <1>1, <2>1, CodePointer
<1> QED
  BY <1>1, <1>2

\* A step of the client in which only b and the code's pointers to it change: they are
\* pointers of the code, so that no call has a new block of its own behind them.
LEMMA CodeStep ==
  ASSUME EmplaceInv, EmplaceTypes', UNCHANGED <<calls, leaked>>, NEW b \in Blocks,
         \A c \in Blocks \ {b} : /\ block'[c] = block[c]
                                 /\ \A t \in Threads : held'[t][c] = held[t][c],
         block[b].refs = 0 \/ \E t \in Threads : held[t][b] > 0,
         Exact(b)', BlockInv(b)'
  PROVE  EmplaceInv'
<1>1. \A c \in Blocks : Exact(c)'
  <2> SUFFICES ASSUME NEW c \in Blocks \ {b}
               PROVE  Exact(c)'
    OBVIOUS
  <2>1. Pointers(c)' = Pointers(c)
    BY CodeKept, InvFacts
  <2> QED
    BY <2>1, ExactKept, InvFacts
<1>2. \A c \in Blocks : BlockInv(c)'
  <2> SUFFICES ASSUME NEW c \in Blocks \ {b}
               PROVE  BlockInv(c)'
    OBVIOUS
  <2>1. \A t \in Threads, i \in Nat : IsBuilding(t, i, c) => IsBuilding(t, i, c)'
    BY DEF IsBuilding
  <2> QED
    BY <2>1, BlockKept, InvFacts
<1>3. ASSUME NEW t \in Threads, NEW i \in 1 .. Len(calls[t])
      PROVE  CallInv(t, i)'
  <2> DEFINE n == calls[t][i].uninit
  <2>1. n \in Blocks
    BY InvFacts, Facts
  <2>2. CASE n # b
    BY <2>1, <2>2, CallKept
  <2>3. CASE n = b /\ block[b].refs = 0
    BY <2>3, CallKept
  <2>4. CASE n = b /\ \E u \in Threads : held[u][b] > 0
    <3>1. PICK u \in Threads : held[u][b] > 0
      BY <2>4
    <3>2. <<"code", u, 1>> \in Pointers(n)
      BY <2>1, <2>4, <3>1, CodePointer, InvFacts
    <3>3. <<"code", u, 1>> # <<"new", t, i>>
      OBVIOUS
    <3> QED
      BY <3>2, <3>3, CallKept
  <2> QED
    BY <2>2, <2>3, <2>4
<1>4. \A t \in Threads : \A i \in 1 .. Len(calls'[t]) : CallInv(t, i)'
  BY <1>3
<1> QED
  BY <1>1, <1>2, <1>4 DEF EmplaceInv

\* What the code of a thread has a pointer to is a value.
LEMMA HeldIsAlive ==
  ASSUME EmplaceInv, NEW t \in Threads, NEW b \in Blocks, held[t][b] > 0
  PROVE  block[b].content = "alive" /\ block[b].refs \in Nat /\ block[b].refs >= 1
<1>1. <<"code", t, 1>> \in Pointers(b)
  BY CodePointer, InvFacts
<1>2. block[b].refs \in Nat /\ block[b].refs >= 1
  BY <1>1, SomePointer, InvFacts
<1>3. ASSUME block[b].content = "uninit"
      PROVE  FALSE
  <2>1. block[b].refs = 1 /\ \E u \in Threads, i \in Nat : IsBuilding(u, i, b)
    BY <1>3, InvFacts DEF BlockInv
  <2>2. PICK u \in Threads, i \in Nat : IsBuilding(u, i, b)
    BY <2>1
  <2>3. <<"new", u, i>> \in Pointers(b)
    BY <2>2, IsPointer, InvFacts DEF IsBuilding, Ptr, Roles
  <2>4. <<"code", t, 1>> = <<"new", u, i>>
    BY <1>1, <2>1, <2>3, OnlyPointer, InvFacts
  <2> QED
    BY <2>4
<1>4. block[b].content \in Contents /\ BlockInv(b)
  BY InvFacts, Facts
<1> QED
  BY <1>2, <1>3, <1>4 DEF BlockInv, Contents

LEMMA NewPointerInv ==
  ASSUME EmplaceInv, NEW t \in Threads, NEW b \in Blocks, NEW k \in Kinds, NewPointer(t, b, k)
  PROVE  EmplaceInv'
<1>1. block[b].refs = 0 /\ held[t][b] = 0
  BY InvFacts, NoPointer DEF NewPointer, BlockInv
<1>2. /\ block'[b].refs = 1 /\ block'[b].content = "alive" /\ held'[t][b] = 1
      /\ \A u \in Threads \ {t} : held'[u][b] = held[u][b]
      /\ \A c \in Blocks \ {b} : /\ block'[c] = block[c]
                                 /\ \A u \in Threads : held'[u][c] = held[u][c]
  BY InvFacts DEF NewPointer, Allocated, EmplaceTypes
<1>3. EmplaceTypes'
  <2>1. Allocated(k, "alive") \in Block
    BY KindsAssumption, MaxRefsAssumption DEF Allocated, Block, Contents
  <2> QED
    BY <2>1, InvFacts DEF NewPointer, EmplaceTypes
<1>4. Exact(b)'
  BY <1>1, <1>2, <1>3, CodePut, InvFacts DEF NewPointer
<1>5. BlockInv(b)'
  BY <1>2 DEF BlockInv
<1> QED
  BY <1>1, <1>2, <1>3, <1>4, <1>5, CodeStep DEF NewPointer

LEMMA CloneInv ==
  ASSUME EmplaceInv, NEW t \in Threads, NEW b \in Blocks, Clone(t, b)
  PROVE  EmplaceInv'
<1>1. held[t][b] \in Nat /\ held[t][b] > 0 /\ block[b].refs < MaxRefs /\ block[b].refs \in Nat
  BY InvFacts, Facts DEF Clone
<1>2. /\ block'[b].refs = block[b].refs + 1 /\ block'[b].content = block[b].content
      /\ held'[t][b] = held[t][b] + 1
      /\ \A u \in Threads \ {t} : held'[u][b] = held[u][b]
      /\ \A c \in Blocks \ {b} : /\ block'[c] = block[c]
                                 /\ \A u \in Threads : held'[u][c] = held[u][c]
  BY InvFacts DEF Clone, EmplaceTypes, Block
<1>3. EmplaceTypes'
  <2>1. block[b].refs + 1 \in 0 .. MaxRefs
    BY <1>1, MaxRefsAssumption
  <2>2. block' \in [Blocks -> Block]
    BY <2>1, InvFacts DEF Clone, EmplaceTypes, Block
  <2>3. held' \in [Threads -> [Blocks -> Nat]]
    BY <1>1, InvFacts DEF Clone, EmplaceTypes
  <2> QED
    BY <2>2, <2>3, InvFacts DEF Clone, EmplaceTypes
<1>4. Exact(b)'
  BY <1>1, <1>2, <1>3, CodePut, InvFacts DEF Clone
<1>5. BlockInv(b)'
  BY <1>1, <1>2, HeldIsAlive DEF BlockInv
<1> QED
  BY <1>1, <1>2, <1>3, <1>4, <1>5, CodeStep DEF Clone

LEMMA SendInv ==
  ASSUME EmplaceInv, NEW t \in Threads, NEW u \in Threads, NEW b \in Blocks, Send(t, u, b)
  PROVE  EmplaceInv'
<1>1. held[t][b] \in Nat /\ held[t][b] > 0 /\ held[u][b] \in Nat /\ t # u
  BY InvFacts, Facts DEF Send
<1>2. /\ block' = block
      /\ held'[t][b] = held[t][b] - 1 /\ held'[u][b] = held[u][b] + 1
      /\ \A x \in Threads \ {t, u} : held'[x][b] = held[x][b]
      /\ \A c \in Blocks \ {b} : \A x \in Threads : held'[x][c] = held[x][c]
  BY <1>1, InvFacts DEF Send, EmplaceTypes
<1>3. EmplaceTypes'
  <2> DEFINE h == [held EXCEPT ![t][b] = @ - 1]
  <2>1. held[t][b] - 1 \in Nat /\ held[u][b] + 1 \in Nat
    BY <1>1
  <2>2. h \in [Threads -> [Blocks -> Nat]]
    BY <2>1, InvFacts DEF EmplaceTypes
  <2>3. held' = [h EXCEPT ![u][b] = @ + 1] /\ h[u][b] \in Nat
    BY <2>2 DEF Send
  <2> HIDE DEF h
  <2>4. held' \in [Threads -> [Blocks -> Nat]]
    BY <2>2, <2>3
  <2> QED
    BY <2>4, InvFacts DEF Send, EmplaceTypes
<1>4. Exact(b)'
  BY <1>1, <1>2, <1>3, CodeExchanged, InvFacts, ZenonT(60) DEF Send
<1>5. BlockInv(b)'
  BY <1>1, <1>2, HeldIsAlive DEF BlockInv
<1> QED
  BY <1>1, <1>2, <1>3, <1>4, <1>5, CodeStep DEF Send

\* What a drop does to a block with a value in it.
LEMMA DroppedAlive ==
  ASSUME NEW r \in Block, r.content = "alive", r.refs >= 1
  PROVE  /\ Dropped(r) \in Block /\ Dropped(r).refs = r.refs - 1
         /\ Dropped(r).content = IF r.refs = 1 THEN "dead" ELSE "alive"
<1>1. r.refs \in Nat /\ r.refs <= MaxRefs
  BY MaxRefsAssumption DEF Block
<1>2. Dropped(r) = [r EXCEPT !.refs = r.refs - 1,
                             !.content = IF r.refs = 1 THEN "dead" ELSE "alive"]
  <2>1. CASE r.refs > 1
    <3> DEFINE c == CASE r.refs > 1 -> r.content
                      [] r.refs = 1 /\ r.content = "alive" -> "dead"
                      [] OTHER -> "discarded"
    <3>1. Dropped(r) = [r EXCEPT !.refs = r.refs - 1, !.content = c]
      BY DEF Dropped
    <3>2. c = "alive" /\ r.refs # 1
      BY <1>1, <2>1
    <3> QED
      BY <3>1, <3>2
  <2>2. CASE r.refs = 1
    BY <2>2 DEF Dropped
  <2> QED
    BY <1>1, <2>1, <2>2
<1>3. r.refs - 1 \in 0 .. MaxRefs
  BY <1>1, MaxRefsAssumption
<1>4. (IF r.refs = 1 THEN "dead" ELSE "alive") \in Contents
  BY DEF Contents
<1> DEFINE c == IF r.refs = 1 THEN "dead" ELSE "alive"
<1>5. c \in Contents /\ Dropped(r) = [r EXCEPT !.refs = r.refs - 1, !.content = c]
  BY <1>2, <1>4
<1> HIDE DEF c
<1>6. /\ Dropped(r) \in Block /\ Dropped(r).refs = r.refs - 1 /\ Dropped(r).content = c
  BY <1>3, <1>5 DEF Block
<1> QED
  BY <1>6 DEF c

\* What a drop does to a block that is still under construction.
LEMMA DroppedUninit ==
  ASSUME NEW r \in Block, r.content = "uninit", r.refs = 1
  PROVE  Dropped(r) \in Block /\ Dropped(r).refs = 0 /\ Dropped(r).content = "discarded"
<1>1. Dropped(r) = [r EXCEPT !.refs = 0, !.content = "discarded"]
  BY DEF Dropped
<1>2. 0 \in 0 .. MaxRefs /\ "discarded" \in Contents
  BY MaxRefsAssumption DEF Contents
<1> QED
  BY <1>1, <1>2 DEF Block

LEMMA PanicsType ==
  ASSUME EmplaceTypes, NEW t \in Threads, Panics(t) \/ UNCHANGED <<mode, aborted>>
  PROVE  mode' \in [Threads -> {"running", "unwinding"}] /\ aborted' \in BOOLEAN
  BY DEF Panics, EmplaceTypes

LEMMA DropPointerInv ==
  ASSUME EmplaceInv, NEW t \in Threads, NEW b \in Blocks, DropPointer(t, b)
  PROVE  EmplaceInv'
<1>1. /\ held[t][b] \in Nat /\ held[t][b] > 0 /\ block[b] \in Block
      /\ block[b].content = "alive" /\ block[b].refs \in Nat /\ block[b].refs >= 1
  BY InvFacts, Facts, HeldIsAlive DEF DropPointer, EmplaceTypes
<1>2. /\ block'[b] = Dropped(block[b]) /\ held'[t][b] = held[t][b] - 1
      /\ \A u \in Threads \ {t} : held'[u][b] = held[u][b]
      /\ \A c \in Blocks \ {b} : /\ block'[c] = block[c]
                                 /\ \A u \in Threads : held'[u][c] = held[u][c]
  BY InvFacts DEF DropPointer, EmplaceTypes
<1>3. /\ block'[b] \in Block /\ block'[b].refs = block[b].refs - 1
      /\ block'[b].content = IF block[b].refs = 1 THEN "dead" ELSE "alive"
  BY <1>1, <1>2, DroppedAlive
<1>4. EmplaceTypes'
  <2>1. mode' \in [Threads -> {"running", "unwinding"}] /\ aborted' \in BOOLEAN
    BY PanicsType, InvFacts DEF DropPointer
  <2>2. block' \in [Blocks -> Block]
    BY <1>2, <1>3, InvFacts DEF DropPointer, EmplaceTypes
  <2>3. held' \in [Threads -> [Blocks -> Nat]]
    BY <1>1, InvFacts DEF DropPointer, EmplaceTypes
  <2> QED
    BY <2>1, <2>2, <2>3, InvFacts DEF DropPointer, EmplaceTypes
<1>5. Exact(b)'
  BY <1>1, <1>2, <1>3, <1>4, CodeTaken, InvFacts DEF DropPointer
<1>6. BlockInv(b)'
  BY <1>1, <1>3 DEF BlockInv
<1> QED
  BY <1>1, <1>2, <1>4, <1>5, <1>6, CodeStep DEF DropPointer

\* Nothing that the invariant speaks of changes.
LEMMA StutterInv ==
  ASSUME EmplaceInv, EmplaceTypes', UNCHANGED <<block, held, calls, leaked>>
  PROVE  EmplaceInv'
<1>1. \A b \in Blocks : Pointers(b)' = Pointers(b)
  BY CodeKept, InvFacts
<1>2. \A b \in Blocks : Exact(b)'
  BY <1>1, InvFacts DEF Exact
<1>3. \A b \in Blocks : BlockInv(b)'
  BY InvFacts DEF BlockInv, IsBuilding
<1>4. \A t \in Threads : \A i \in 1 .. Len(calls'[t]) : CallInv(t, i)'
  BY InvFacts DEF CallInv
<1> QED
  BY <1>2, <1>3, <1>4 DEF EmplaceInv

LEMMA CatchUnwindInv ==
  ASSUME EmplaceInv, NEW t \in Threads, CatchUnwind(t)
  PROVE  EmplaceInv'
<1>1. EmplaceTypes'
  BY InvFacts DEF CatchUnwind, EmplaceTypes
<1> QED
  BY <1>1, StutterInv DEF CatchUnwind

-----------------------------------------------------------------------------
(* How the calls of a thread change: a new innermost one, the next phase of it, its end. *)

LEMMA Pushed ==
  ASSUME EmplaceTypes, NEW t \in Threads, NEW c \in Call,
         calls' = [calls EXCEPT ![t] = Append(@, c)]
  PROVE  /\ calls' \in [Threads -> Seq(Call)]
         /\ \A u \in Threads \ {t} : calls'[u] = calls[u]
         /\ Len(calls'[t]) = Len(calls[t]) + 1
         /\ \A i \in 1 .. Len(calls[t]) : calls'[t][i] = calls[t][i]
         /\ calls'[t][Len(calls[t]) + 1] = c
<1>1. calls[t] \in Seq(Call)
  BY Facts
<1>2. /\ Append(calls[t], c) \in Seq(Call)
      /\ Len(Append(calls[t], c)) = Len(calls[t]) + 1
      /\ \A i \in 1 .. Len(calls[t]) : Append(calls[t], c)[i] = calls[t][i]
      /\ Append(calls[t], c)[Len(calls[t]) + 1] = c
  BY <1>1, AppendProperties
<1>3. calls'[t] = Append(calls[t], c) /\ \A u \in Threads \ {t} : calls'[u] = calls[u]
  BY DEF EmplaceTypes
<1>4. calls' \in [Threads -> Seq(Call)]
  BY <1>2 DEF EmplaceTypes
<1> QED
  BY <1>2, <1>3, <1>4

LEMMA Inside ==
  ASSUME EmplaceTypes, NEW t \in Threads, NEW p, InPhase(t, p)
  PROVE  /\ Len(calls[t]) \in Nat /\ Len(calls[t]) >= 1
         /\ Innermost(t) = calls[t][Len(calls[t])] /\ Innermost(t).phase = p
         /\ Innermost(t) \in Call /\ Innermost(t).self \in Blocks /\ Innermost(t).uninit \in Blocks
<1>1. calls[t] \in Seq(Call) /\ calls[t] # <<>> /\ Len(calls[t]) \in Nat
  BY Facts DEF InPhase
<1>2. Len(calls[t]) >= 1
  <2>1. Len(calls[t]) # 0
    BY <1>1, EmptySeq
  <2> QED
    BY <1>1, <2>1
<1>3. Innermost(t) = calls[t][Len(calls[t])] /\ Innermost(t).phase = p
  BY DEF Innermost, InPhase
<1>4. Len(calls[t]) \in 1 .. Len(calls[t])
  BY <1>1, <1>2
<1> QED
  BY <1>1, <1>2, <1>3, <1>4, Facts

LEMMA Phased ==
  ASSUME EmplaceTypes, NEW t \in Threads, Len(calls[t]) >= 1, NEW p \in Phases, EnterPhase(t, p)
  PROVE  /\ calls' \in [Threads -> Seq(Call)]
         /\ \A u \in Threads \ {t} : calls'[u] = calls[u]
         /\ Len(calls'[t]) = Len(calls[t])
         /\ \A i \in 1 .. Len(calls[t]) : i # Len(calls[t]) => calls'[t][i] = calls[t][i]
         /\ calls'[t][Len(calls[t])].self = calls[t][Len(calls[t])].self
         /\ calls'[t][Len(calls[t])].uninit = calls[t][Len(calls[t])].uninit
         /\ calls'[t][Len(calls[t])].phase = p
<1> DEFINE l == Len(calls[t])
           c == [calls[t][l] EXCEPT !.phase = p]
           s == [calls[t] EXCEPT ![l] = c]
<1>1. calls[t] \in Seq(Call) /\ l \in 1 .. l /\ calls[t][l] \in Call /\ l \in Nat
  BY Facts
<1>2. /\ c \in Call /\ c.self = calls[t][l].self /\ c.uninit = calls[t][l].uninit
      /\ c.phase = p
  BY <1>1 DEF Call
<1>3. calls'[t] = s /\ \A u \in Threads \ {t} : calls'[u] = calls[u]
  BY DEF EmplaceTypes, EnterPhase
<1>4. calls' = [calls EXCEPT ![t] = s]
  BY DEF EnterPhase
<1> HIDE DEF c
<1>5. s \in Seq(Call) /\ Len(s) = l /\ s[l] = c /\ \A i \in 1 .. l : i # l => s[i] = calls[t][i]
  BY <1>1, <1>2, ExceptSeq
<1> HIDE DEF s, l
<1>6. calls' \in [Threads -> Seq(Call)]
  BY <1>4, <1>5 DEF EmplaceTypes
<1> USE DEF l
<1> QED
  BY <1>2, <1>3, <1>5, <1>6

LEMMA Returned ==
  ASSUME EmplaceTypes, NEW t \in Threads, Len(calls[t]) >= 1, Return(t)
  PROVE  /\ calls' \in [Threads -> Seq(Call)]
         /\ \A u \in Threads \ {t} : calls'[u] = calls[u]
         /\ Len(calls'[t]) = Len(calls[t]) - 1
         /\ \A i \in 1 .. Len(calls[t]) - 1 : calls'[t][i] = calls[t][i]
<1> DEFINE l == Len(calls[t])
           s == SubSeq(calls[t], 1, l - 1)
<1>1. l \in Nat /\ l >= 1 /\ \A i \in 1 .. l : calls[t][i] \in Call
  BY Facts
<1>2. \A i \in 1 .. l - 1 : calls[t][i] \in Call
  BY <1>1
<1>3. /\ s \in Seq(Call) /\ Len(s) = IF 1 <= l - 1 THEN (l - 1) - 1 + 1 ELSE 0
      /\ \A i \in 1 .. (l - 1) - 1 + 1 : s[i] = calls[t][1 + i - 1]
  BY <1>1, <1>2, SubSeqProperties
<1>4. Len(s) = l - 1 /\ \A i \in 1 .. l - 1 : s[i] = calls[t][i]
  BY <1>1, <1>3
<1>5. calls'[t] = s /\ \A u \in Threads \ {t} : calls'[u] = calls[u]
  BY DEF EmplaceTypes, Return
<1>6. calls' = [calls EXCEPT ![t] = s]
  BY DEF Return
<1> HIDE DEF s
<1>7. calls' \in [Threads -> Seq(Call)]
  BY <1>3, <1>6 DEF EmplaceTypes
<1> QED
  BY <1>4, <1>5, <1>7

-----------------------------------------------------------------------------
(* try_emplace. *)

LEMMA TryEmplaceInv ==
  ASSUME EmplaceInv, NEW t \in Threads, NEW b \in Blocks, NEW n \in Blocks, TryEmplace(t, b, n)
  PROVE  EmplaceInv'
<1> PICK l \in Nat : l = Len(calls[t])
  BY InvFacts, Facts
<1> PICK j \in Nat : j = held[t][b]
  BY InvFacts, Facts
<1> DEFINE c == [self |-> b, uninit |-> n, phase |-> "construct"]
<1>1. EmplaceTypes /\ Exact(b) /\ Exact(n) /\ j > 0
  BY InvFacts DEF TryEmplace
<1>2. /\ block[n].refs = 0 /\ Pointers(n) = {} /\ n # b
      /\ block[b].content = "alive"
  BY <1>1, InvFacts, NoPointer, HeldIsAlive DEF TryEmplace, BlockInv
<1>3. /\ block'[n] = Allocated(block[b].kind, "uninit")
      /\ \A x \in Blocks \ {n} : block'[x] = block[x]
      /\ held'[t][b] = j - 1
      /\ \A x \in Blocks \ {b} : held'[t][x] = held[t][x]
      /\ \A u \in Threads \ {t} : held'[u] = held[u]
      /\ leaked' = leaked /\ mode' = mode /\ aborted' = aborted
  BY <1>1 DEF TryEmplace, EmplaceTypes
<1>4. c \in Call
  BY DEF Call, Phases
<1>5. /\ calls' \in [Threads -> Seq(Call)]
      /\ \A u \in Threads \ {t} : calls'[u] = calls[u]
      /\ Len(calls'[t]) = l + 1
      /\ \A i \in 1 .. l : calls'[t][i] = calls[t][i]
      /\ calls'[t][l + 1] = c
  <2>1. calls' = [calls EXCEPT ![t] = Append(@, c)]
    BY DEF TryEmplace
  <2> HIDE DEF c
  <2> QED
    BY <1>1, <1>4, <2>1, Pushed
<1>6. EmplaceTypes'
  <2>1. block[b].kind \in AllKinds
    BY <1>1, Facts
  <2>2. Allocated(block[b].kind, "uninit") \in Block
    BY <2>1, MaxRefsAssumption DEF Allocated, Block, Contents
  <2>3. block' \in [Blocks -> Block]
    BY <1>1, <2>2 DEF TryEmplace, EmplaceTypes
  <2>4. held' \in [Threads -> [Blocks -> Nat]]
    BY <1>1 DEF TryEmplace, EmplaceTypes
  <2> QED
    BY <1>1, <1>3, <1>5, <2>3, <2>4 DEF EmplaceTypes
<1>7. calls'[t][l + 1].self = b /\ calls'[t][l + 1].uninit = n
      /\ calls'[t][l + 1].phase = "construct"
  BY <1>5
<1>8. block'[n].refs = 1 /\ block'[n].content = "uninit"
  BY <1>3 DEF Allocated
<1> HIDE DEF c
<1>9. \A i \in Nat : i <= l + 1 <=> i <= l \/ i = l + 1
  OBVIOUS
<1>10. Exact(b)'
  <2> DEFINE p == <<"code", t, j>>
             q == <<"self", t, l + 1>>
  <2>1. \A w \in Roles, x \in Threads, i \in Nat :
           Ptr(w, x, i, b)' <=> (Ptr(w, x, i, b) /\ <<w, x, i>> # p) \/ <<w, x, i>> = q
    <3> SUFFICES ASSUME NEW w \in Roles, NEW x \in Threads, NEW i \in Nat
                 PROVE  Ptr(w, x, i, b)' <=> (Ptr(w, x, i, b) /\ <<w, x, i>> # p) \/ <<w, x, i>> = q
      OBVIOUS
    <3>1. CASE x # t
      BY <1>3, <1>5, <3>1 DEF Ptr
    <3>2. CASE x = t /\ w = "code"
      BY <1>1, <1>3, <3>2 DEF Ptr
    <3>3. CASE x = t /\ w = "self"
      BY <1>5, <1>7, <1>9, <3>3 DEF Ptr
    <3>4. CASE x = t /\ w = "new"
      BY <1>2, <1>5, <1>7, <1>9, <3>4 DEF Ptr
    <3> QED
      BY <3>1, <3>2, <3>3, <3>4 DEF Roles
  <2>2. p \in Pointers(b) /\ q \notin Pointers(b)
    BY <1>1, IsPointer DEF Ptr, Roles
  <2>3. p # <<"lost", b>> /\ \E v \in Roles, y \in Threads, m \in Nat : q = <<v, y, m>>
    BY DEF Roles
  <2> HIDE DEF p, q
  <2>4. Pointers(b)' = (Pointers(b) \ {p}) \cup {q}
    BY <1>1, <1>3, <1>6, <2>1, <2>3, Exchanges
  <2> QED
    BY <1>1, <1>2, <1>3, <2>2, <2>4, ExactExchanged
<1>11. Exact(n)'
  <2> DEFINE q == <<"new", t, l + 1>>
  <2>1. \A w \in Roles, x \in Threads, i \in Nat :
           Ptr(w, x, i, n)' <=> Ptr(w, x, i, n) \/ <<w, x, i>> = q
    <3> SUFFICES ASSUME NEW w \in Roles, NEW x \in Threads, NEW i \in Nat
                 PROVE  Ptr(w, x, i, n)' <=> Ptr(w, x, i, n) \/ <<w, x, i>> = q
      OBVIOUS
    <3>1. CASE x # t
      BY <1>3, <1>5, <3>1 DEF Ptr
    <3>2. CASE x = t
      BY <1>2, <1>3, <1>5, <1>7, <1>9, <3>2 DEF Ptr, Roles
    <3> QED
      BY <3>1, <3>2
  <2>2. \E v \in Roles, y \in Threads, m \in Nat : q = <<v, y, m>>
    BY DEF Roles
  <2> HIDE DEF q
  <2>3. Pointers(n)' = Pointers(n) \cup {q}
    BY <1>1, <1>3, <1>6, <2>1, <2>2, Puts
  <2> QED
    <3>1. q \notin Pointers(n) /\ block'[n].refs = block[n].refs + 1
      BY <1>2, <1>8
    <3> QED
      BY <1>1, <2>3, <3>1, ExactPut
<1>12. ASSUME NEW x \in Blocks \ {b, n}
       PROVE  Exact(x)'
  <2>1. ASSUME NEW w \in Roles, NEW u \in Threads, NEW i \in Nat
        PROVE  Ptr(w, u, i, x)' <=> Ptr(w, u, i, x)
    <3>1. CASE u # t
      BY <1>3, <1>5, <3>1 DEF Ptr
    <3>2. CASE u = t
      BY <1>3, <1>5, <1>7, <1>9, <3>2 DEF Ptr
    <3> QED
      BY <3>1, <3>2
  <2>2. Pointers(x)' = Pointers(x)
    BY <1>1, <1>3, <1>6, <2>1, Keeps
  <2> QED
    BY <1>3, <2>2, ExactKept, InvFacts
<1>13. ASSUME NEW x \in Blocks
       PROVE  BlockInv(x)'
  <2>1. \A u \in Threads, i \in Nat : IsBuilding(u, i, x) => IsBuilding(u, i, x)'
    BY <1>5, <1>9 DEF IsBuilding
  <2>2. CASE x # n
    BY <1>3, <2>1, <2>2, BlockKept, InvFacts
  <2>3. CASE x = n
    <3>1. IsBuilding(t, l + 1, n)'
      BY <1>5, <1>7 DEF IsBuilding
    <3> QED
      BY <1>8, <2>3, <3>1 DEF BlockInv
  <2> QED
    BY <2>2, <2>3
<1>14. ASSUME NEW u \in Threads, NEW i \in 1 .. Len(calls'[u])
       PROVE  CallInv(u, i)'
  <2>1. CASE u = t /\ i = l + 1
    BY <1>7, <1>8, <2>1 DEF CallInv
  <2>2. CASE ~(u = t /\ i = l + 1)
    <3>1. i \in 1 .. Len(calls[u]) /\ calls'[u][i] = calls[u][i]
      BY <1>5, <2>2
    <3>2. calls[u][i].uninit \in Blocks
      BY <1>1, <3>1, Facts
    <3> QED
      BY <1>2, <1>3, <3>1, <3>2, CallKept
  <2> QED
    BY <2>1, <2>2
<1> QED
  BY <1>6, <1>10, <1>11, <1>12, <1>13, <1>14 DEF EmplaceInv

\* A step of the innermost call of t: the other calls stay.
InnermostOnly(t, l) ==
    /\ \A u \in Threads \ {t} : calls'[u] = calls[u]
    /\ Len(calls'[t]) = l \/ Len(calls'[t]) = l - 1
    /\ \A i \in 1 .. l - 1 : calls'[t][i] = calls[t][i]

LEMMA OtherPointers ==
  ASSUME NEW t \in Threads, NEW l \in Nat, l = Len(calls[t]), l >= 1, InnermostOnly(t, l),
         NEW x, NEW w, NEW u \in Threads, NEW i \in Nat, held'[u][x] = held[u][x],
         w = "code" \/ u # t \/ i # l
  PROVE  Ptr(w, u, i, x)' <=> Ptr(w, u, i, x)
<1>1. CASE u # t
  BY <1>1 DEF InnermostOnly, Ptr
<1>2. CASE u = t /\ w = "code"
  BY <1>2 DEF Ptr
<1>3. CASE u = t /\ w # "code" /\ i # l
  <2>1. i <= Len(calls'[t]) <=> i <= l - 1
    BY <1>3 DEF InnermostOnly
  <2>2. i <= Len(calls[t]) <=> i <= l - 1
    BY <1>3
  <2>3. 1 <= i /\ i <= l - 1 => calls'[t][i] = calls[t][i]
    BY DEF InnermostOnly
  <2> QED
    BY <1>3, <2>1, <2>2, <2>3 DEF Ptr
<1> QED
  BY <1>1, <1>2, <1>3

\* Only the block behind a pointer of the innermost call changes.
LEMMA CallsStep ==
  ASSUME EmplaceInv, EmplaceTypes', NEW t \in Threads, NEW l \in Nat, l = Len(calls[t]), l >= 1,
         InnermostOnly(t, l), Len(calls'[t]) = l => CallInv(t, l)',
         NEW m \in Blocks, \A x \in Blocks \ {m} : block'[x] = block[x],
         <<"self", t, l>> \in Pointers(m) \/ <<"new", t, l>> \in Pointers(m),
         calls[t][l].phase = "construct" => calls[t][l].uninit = m,
         BlockInv(m)', \A x \in Blocks : Exact(x)'
  PROVE  EmplaceInv'
<1>1. ASSUME NEW u \in Threads, NEW i \in 1 .. Len(calls'[u])
      PROVE  CallInv(u, i)'
  <2>1. CASE u = t /\ i = l
    BY <1>1, <2>1 DEF InnermostOnly
  <2>2. CASE ~(u = t /\ i = l)
    <3>1. i \in 1 .. Len(calls[u]) /\ calls'[u][i] = calls[u][i]
      BY <1>1, <2>2 DEF InnermostOnly
    <3>2. calls[u][i].uninit \in Blocks
      BY <3>1, InvFacts, Facts
    <3>3. <<"self", t, l>> # <<"new", u, i>> /\ <<"new", t, l>> # <<"new", u, i>>
      BY <2>2
    <3>4. CASE calls[u][i].uninit # m
      BY <3>1, <3>2, <3>4, CallKept
    <3>5. CASE calls[u][i].uninit = m
      <4>1. \E q \in Pointers(m) : q # <<"new", u, i>>
        BY <3>3
      <4> QED
        BY <3>1, <3>5, <4>1, CallKept
    <3> QED
      BY <3>4, <3>5
  <2> QED
    BY <2>1, <2>2
<1>2. ASSUME NEW x \in Blocks \ {m}
      PROVE  BlockInv(x)'
  <2>1. ASSUME NEW u \in Threads, NEW i \in Nat, IsBuilding(u, i, x)
        PROVE  IsBuilding(u, i, x)'
    <3>1. ~(u = t /\ i = l)
      BY <2>1 DEF IsBuilding
    <3>2. i \in 1 .. Len(calls'[u]) /\ calls'[u][i] = calls[u][i]
      BY <2>1, <3>1, SMTT(60) DEF InnermostOnly, IsBuilding
    <3> QED
      BY <2>1, <3>2 DEF IsBuilding
  <2> QED
    BY <2>1, BlockKept, InvFacts
<1> QED
  BY <1>1, <1>2 DEF EmplaceInv

\* The new block of the innermost call.
LEMMA NewBlock ==
  ASSUME EmplaceInv, NEW t \in Threads, NEW p, InPhase(t, p), p # "failing",
         NEW l \in Nat, l = Len(calls[t]), NEW n, n = Innermost(t).uninit
  PROVE  /\ n \in Blocks /\ block[n] \in Block /\ block[n].refs = 1
         /\ block[n].content = IF p = "construct" THEN "uninit" ELSE "alive"
         /\ <<"new", t, l>> \in Pointers(n)
         /\ \A u \in Threads : held[u][n] = 0
<1>1. /\ l >= 1 /\ calls[t][l] = Innermost(t) /\ calls[t][l].phase = p
      /\ n \in Blocks /\ block[n] \in Block
  BY InvFacts, Inside DEF EmplaceTypes
<1>2. CallInv(t, l)
  BY <1>1, InvFacts
<1>3. block[n].refs = 1 /\ (block[n].content = "uninit" <=> p = "construct")
  BY <1>1, <1>2 DEF CallInv
<1>4. block[n].content = IF p = "construct" THEN "uninit" ELSE "alive"
  <2>1. BlockInv(n) /\ block[n].content \in Contents
    BY <1>1, InvFacts, Facts
  <2> QED
    BY <1>3, <2>1 DEF BlockInv, Contents
<1>5. <<"new", t, l>> \in Pointers(n)
  BY <1>1, IsPointer, InvFacts DEF Ptr, Roles
<1>6. ASSUME NEW u \in Threads, held[u][n] # 0
      PROVE  FALSE
  <2>1. held[u][n] > 0
    BY <1>1, <1>6, InvFacts, Facts
  <2>2. <<"code", u, 1>> \in Pointers(n)
    BY <1>1, <2>1, CodePointer, InvFacts
  <2>3. <<"code", u, 1>> = <<"new", t, l>>
    BY <1>1, <1>3, <1>5, <2>2, OnlyPointer, InvFacts
  <2> QED
    BY <2>3
<1> QED
  BY <1>1, <1>3, <1>4, <1>5, <1>6

\* The block it was called on.
LEMMA OldBlock ==
  ASSUME EmplaceInv, NEW t \in Threads, NEW p, InPhase(t, p), p # "cleanup",
         NEW l \in Nat, l = Len(calls[t]), NEW b, b = Innermost(t).self
  PROVE  /\ b \in Blocks /\ block[b] \in Block /\ block[b].content = "alive"
         /\ block[b].refs \in Nat /\ block[b].refs >= 1
         /\ <<"self", t, l>> \in Pointers(b)
         /\ p # "failing" => b # Innermost(t).uninit
<1>1. /\ l >= 1 /\ calls[t][l] = Innermost(t) /\ calls[t][l].phase = p
      /\ b \in Blocks /\ block[b] \in Block
  BY InvFacts, Inside DEF EmplaceTypes
<1>2. <<"self", t, l>> \in Pointers(b)
  BY <1>1, IsPointer, InvFacts DEF Ptr, Roles
<1>3. block[b].refs \in Nat /\ block[b].refs >= 1
  BY <1>1, <1>2, SomePointer, InvFacts
<1>4. ASSUME NEW u \in Threads, NEW i \in Nat, <<"new", u, i>> \in Pointers(b)
      PROVE  block[b].refs # 1
  <2>1. <<"self", t, l>> # <<"new", u, i>>
    OBVIOUS
  <2> QED
    BY <1>1, <1>2, <1>4, <2>1, OnlyPointer, InvFacts
<1>5. block[b].content # "uninit"
  <2> SUFFICES ASSUME block[b].content = "uninit" PROVE FALSE
    OBVIOUS
  <2>1. block[b].refs = 1 /\ \E u \in Threads, i \in Nat : IsBuilding(u, i, b)
    BY <1>1, InvFacts DEF BlockInv
  <2>2. PICK u \in Threads, i \in Nat : IsBuilding(u, i, b)
    BY <2>1
  <2>3. <<"new", u, i>> \in Pointers(b)
    BY <1>1, <2>2, IsPointer, InvFacts DEF IsBuilding, Ptr, Roles
  <2> QED
    BY <1>4, <2>1, <2>3
<1>6. block[b].content = "alive"
  <2>1. BlockInv(b) /\ block[b].content \in Contents
    BY <1>1, InvFacts, Facts
  <2> QED
    BY <1>3, <1>5, <2>1 DEF BlockInv, Contents
<1>7. ASSUME p # "failing", b = Innermost(t).uninit
      PROVE  FALSE
  <2>1. block[b].refs = 1 /\ <<"new", t, l>> \in Pointers(b)
    BY <1>7, NewBlock
  <2> QED
    BY <1>4, <2>1
<1> QED
  BY <1>1, <1>2, <1>3, <1>6, <1>7

\* The pointers to a block that the innermost call has none of, or has as it had them.
LEMMA CallKeeps ==
  ASSUME EmplaceTypes, EmplaceTypes', NEW t \in Threads, NEW l \in Nat, l = Len(calls[t]), l >= 1,
         InnermostOnly(t, l), NEW x \in Blocks, x \in leaked' <=> x \in leaked,
         \A u \in Threads : held'[u][x] = held[u][x],
         Ptr("self", t, l, x)' <=> Ptr("self", t, l, x),
         Ptr("new", t, l, x)' <=> Ptr("new", t, l, x),
         Exact(x), block'[x].refs = block[x].refs
  PROVE  Exact(x)'
<1>1. ASSUME NEW w \in Roles, NEW u \in Threads, NEW i \in Nat
      PROVE  Ptr(w, u, i, x)' <=> Ptr(w, u, i, x)
  <2>1. CASE w = "code" \/ u # t \/ i # l
    BY <2>1, OtherPointers
  <2>2. CASE w \in {"self", "new"} /\ u = t /\ i = l
    BY <2>2
  <2> QED
    BY <2>1, <2>2 DEF Roles
<1>2. Pointers(x)' = Pointers(x)
  BY <1>1, Keeps
<1> QED
  BY <1>2, ExactKept

\* The innermost call lets go of one of its two pointers.
LEMMA CallLetsGo ==
  ASSUME EmplaceTypes, EmplaceTypes', NEW t \in Threads, NEW l \in Nat, l = Len(calls[t]), l >= 1,
         InnermostOnly(t, l), NEW x \in Blocks, x \in leaked' <=> x \in leaked,
         \A u \in Threads : held'[u][x] = held[u][x],
         NEW r \in {"self", "new"}, ~Ptr(r, t, l, x)', <<r, t, l>> \in Pointers(x),
         \A w \in {"self", "new"} \ {r} : Ptr(w, t, l, x)' <=> Ptr(w, t, l, x),
         Exact(x), block'[x].refs = block[x].refs - 1
  PROVE  Exact(x)'
<1> DEFINE p == <<r, t, l>>
<1>1. ASSUME NEW w \in Roles, NEW u \in Threads, NEW i \in Nat
      PROVE  Ptr(w, u, i, x)' <=> Ptr(w, u, i, x) /\ <<w, u, i>> # p
  <2>1. CASE w = "code" \/ u # t \/ i # l
    <3>1. <<w, u, i>> # p
      BY <2>1
    <3> QED
      BY <2>1, <3>1, OtherPointers
  <2>2. CASE w \in {"self", "new"} /\ w # r /\ u = t /\ i = l
    BY <2>2
  <2>3. CASE w = r /\ u = t /\ i = l
    BY <2>3
  <2> QED
    BY <2>1, <2>2, <2>3 DEF Roles
<1>2. p # <<"lost", x>>
  OBVIOUS
<1> HIDE DEF p
<1>3. Pointers(x)' = Pointers(x) \ {p}
  BY <1>1, <1>2, Takes
<1> QED
  BY <1>3, ExactTaken DEF p

LEMMA ConstructOkInv ==
  ASSUME EmplaceInv, NEW t \in Threads, ConstructOk(t)
  PROVE  EmplaceInv'
<1> PICK l \in Nat : l = Len(calls[t])
  BY InvFacts, Facts
<1> PICK n : n = Innermost(t).uninit
  OBVIOUS
<1>1. EmplaceTypes /\ InPhase(t, "construct") /\ l >= 1 /\ Innermost(t) = calls[t][l]
      /\ calls[t][l].uninit = n /\ calls[t][l].phase = "construct"
  BY InvFacts, Inside DEF ConstructOk
<1>2. /\ n \in Blocks /\ block[n] \in Block /\ block[n].refs = 1
      /\ <<"new", t, l>> \in Pointers(n)
  BY <1>1, NewBlock
<1>3. /\ block' = [block EXCEPT ![n].content = "alive"]
      /\ UNCHANGED <<held, mode, leaked, aborted>> /\ EnterPhase(t, "returning")
  BY DEF ConstructOk
<1>4. /\ calls' \in [Threads -> Seq(Call)] /\ InnermostOnly(t, l) /\ Len(calls'[t]) = l
      /\ calls'[t][l].self = calls[t][l].self /\ calls'[t][l].uninit = n
      /\ calls'[t][l].phase = "returning"
  BY <1>1, <1>3, Phased DEF Phases, InnermostOnly
<1>5. /\ block'[n].refs = 1 /\ block'[n].content = "alive"
      /\ \A x \in Blocks \ {n} : block'[x] = block[x]
      /\ block' \in [Blocks -> Block]
  BY <1>1, <1>2, <1>3 DEF EmplaceTypes, Block, Contents
<1>6. EmplaceTypes'
  BY <1>1, <1>3, <1>4, <1>5 DEF EmplaceTypes
<1>7. ASSUME NEW x \in Blocks
      PROVE  Exact(x)'
  <2>1. /\ Ptr("self", t, l, x)' <=> Ptr("self", t, l, x)
        /\ Ptr("new", t, l, x)' <=> Ptr("new", t, l, x)
    BY <1>1, <1>4 DEF Ptr
  <2>2. block'[x].refs = block[x].refs
    BY <1>2, <1>5
  <2> QED
    BY <1>1, <1>3, <1>4, <1>6, <2>1, <2>2, CallKeeps, InvFacts
<1>8. BlockInv(n)' /\ CallInv(t, l)'
  BY <1>4, <1>5 DEF BlockInv, CallInv
<1> QED
  BY <1>1, <1>2, <1>4, <1>5, <1>6, <1>7, <1>8, CallsStep

LEMMA ConstructFailsInv ==
  ASSUME EmplaceInv, NEW t \in Threads, ConstructFails(t)
  PROVE  EmplaceInv'
<1> PICK l \in Nat : l = Len(calls[t])
  BY InvFacts, Facts
<1> PICK n : n = Innermost(t).uninit
  OBVIOUS
<1>1. EmplaceTypes /\ InPhase(t, "construct") /\ l >= 1 /\ Innermost(t) = calls[t][l]
      /\ calls[t][l].uninit = n /\ calls[t][l].phase = "construct"
  BY InvFacts, Inside DEF ConstructFails
<1>2. /\ n \in Blocks /\ block[n] \in Block /\ block[n].refs = 1 /\ block[n].content = "uninit"
      /\ <<"new", t, l>> \in Pointers(n)
  BY <1>1, NewBlock
<1>3. /\ block' = [block EXCEPT ![n] = Dropped(@)]
      /\ UNCHANGED <<held, leaked>> /\ EnterPhase(t, "failing")
      /\ Panics(t) \/ UNCHANGED <<mode, aborted>>
  BY DEF ConstructFails
<1>4. /\ calls' \in [Threads -> Seq(Call)] /\ InnermostOnly(t, l) /\ Len(calls'[t]) = l
      /\ calls'[t][l].self = calls[t][l].self /\ calls'[t][l].uninit = n
      /\ calls'[t][l].phase = "failing"
  BY <1>1, <1>3, Phased DEF Phases, InnermostOnly
<1>5. /\ block'[n] = Dropped(block[n])
      /\ \A x \in Blocks \ {n} : block'[x] = block[x]
  BY <1>1, <1>2, <1>3 DEF EmplaceTypes
<1>6. block'[n] \in Block /\ block'[n].refs = 0 /\ block'[n].content = "discarded"
  BY <1>2, <1>5, DroppedUninit
<1>7. EmplaceTypes'
  <2>1. mode' \in [Threads -> {"running", "unwinding"}] /\ aborted' \in BOOLEAN
    BY <1>1, <1>3, PanicsType
  <2>2. block' \in [Blocks -> Block]
    BY <1>1, <1>3, <1>5, <1>6 DEF EmplaceTypes
  <2> QED
    BY <1>1, <1>3, <1>4, <2>1, <2>2 DEF EmplaceTypes
<1>8. ASSUME NEW x \in Blocks
      PROVE  Exact(x)'
  <2>1. Ptr("self", t, l, x)' <=> Ptr("self", t, l, x)
    BY <1>1, <1>4 DEF Ptr
  <2>2. ~Ptr("new", t, l, x)' /\ (Ptr("new", t, l, x) => x = n)
    BY <1>1, <1>4 DEF Ptr
  <2>3. CASE x # n
    BY <1>1, <1>3, <1>4, <1>5, <1>7, <2>1, <2>2, <2>3, CallKeeps, InvFacts
  <2>4. CASE x = n
    <3>1. block'[x].refs = block[x].refs - 1
      BY <1>2, <1>6, <2>4
    <3> DEFINE r == "new"
    <3>2. /\ r \in {"self", "new"} /\ ~Ptr(r, t, l, x)' /\ <<r, t, l>> \in Pointers(x)
          /\ \A w \in {"self", "new"} \ {r} : Ptr(w, t, l, x)' <=> Ptr(w, t, l, x)
      BY <1>2, <2>1, <2>2, <2>4
    <3> HIDE DEF r
    <3> QED
      BY <1>1, <1>3, <1>4, <1>7, <3>1, <3>2, CallLetsGo, InvFacts
  <2> QED
    BY <2>3, <2>4
<1>9. BlockInv(n)' /\ CallInv(t, l)'
  BY <1>4, <1>6 DEF BlockInv, CallInv
<1> QED
  BY <1>1, <1>2, <1>4, <1>5, <1>7, <1>8, <1>9, CallsStep

\* The call hands its new block to the code: the return of a success.
LEMMA CallHandsOver ==
  ASSUME EmplaceTypes, EmplaceTypes', NEW t \in Threads, NEW l \in Nat, l = Len(calls[t]), l >= 1,
         InnermostOnly(t, l), Len(calls'[t]) = l - 1, NEW n \in Blocks, UNCHANGED leaked,
         held'[t][n] = 1, \A u \in Threads \ {t} : held'[u][n] = held[u][n],
         held[t][n] = 0, <<"new", t, l>> \in Pointers(n), calls[t][l].self # n,
         Exact(n), block'[n].refs = block[n].refs
  PROVE  Exact(n)'
<1> DEFINE p == <<"new", t, l>>
           q == <<"code", t, 1>>
<1>1. ASSUME NEW w \in Roles, NEW u \in Threads, NEW i \in Nat
      PROVE  Ptr(w, u, i, n)' <=> (Ptr(w, u, i, n) /\ <<w, u, i>> # p) \/ <<w, u, i>> = q
  <2>1. CASE w # "code" /\ (u # t \/ i # l)
    <3>1. Ptr(w, u, i, n)' <=> Ptr(w, u, i, n)
      <4>1. CASE u # t
        BY <4>1, OtherPointers
      <4>2. CASE u = t /\ i # l
        <5>1. i <= Len(calls'[u]) <=> i <= Len(calls[u])
          BY <4>2
        <5>2. 1 <= i /\ i <= Len(calls[u]) => calls'[u][i] = calls[u][i]
          BY <4>2 DEF InnermostOnly
        <5> QED
          BY <2>1, <5>1, <5>2 DEF Ptr
      <4> QED
        BY <2>1, <4>1, <4>2
    <3> QED
      BY <2>1, <3>1
  <2>2. CASE w # "code" /\ u = t /\ i = l
    <3>1. ~Ptr(w, u, i, n)'
      BY <2>2 DEF Ptr
    <3>2. Ptr(w, u, i, n) => w = "new"
      BY <2>2 DEF Ptr
    <3> QED
      BY <2>2, <3>1, <3>2
  <2>3. CASE w = "code" /\ u # t
    <3>1. Ptr(w, u, i, n)' <=> Ptr(w, u, i, n)
      BY <2>3 DEF Ptr
    <3> QED
      BY <2>3, <3>1
  <2>4. CASE w = "code" /\ u = t
    <3>1. ~Ptr(w, u, i, n) /\ (Ptr(w, u, i, n)' <=> i = 1)
      BY <2>4 DEF Ptr
    <3> QED
      BY <2>4, <3>1
  <2> QED
    BY <2>1, <2>2, <2>3, <2>4
<1>2. q \notin Pointers(n) /\ p # <<"lost", n>> /\ p \in Pointers(n)
  BY IsPointer DEF Ptr, Roles
<1>3. \E v \in Roles, y \in Threads, k \in Nat : q = <<v, y, k>>
  BY DEF Roles
<1> HIDE DEF p, q
<1>4. Pointers(n)' = (Pointers(n) \ {p}) \cup {q}
  BY <1>1, <1>2, <1>3, Exchanges, ZenonT(60)
<1> QED
  BY <1>2, <1>4, ExactExchanged

\* What is common to all ways DropSelf can end: the block it was called on loses a pointer.
LEMMA DropSelfBlocks ==
  ASSUME EmplaceInv, NEW t \in Threads, DropSelf(t),
         NEW l \in Nat, l = Len(calls[t]), NEW b, b = Innermost(t).self,
         NEW n, n = Innermost(t).uninit
  PROVE  /\ l >= 1 /\ calls[t][l] = Innermost(t)
         /\ calls[t][l].phase \in {"returning", "failing"} /\ InPhase(t, calls[t][l].phase)
         /\ b \in Blocks /\ n \in Blocks /\ <<"self", t, l>> \in Pointers(b)
         /\ calls[t][l].phase = "returning" => b # n
         /\ block[b].content = "alive" /\ block[b].refs \in Nat /\ block[b].refs >= 1
         /\ block'[b] \in Block /\ block'[b].refs = block[b].refs - 1
         /\ block'[b].content = IF block[b].refs = 1 THEN "dead" ELSE "alive"
         /\ \A x \in Blocks \ {b} : block'[x] = block[x]
         /\ block' \in [Blocks -> Block] /\ BlockInv(b)'
         /\ mode' \in [Threads -> {"running", "unwinding"}] /\ aborted' \in BOOLEAN
         /\ leaked' = leaked
<1>1. PICK p \in {"returning", "failing"} : InPhase(t, p)
  BY DEF DropSelf
<1>2. l >= 1 /\ calls[t][l] = Innermost(t) /\ calls[t][l].phase = p /\ n \in Blocks
  BY <1>1, Inside, InvFacts
<1>3. /\ b \in Blocks /\ block[b] \in Block /\ block[b].content = "alive"
      /\ block[b].refs \in Nat /\ block[b].refs >= 1
      /\ <<"self", t, l>> \in Pointers(b)
      /\ p # "failing" => b # Innermost(t).uninit
  BY <1>1, OldBlock
<1>4. /\ block' = [block EXCEPT ![b] = Dropped(block[b])]
      /\ leaked' = leaked
      /\ Panics(t) \/ UNCHANGED <<mode, aborted>>
  BY DEF DropSelf
<1>5. block'[b] = Dropped(block[b]) /\ \A x \in Blocks \ {b} : block'[x] = block[x]
  BY <1>3, <1>4, InvFacts DEF EmplaceTypes
<1>6. /\ block'[b] \in Block /\ block'[b].refs = block[b].refs - 1
      /\ block'[b].content = IF block[b].refs = 1 THEN "dead" ELSE "alive"
  BY <1>3, <1>5, DroppedAlive
<1>7. block' \in [Blocks -> Block]
  BY <1>4, <1>5, <1>6, InvFacts DEF EmplaceTypes
<1>8. BlockInv(b)'
  BY <1>3, <1>6 DEF BlockInv
<1>9. mode' \in [Threads -> {"running", "unwinding"}] /\ aborted' \in BOOLEAN
  BY <1>4, PanicsType, InvFacts
<1> QED
  BY <1>1, <1>2, <1>3, <1>4, <1>5, <1>6, <1>7, <1>8, <1>9

LEMMA DropSelfInv ==
  ASSUME EmplaceInv, NEW t \in Threads, DropSelf(t)
  PROVE  EmplaceInv'
<1> PICK l \in Nat : l = Len(calls[t])
  BY InvFacts, Facts
<1> PICK b : b = Innermost(t).self
  OBVIOUS
<1> PICK n : n = Innermost(t).uninit
  OBVIOUS
<1>1. /\ l >= 1 /\ calls[t][l] = Innermost(t)
      /\ calls[t][l].phase \in {"returning", "failing"} /\ InPhase(t, calls[t][l].phase)
      /\ b \in Blocks /\ n \in Blocks /\ <<"self", t, l>> \in Pointers(b)
      /\ calls[t][l].phase = "returning" => b # n
      /\ block'[b].refs = block[b].refs - 1
      /\ \A x \in Blocks \ {b} : block'[x] = block[x]
      /\ block' \in [Blocks -> Block] /\ BlockInv(b)'
      /\ mode' \in [Threads -> {"running", "unwinding"}] /\ aborted' \in BOOLEAN
      /\ leaked' = leaked
  BY DropSelfBlocks
<1>2. calls[t][l].self = b /\ calls[t][l].uninit = n /\ EmplaceTypes
  BY <1>1, InvFacts
<1>3. \/ calls[t][l].phase = "returning" /\ held' = [held EXCEPT ![t][n] = 1] /\ Return(t)
      \/ calls[t][l].phase = "failing" /\ held' = held /\ Return(t)
      \/ calls[t][l].phase = "returning" /\ held' = held /\ EnterPhase(t, "cleanup")
  BY <1>1 DEF DropSelf
<1>4. ASSUME EmplaceTypes', InnermostOnly(t, l), NEW x \in Blocks, ~Ptr("self", t, l, b)',
             \A u \in Threads : held'[u][x] = held[u][x],
             Ptr("new", t, l, x)' <=> Ptr("new", t, l, x),
             Ptr("self", t, l, x)' => x = b
      PROVE  Exact(x)'
  <2>1. Ptr("self", t, l, x) => x = b
    BY <1>2 DEF Ptr
  <2>2. CASE x # b
    BY <1>1, <1>2, <1>4, <2>1, <2>2, CallKeeps, InvFacts
  <2>3. CASE x = b
    <3> DEFINE r == "self"
    <3>1. /\ r \in {"self", "new"} /\ ~Ptr(r, t, l, x)' /\ <<r, t, l>> \in Pointers(x)
          /\ \A w \in {"self", "new"} \ {r} : Ptr(w, t, l, x)' <=> Ptr(w, t, l, x)
      BY <1>1, <1>4, <2>3
    <3>2. block'[x].refs = block[x].refs - 1
      BY <1>1, <2>3
    <3> HIDE DEF r
    <3> QED
      BY <1>1, <1>2, <1>4, <3>1, <3>2, CallLetsGo, InvFacts
  <2> QED
    BY <2>2, <2>3
<1>5. CASE calls[t][l].phase = "returning" /\ held' = [held EXCEPT ![t][n] = 1] /\ Return(t)
  <2>1. /\ held[t][n] = 0 /\ <<"new", t, l>> \in Pointers(n)
    BY <1>1, <1>5, NewBlock
  <2>2. /\ calls' \in [Threads -> Seq(Call)] /\ InnermostOnly(t, l) /\ Len(calls'[t]) = l - 1
    BY <1>1, <1>2, <1>5, Returned DEF InnermostOnly
  <2>3. EmplaceTypes'
    BY <1>1, <1>2, <1>5, <2>2 DEF EmplaceTypes
  <2>4. /\ held'[t][n] = 1 /\ \A u \in Threads \ {t} : held'[u][n] = held[u][n]
        /\ \A x \in Blocks \ {n} : \A u \in Threads : held'[u][x] = held[u][x]
    BY <1>1, <1>2, <1>5 DEF EmplaceTypes
  <2>5. ASSUME NEW x \in Blocks
        PROVE  Exact(x)'
    <3>1. ~Ptr("self", t, l, b)' /\ ~Ptr("self", t, l, x)' /\ ~Ptr("new", t, l, x)'
      BY <1>1, <2>2 DEF Ptr
    <3>2. Ptr("new", t, l, x) => x = n
      BY <1>2 DEF Ptr
    <3>3. CASE x # n
      BY <1>4, <2>2, <2>3, <2>4, <3>1, <3>2, <3>3
    <3>4. CASE x = n
      <4>1. block'[n].refs = block[n].refs /\ calls[t][l].self # n
        BY <1>1, <1>2, <1>5
      <4>2. Exact(n)'
        BY <1>1, <1>2, <2>1, <2>2, <2>3, <2>4, <4>1, CallHandsOver, InvFacts
      <4> QED
        BY <3>4, <4>2
    <3> QED
      BY <3>3, <3>4
  <2>6. ~(Len(calls'[t]) = l) /\ calls[t][l].phase # "construct"
    BY <1>5, <2>2
  <2> QED
    BY <1>1, <2>2, <2>3, <2>5, <2>6, CallsStep
<1>6. CASE calls[t][l].phase = "failing" /\ held' = held /\ Return(t)
  <2>1. /\ calls' \in [Threads -> Seq(Call)] /\ InnermostOnly(t, l) /\ Len(calls'[t]) = l - 1
    BY <1>1, <1>2, <1>6, Returned DEF InnermostOnly
  <2>2. EmplaceTypes'
    BY <1>1, <1>2, <1>6, <2>1 DEF EmplaceTypes
  <2>3. ASSUME NEW x \in Blocks
        PROVE  Exact(x)'
    <3>1. /\ ~Ptr("self", t, l, b)' /\ ~Ptr("self", t, l, x)' /\ ~Ptr("new", t, l, x)'
          /\ ~Ptr("new", t, l, x)
      BY <1>1, <1>6, <2>1 DEF Ptr
    <3> QED
      BY <1>4, <1>6, <2>1, <2>2, <3>1
  <2>4. ~(Len(calls'[t]) = l) /\ calls[t][l].phase # "construct"
    BY <1>6, <2>1
  <2> QED
    BY <1>1, <2>1, <2>2, <2>3, <2>4, CallsStep
<1>7. CASE calls[t][l].phase = "returning" /\ held' = held /\ EnterPhase(t, "cleanup")
  <2>1. /\ block[n].refs = 1 /\ block[n].content = "alive"
    BY <1>1, <1>7, NewBlock, ZenonT(60)
  <2>2. /\ calls' \in [Threads -> Seq(Call)] /\ InnermostOnly(t, l) /\ Len(calls'[t]) = l
        /\ calls'[t][l].self = b /\ calls'[t][l].uninit = n /\ calls'[t][l].phase = "cleanup"
    BY <1>1, <1>2, <1>7, Phased DEF Phases, InnermostOnly
  <2>3. EmplaceTypes'
    BY <1>1, <1>2, <1>7, <2>2 DEF EmplaceTypes
  <2>4. ASSUME NEW x \in Blocks
        PROVE  Exact(x)'
    <3>1. /\ ~Ptr("self", t, l, b)' /\ ~Ptr("self", t, l, x)'
          /\ Ptr("new", t, l, x)' <=> Ptr("new", t, l, x)
      BY <1>1, <1>2, <1>7, <2>2 DEF Ptr
    <3> QED
      BY <1>4, <1>7, <2>2, <2>3, <3>1
  <2>5. CallInv(t, l)'
    <3>1. block'[n] = block[n]
      BY <1>1, <1>7
    <3> QED
      BY <2>1, <2>2, <3>1 DEF CallInv
  <2> QED
    BY <1>1, <1>7, <2>2, <2>3, <2>4, <2>5, CallsStep
<1> QED
  BY <1>3, <1>5, <1>6, <1>7

\* The innermost call ends, and the pointer to its new block is nobody's any more.
LEMMA CallLoses ==
  ASSUME EmplaceTypes, EmplaceTypes', NEW t \in Threads, NEW l \in Nat, l = Len(calls[t]), l >= 1,
         InnermostOnly(t, l), Len(calls'[t]) = l - 1, NEW n \in Blocks, held' = held,
         n \notin leaked, n \in leaked', <<"new", t, l>> \in Pointers(n),
         calls[t][l].phase = "cleanup", Exact(n), block'[n].refs = block[n].refs
  PROVE  Exact(n)'
<1> DEFINE p == <<"new", t, l>>
           q == <<"lost", n>>
<1>1. ASSUME NEW w \in Roles, NEW u \in Threads, NEW i \in Nat
      PROVE  Ptr(w, u, i, n)' <=> Ptr(w, u, i, n) /\ <<w, u, i>> # p
  <2>1. CASE w = "code" \/ u # t \/ i # l
    <3>1. <<w, u, i>> # p
      BY <2>1
    <3> QED
      BY <2>1, <3>1, OtherPointers
  <2>2. CASE w \in {"self", "new"} /\ u = t /\ i = l
    <3>1. ~Ptr(w, u, i, n)' /\ (Ptr(w, u, i, n) => w = "new")
      BY <2>2 DEF Ptr
    <3> QED
      BY <2>2, <3>1
  <2> QED
    BY <2>1, <2>2 DEF Roles
<1>2. PointersAre(n) /\ PointersAre(n)'
  BY PointerIs, PointerIsNext
<1>3. p # q /\ \A w \in Roles, u \in Threads, i \in Nat : <<w, u, i>> # q
  OBVIOUS
<1> HIDE DEF p, q
<1>4. \A x : x \in Pointers(n) <=>
         \E w \in Roles, u \in Threads, i \in Nat : x = <<w, u, i>> /\ Ptr(w, u, i, n)
  BY <1>2 DEF PointersAre
<1>5. \A x : x \in Pointers(n)' <=>
         \/ \E w \in Roles, u \in Threads, i \in Nat : x = <<w, u, i>> /\ Ptr(w, u, i, n)'
         \/ x = q
  BY <1>2 DEF PointersAre, q
<1>6. ASSUME NEW x
      PROVE  x \in Pointers(n)' <=> (x \in Pointers(n) /\ x # p) \/ x = q
  BY <1>1, <1>4, <1>5
<1>7. Pointers(n)' = (Pointers(n) \ {p}) \cup {q}
  BY <1>6
<1>8. p \in Pointers(n) /\ q \notin Pointers(n)
  BY <1>3, <1>4 DEF p
<1> QED
  BY <1>7, <1>8, ExactExchanged

LEMMA DropResultInv ==
  ASSUME EmplaceInv, NEW t \in Threads, DropResult(t)
  PROVE  EmplaceInv'
<1> PICK l \in Nat : l = Len(calls[t])
  BY InvFacts, Facts
<1> PICK n : n = Innermost(t).uninit
  OBVIOUS
<1>1. EmplaceTypes /\ InPhase(t, "cleanup") /\ l >= 1 /\ Innermost(t) = calls[t][l]
      /\ calls[t][l].uninit = n /\ calls[t][l].phase = "cleanup"
  BY InvFacts, Inside DEF DropResult
<1>2. /\ n \in Blocks /\ block[n] \in Block /\ block[n].refs = 1 /\ block[n].content = "alive"
      /\ <<"new", t, l>> \in Pointers(n)
  BY <1>1, NewBlock
<1>3. Return(t) /\ held' = held
  BY DEF DropResult
<1>4. /\ calls' \in [Threads -> Seq(Call)] /\ InnermostOnly(t, l) /\ Len(calls'[t]) = l - 1
  BY <1>1, <1>3, Returned DEF InnermostOnly
<1>5. ~(Len(calls'[t]) = l) /\ calls[t][l].phase # "construct"
  BY <1>1, <1>4
<1>6. ASSUME NEW x \in Blocks
      PROVE  /\ ~Ptr("self", t, l, x) /\ ~Ptr("self", t, l, x)' /\ ~Ptr("new", t, l, x)'
             /\ Ptr("new", t, l, x) => x = n
  BY <1>1, <1>4 DEF Ptr
<1>7. CASE leaked' = leaked \cup {n} /\ UNCHANGED <<block, mode, aborted>>
  <2>1. EmplaceTypes'
    BY <1>1, <1>2, <1>3, <1>4, <1>7 DEF EmplaceTypes
  <2>2. n \notin leaked
    <3>1. SUFFICES ASSUME n \in leaked PROVE FALSE
      OBVIOUS
    <3>2. <<"lost", n>> \in Pointers(n)
      BY <1>1, <1>2, <3>1, PointerIs DEF PointersAre
    <3>3. <<"lost", n>> = <<"new", t, l>>
      BY <1>2, <3>2, OnlyPointer, InvFacts
    <3> QED
      BY <3>3
  <2>3. ASSUME NEW x \in Blocks
        PROVE  Exact(x)'
    <3>1. CASE x # n
      BY <1>1, <1>3, <1>4, <1>6, <1>7, <2>1, <3>1, CallKeeps, InvFacts
    <3>2. CASE x = n
      <4>1. Exact(n)'
        BY <1>1, <1>2, <1>3, <1>4, <1>7, <2>1, <2>2, CallLoses, InvFacts
      <4> QED
        BY <3>2, <4>1
    <3> QED
      BY <3>1, <3>2
  <2>4. BlockInv(n)'
    BY <1>2, <1>7 DEF BlockInv
  <2>5. \A x \in Blocks \ {n} : block'[x] = block[x]
    BY <1>7
  <2> QED
    BY <1>1, <1>2, <1>4, <1>5, <2>1, <2>3, <2>4, <2>5, CallsStep
<1>8. CASE /\ block' = [block EXCEPT ![n] = Dropped(@)]
           /\ UNCHANGED <<mode, aborted>> \/ Panics(t)
           /\ UNCHANGED leaked
  <2>1. /\ block'[n] = Dropped(block[n])
        /\ \A x \in Blocks \ {n} : block'[x] = block[x]
    BY <1>1, <1>2, <1>8 DEF EmplaceTypes
  <2>2. block'[n] \in Block /\ block'[n].refs = 0 /\ block'[n].content = "dead"
    BY <1>2, <2>1, DroppedAlive
  <2>3. EmplaceTypes'
    <3>1. mode' \in [Threads -> {"running", "unwinding"}] /\ aborted' \in BOOLEAN
      BY <1>1, <1>8, PanicsType
    <3>2. block' \in [Blocks -> Block]
      BY <1>1, <1>8, <2>1, <2>2 DEF EmplaceTypes
    <3> QED
      BY <1>1, <1>3, <1>4, <1>8, <3>1, <3>2 DEF EmplaceTypes
  <2>4. ASSUME NEW x \in Blocks
        PROVE  Exact(x)'
    <3>1. CASE x # n
      BY <1>1, <1>3, <1>4, <1>6, <1>8, <2>1, <2>3, <3>1, CallKeeps, InvFacts
    <3>2. CASE x = n
      <4>1. block'[x].refs = block[x].refs - 1
        BY <1>2, <2>2, <3>2
      <4> DEFINE r == "new"
      <4>2. /\ r \in {"self", "new"} /\ ~Ptr(r, t, l, x)' /\ <<r, t, l>> \in Pointers(x)
            /\ \A w \in {"self", "new"} \ {r} : Ptr(w, t, l, x)' <=> Ptr(w, t, l, x)
        BY <1>2, <1>6, <3>2
      <4> HIDE DEF r
      <4> QED
        BY <1>1, <1>3, <1>4, <1>8, <2>3, <4>1, <4>2, CallLetsGo, InvFacts
    <3> QED
      BY <3>1, <3>2
  <2>5. BlockInv(n)'
    BY <2>2 DEF BlockInv
  <2> QED
    BY <1>1, <1>2, <1>4, <1>5, <2>1, <2>3, <2>4, <2>5, CallsStep
<1> QED
  BY <1>7, <1>8 DEF DropResult

-----------------------------------------------------------------------------
(* The invariant holds. *)

LEMMA InitInv == Init => EmplaceInv
<1> SUFFICES ASSUME Init PROVE EmplaceInv
  OBVIOUS
<1>1. EmplaceTypes
  <2>1. [kind |-> "Box", content |-> "free", refs |-> 0] \in Block
    BY MaxRefsAssumption DEF Block, AllKinds, Contents
  <2>2. <<>> \in Seq(Call)
    OBVIOUS
  <2> QED
    BY <2>1, <2>2 DEF Init, EmplaceTypes
<1>2. ASSUME NEW b \in Blocks
      PROVE  Exact(b) /\ BlockInv(b)
  <2>1. ASSUME NEW w \in Roles, NEW t \in Threads, NEW i \in Nat
        PROVE  ~Ptr(w, t, i, b)
    BY DEF Init, Ptr
  <2>2. b \notin leaked /\ PointersAre(b)
    BY <1>1, PointerIs DEF Init
  <2>3. \A p : p \notin Pointers(b)
    BY <2>1, <2>2 DEF PointersAre
  <2>4. Pointers(b) = {}
    BY <2>3
  <2>5. block[b].refs = 0 /\ block[b].content = "free"
    BY DEF Init
  <2> QED
    BY <2>4, <2>5, FS_EmptySet DEF Exact, BlockInv
<1>3. \A t \in Threads : \A i \in 1 .. Len(calls[t]) : CallInv(t, i)
  BY DEF Init
<1> QED
  BY <1>1, <1>2, <1>3 DEF EmplaceInv

LEMMA NextInv == EmplaceInv /\ [Next]_vars => EmplaceInv'
<1> SUFFICES ASSUME EmplaceInv, [Next]_vars PROVE EmplaceInv'
  OBVIOUS
<1>1. CASE UNCHANGED vars
  <2>1. EmplaceTypes'
    BY <1>1, InvFacts DEF vars, EmplaceTypes
  <2> QED
    BY <1>1, <2>1, StutterInv DEF vars
<1>2. ASSUME NEW t \in Threads, ClientStep(t)
      PROVE  EmplaceInv'
  BY <1>2, NewPointerInv, CloneInv, DropPointerInv, SendInv, CatchUnwindInv DEF ClientStep
<1>3. ASSUME NEW t \in Threads, NEW b \in Blocks, NEW n \in Blocks, TryEmplace(t, b, n)
      PROVE  EmplaceInv'
  BY <1>3, TryEmplaceInv
<1>4. ASSUME NEW t \in Threads, EmplaceStep(t)
      PROVE  EmplaceInv'
  BY <1>4, ConstructOkInv, ConstructFailsInv, DropSelfInv, DropResultInv DEF EmplaceStep
<1> QED
  BY <1>1, <1>2, <1>3, <1>4 DEF Next

LEMMA EmplaceInductive == Spec => []EmplaceInv
  BY InitInv, NextInv, PTL DEF Spec

-----------------------------------------------------------------------------
(* The theorems. *)

\* No thread has more pointers to a block than there are.
LEMMA HeldBounded ==
  ASSUME EmplaceInv, NEW t \in Threads, NEW b \in Blocks
  PROVE  held[t][b] \in 0 .. MaxRefs
<1> DEFINE h == held[t][b]
           f == [i \in 1 .. h |-> <<"code", t, i>>]
<1>1. h \in Nat /\ IsFiniteSet(Pointers(b)) /\ Cardinality(Pointers(b)) = block[b].refs
  BY InvFacts, Facts DEF Exact
<1>2. \A i \in 1 .. h : <<"code", t, i>> \in Pointers(b)
  BY <1>1, IsPointer, InvFacts DEF Ptr, Roles
<1>3. f \in Injection(1 .. h, Pointers(b))
  BY <1>2 DEF Injection, IsInjective
<1>4. IsFiniteSet(1 .. h) /\ Cardinality(1 .. h) = h
  <2> HIDE DEF h
  <2>1. 1 \in Int /\ h \in Int
    BY <1>1
  <2>2. IsFiniteSet(1 .. h) /\ Cardinality(1 .. h) = IF 1 > h THEN 0 ELSE h - 1 + 1
    BY <2>1, FS_Interval
  <2> QED
    BY <1>1, <2>2
<1> HIDE DEF f
<1>5. Cardinality(1 .. h) <= Cardinality(Pointers(b))
  BY <1>1, <1>3, FS_Injection
<1>6. block[b].refs \in Nat /\ block[b].refs <= MaxRefs
  BY InvFacts, Facts
<1> QED
  BY <1>1, <1>4, <1>5, <1>6, MaxRefsAssumption

\* Every variable keeps its type: no count passes the bound or goes below zero, whatever
\* is dropped, lost or handed over in whatever phase of a call.
THEOREM EmplaceTypeCorrect == Spec => []EmplaceTypeOK
<1>1. EmplaceInv => EmplaceTypeOK
  <2> SUFFICES ASSUME EmplaceInv PROVE EmplaceTypeOK
    OBVIOUS
  <2>1. held \in [Threads -> [Blocks -> 0 .. MaxRefs]]
    BY HeldBounded, InvFacts DEF EmplaceTypes
  <2> QED
    BY <2>1, InvFacts DEF EmplaceTypes, EmplaceTypeOK
<1> QED
  BY <1>1, EmplaceInductive, PTL

\* The strong count of a block is the number of pointers to it, and only the call that
\* builds it has one to a half-built block: try_emplace's unreachable! is unreachable.
THEOREM CountsExactHolds == Spec => []CountsExact
<1>1. EmplaceInv => CountsExact
  <2> SUFFICES ASSUME EmplaceInv, NEW b \in Blocks
               PROVE  /\ block[b].refs = Cardinality(Pointers(b))
                      /\ block[b].content = "uninit" =>
                            block[b].refs = 1 /\ \A t \in Threads : held[t][b] = 0
    BY DEF CountsExact
  <2>1. block[b].refs = Cardinality(Pointers(b))
    BY InvFacts DEF Exact
  <2>2. ASSUME block[b].content = "uninit", NEW t \in Threads, held[t][b] # 0
        PROVE  FALSE
    <3>1. held[t][b] > 0
      BY <2>2, InvFacts, Facts
    <3> QED
      BY <2>2, <3>1, HeldIsAlive
  <2>3. block[b].content = "uninit" => block[b].refs = 1
    BY InvFacts DEF BlockInv
  <2> QED
    BY <2>1, <2>2, <2>3
<1> QED
  BY <1>1, EmplaceInductive, PTL

-----------------------------------------------------------------------------
(* The refinement: what a step does to a block is what SharedOwners lets happen to the   *)
(* value in it.                                                                          *)

Born(b) == block[b].content \in {"alive", "dead"}

OwnersCounted == Owners = [b \in Blocks |-> IF Born(b) THEN block[b].refs ELSE 0]

LEMMA OwnersAre == EmplaceInv => OwnersCounted
  BY InvFacts DEF OwnersCounted, Owners, Fate, Born, Exact

LEMMA OwnersAreNext == EmplaceInv' => OwnersCounted'
  BY OwnersAre, PTL

\* Neither the value nor its owners change.
LEMMA Quiet ==
  ASSUME EmplaceInv, EmplaceInv',
         \A x \in Blocks : block'[x] = block[x] \/ (~Born(x) /\ ~Born(x)')
  PROVE  UNCHANGED <<Fate, Owners>>
<1>1. Fate' = Fate
  BY DEF Fate, Born
<1>2. Owners' = Owners
  BY OwnersAre, OwnersAreNext DEF OwnersCounted, Born
<1> QED
  BY <1>1, <1>2

\* One block changes: how Fate and Owners do.
LEMMA OneBlock ==
  ASSUME EmplaceInv, EmplaceInv', NEW b \in Blocks,
         \A x \in Blocks \ {b} : block'[x] = block[x],
         block'[b].content \in {"alive", "dead"}
  PROVE  /\ Fate' = [Fate EXCEPT ![b] = block'[b].content]
         /\ Owners' = [Owners EXCEPT ![b] = block'[b].refs]
<1>1. Fate' = [Fate EXCEPT ![b] = block'[b].content]
  BY DEF Fate
<1>2. Owners' = [Owners EXCEPT ![b] = block'[b].refs]
  BY OwnersAre, OwnersAreNext DEF OwnersCounted, Born
<1> QED
  BY <1>1, <1>2

LEMMA IsBorn ==
  ASSUME EmplaceInv, EmplaceInv', NEW b \in Blocks,
         \A x \in Blocks \ {b} : block'[x] = block[x],
         ~Born(b), block'[b].content = "alive", block'[b].refs = 1
  PROVE  Shared!Next
<1>1. Fate[b] = "unborn"
  BY DEF Fate, Born
<1>2. Fate' = [Fate EXCEPT ![b] = "alive"] /\ Owners' = [Owners EXCEPT ![b] = 1]
  BY OneBlock
<1> QED
  BY <1>1, <1>2 DEF Shared!Next, Shared!Born

LEMMA IsLetGo ==
  ASSUME EmplaceInv, EmplaceInv', NEW b \in Blocks,
         \A x \in Blocks \ {b} : block'[x] = block[x],
         block[b].content = "alive", block[b].refs \in Nat, block[b].refs >= 1,
         block'[b].refs = block[b].refs - 1,
         block'[b].content = IF block[b].refs = 1 THEN "dead" ELSE "alive"
  PROVE  Shared!Next
<1>1. Owners[b] = block[b].refs /\ Fate[b] = "alive"
  BY OwnersAre DEF OwnersCounted, Born, Fate
<1>2. /\ Fate' = [Fate EXCEPT ![b] = block'[b].content]
      /\ Owners' = [Owners EXCEPT ![b] = Owners[b] - 1]
  BY <1>1, OneBlock
<1>3. Fate' = IF Owners[b] = 1 THEN [Fate EXCEPT ![b] = "dead"] ELSE Fate
  <2>1. CASE Owners[b] = 1
    BY <1>1, <1>2, <2>1
  <2>2. CASE Owners[b] # 1
    <3>1. block'[b].content = "alive"
      BY <1>1, <2>2
    <3>2. Fate' = [Fate EXCEPT ![b] = "alive"]
      BY <1>2, <3>1
    <3>3. Fate' = Fate
      BY <1>1, <3>2 DEF Fate
    <3> QED
      BY <2>2, <3>3
  <2> QED
    BY <2>1, <2>2
<1>4. Owners[b] > 0
  BY <1>1
<1>5. Shared!LetGo(b)
  BY <1>2, <1>3, <1>4 DEF Shared!LetGo
<1> QED
  BY <1>5 DEF Shared!Next

LEMMA ClientRefines ==
  ASSUME EmplaceInv, EmplaceInv', NEW t \in Threads, ClientStep(t)
  PROVE  Shared!Next \/ UNCHANGED <<Fate, Owners>>
<1>1. ASSUME NEW b \in Blocks, NEW k \in Kinds, NewPointer(t, b, k)
      PROVE  Shared!Next
  <2>1. /\ block'[b].refs = 1 /\ block'[b].content = "alive" /\ block[b].content = "free"
        /\ \A x \in Blocks \ {b} : block'[x] = block[x]
    BY <1>1, InvFacts DEF NewPointer, Allocated, EmplaceTypes
  <2> QED
    BY <2>1, IsBorn DEF Born
<1>2. ASSUME NEW b \in Blocks, Clone(t, b)
      PROVE  Shared!Next
  <2>1. block[b].content = "alive" /\ block[b].refs \in Nat /\ block[b].refs >= 1
    BY <1>2, HeldIsAlive DEF Clone
  <2>2. /\ block'[b].refs = block[b].refs + 1 /\ block'[b].content = "alive"
        /\ \A x \in Blocks \ {b} : block'[x] = block[x]
    BY <1>2, <2>1, InvFacts DEF Clone, EmplaceTypes, Block
  <2>3. Owners[b] = block[b].refs
    BY <2>1, OwnersAre DEF OwnersCounted, Born
  <2>4. /\ Fate' = [Fate EXCEPT ![b] = "alive"]
        /\ Owners' = [Owners EXCEPT ![b] = Owners[b] + 1]
    BY <2>2, <2>3, OneBlock
  <2>5. Fate' = Fate
    BY <2>1, <2>4 DEF Fate
  <2>6. Shared!Share(b)
    BY <2>1, <2>3, <2>4, <2>5 DEF Shared!Share
  <2> QED
    BY <2>6 DEF Shared!Next
<1>3. ASSUME NEW b \in Blocks, DropPointer(t, b)
      PROVE  Shared!Next
  <2>1. /\ block[b].content = "alive" /\ block[b].refs \in Nat /\ block[b].refs >= 1
        /\ block[b] \in Block
    BY <1>3, HeldIsAlive, InvFacts DEF DropPointer, EmplaceTypes
  <2>2. /\ block'[b] = Dropped(block[b])
        /\ \A x \in Blocks \ {b} : block'[x] = block[x]
    BY <1>3, InvFacts DEF DropPointer, EmplaceTypes
  <2> QED
    BY <2>1, <2>2, DroppedAlive, IsLetGo
<1>4. ASSUME UNCHANGED block
      PROVE  UNCHANGED <<Fate, Owners>>
  BY <1>4, Quiet
<1> QED
  BY <1>1, <1>2, <1>3, <1>4 DEF ClientStep, Send, CatchUnwind

LEMMA CallRefines ==
  ASSUME EmplaceInv, EmplaceInv', NEW t \in Threads, EmplaceStep(t)
  PROVE  Shared!Next \/ UNCHANGED <<Fate, Owners>>
<1> PICK l \in Nat : l = Len(calls[t])
  BY InvFacts, Facts
<1> PICK n : n = Innermost(t).uninit
  OBVIOUS
<1> PICK b : b = Innermost(t).self
  OBVIOUS
<1>1. CASE ConstructOk(t)
  <2>1. InPhase(t, "construct") /\ block' = [block EXCEPT ![n].content = "alive"]
    BY <1>1 DEF ConstructOk
  <2>2. /\ n \in Blocks /\ block[n] \in Block /\ block[n].refs = 1
        /\ block[n].content = "uninit"
    BY <2>1, NewBlock
  <2>3. /\ block'[n].refs = 1 /\ block'[n].content = "alive"
        /\ \A x \in Blocks \ {n} : block'[x] = block[x]
    BY <2>1, <2>2, InvFacts DEF EmplaceTypes, Block
  <2> QED
    BY <2>2, <2>3, IsBorn DEF Born
<1>2. CASE ConstructFails(t)
  <2>1. InPhase(t, "construct") /\ block' = [block EXCEPT ![n] = Dropped(@)]
    BY <1>2 DEF ConstructFails
  <2>2. /\ n \in Blocks /\ block[n] \in Block /\ block[n].refs = 1
        /\ block[n].content = "uninit"
    BY <2>1, NewBlock
  <2>3. /\ block'[n] = Dropped(block[n])
        /\ \A x \in Blocks \ {n} : block'[x] = block[x]
    BY <2>1, <2>2, InvFacts DEF EmplaceTypes
  <2>4. block'[n].content = "discarded"
    BY <2>2, <2>3, DroppedUninit
  <2> QED
    BY <2>2, <2>3, <2>4, Quiet DEF Born
<1>3. CASE DropSelf(t)
  <2>1. /\ b \in Blocks /\ <<"self", t, l>> \in Pointers(b) /\ block[b].content = "alive"
        /\ block[b].refs \in Nat /\ block[b].refs >= 1
        /\ block'[b].refs = block[b].refs - 1
        /\ block'[b].content = IF block[b].refs = 1 THEN "dead" ELSE "alive"
        /\ \A x \in Blocks \ {b} : block'[x] = block[x]
    BY <1>3, DropSelfBlocks
  <2> QED
    BY <2>1, IsLetGo
<1>4. CASE DropResult(t)
  <2>1. InPhase(t, "cleanup") /\ (block' = block \/ block' = [block EXCEPT ![n] = Dropped(@)])
    BY <1>4 DEF DropResult
  <2>2. CASE block' = block
    BY <2>2, Quiet
  <2>3. CASE block' = [block EXCEPT ![n] = Dropped(@)]
    <3>1. /\ n \in Blocks /\ block[n] \in Block /\ block[n].refs = 1
          /\ block[n].content = "alive" /\ <<"new", t, l>> \in Pointers(n)
      BY <2>1, NewBlock
    <3>2. /\ block'[n] = Dropped(block[n])
          /\ \A x \in Blocks \ {n} : block'[x] = block[x]
      BY <2>3, <3>1, InvFacts DEF EmplaceTypes
    <3>3. /\ block'[n].refs = block[n].refs - 1
          /\ block'[n].content = IF block[n].refs = 1 THEN "dead" ELSE "alive"
          /\ block[n].refs \in Nat /\ block[n].refs >= 1
      BY <3>1, <3>2, DroppedAlive
    <3> QED
      BY <3>1, <3>2, <3>3, IsLetGo
  <2> QED
    BY <2>1, <2>2, <2>3
<1> QED
  BY <1>1, <1>2, <1>3, <1>4 DEF EmplaceStep

LEMMA TryEmplaceRefines ==
  ASSUME EmplaceInv, EmplaceInv', NEW t \in Threads, NEW b \in Blocks, NEW n \in Blocks,
         TryEmplace(t, b, n)
  PROVE  UNCHANGED <<Fate, Owners>>
<1>1. /\ block[n].content = "free" /\ block'[n].content = "uninit"
      /\ \A x \in Blocks \ {n} : block'[x] = block[x]
  BY InvFacts DEF TryEmplace, Allocated, EmplaceTypes
<1> QED
  BY <1>1, Quiet DEF Born

\* In-place construction implements shared ownership: a value comes to life once and with
\* one owner, a failed constructor brings none to life, and the value that try_emplace was
\* called on lives exactly as long as somebody shares it, for any threads and any heap.
THEOREM SharedOwnersImplemented == Spec => ImplementsSharedOwners
<1>1. Init => Shared!Init
  <2> SUFFICES ASSUME Init PROVE Shared!Init
    OBVIOUS
  <2>1. Fate = [b \in Blocks |-> "unborn"]
    BY DEF Init, Fate
  <2>2. Owners = [b \in Blocks |-> 0]
    BY <2>1 DEF Owners
  <2> QED
    BY <2>1, <2>2 DEF Shared!Init
<1>2. EmplaceInv /\ EmplaceInv' /\ [Next]_vars => [Shared!Next]_<<Fate, Owners>>
  <2> SUFFICES ASSUME EmplaceInv, EmplaceInv', [Next]_vars
               PROVE  Shared!Next \/ UNCHANGED <<Fate, Owners>>
    OBVIOUS
  <2>1. CASE UNCHANGED vars
    BY <2>1, Quiet DEF vars
  <2>2. CASE Next
    BY <2>2, ClientRefines, TryEmplaceRefines, CallRefines DEF Next
  <2> QED
    BY <2>1, <2>2
<1> QED
  BY <1>1, <1>2, EmplaceInductive, PTL DEF Spec, ImplementsSharedOwners, Shared!Spec

=============================================================================
