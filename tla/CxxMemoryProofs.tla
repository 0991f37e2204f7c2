-------------------------- MODULE CxxMemoryProofs --------------------------
(***************************************************************************)
(* Proofs about CxxMemory, for every value of the constants: type          *)
(* correctness, and, where a storage is not used twice, the drop guarantee *)
(* and the exactness of the leak check.                                    *)
(***************************************************************************)
EXTENDS CxxMemory, TLAPS

-----------------------------------------------------------------------------
(* What the tracker's methods return. *)

Outcome == [cells : Tracker, failed : AssertionSites \cup {"none"}]

\* NewTracker is a tracker (SlotStorageTracker::new).
LEMMA NewTrackerType == NewTracker \in Tracker
  BY UsizeMaxAssumption DEF NewTracker, Tracker

\* Whatever fails in initialize() or terminate(), the counter stays within a usize.
LEMMA TrackerTypes ==
  ASSUME NEW t \in Tracker
  PROVE  /\ Initialize(t) \in Outcome
         /\ Terminate(t) \in Outcome
         /\ SetReleased(t) \in Tracker
<1> USE UsizeMaxAssumption DEF Tracker, Outcome, AssertionSites, Ran, FailedAt, ReferencesAreZeroed
<1>1. \A u \in Tracker : Increment(u) \in Outcome
  BY DEF Increment
<1>2. \A u \in Tracker : Decrement(u) \in Outcome
  BY DEF Decrement
<1>3. Initialize(t) \in Outcome
  <2>1. [t EXCEPT !.initialized = TRUE] \in Tracker
    OBVIOUS
  <2>2. CASE DebugAssertions /\ t.initialized
    BY <2>2 DEF Initialize
  <2>3. CASE ~(DebugAssertions /\ t.initialized)
    BY <1>1, <2>1, <2>3 DEF Initialize
  <2> QED
    BY <2>2, <2>3
<1>4. Terminate(t) \in Outcome
  BY <1>2 DEF Terminate
<1>5. SetReleased(t) \in Tracker
  BY DEF SetReleased
<1> QED
  BY <1>3, <1>4, <1>5

\* The outcome of a MoveRef's drop, also right after release().
LEMMA DropTypes ==
  ASSUME NEW t \in Tracker
  PROVE  /\ MoveRefDropOutcome(t).cells \in Tracker
         /\ MoveRefDropOutcome(t).failed \in AssertionSites \cup {"none"}
         /\ ReleaseOutcome(t).cells \in Tracker
<1>1. \A u \in Tracker : /\ MoveRefDropOutcome(u).cells \in Tracker
                         /\ MoveRefDropOutcome(u).failed \in AssertionSites \cup {"none"}
  BY TrackerTypes DEF MoveRefDropOutcome, Outcome
<1> QED
  BY <1>1, TrackerTypes DEF ReleaseOutcome

-----------------------------------------------------------------------------
(* Type correctness. *)

\* A destructor's effect on a value, and a value read out of a storage, are values.
LEMMA ValueTypes ==
  ASSUME NEW r \in ValueRecord, NEW from \in Homes \cup Storages,
         NEW home \in Homes \cup Storages, NEW o
  PROVE  /\ Destroyed(r, from) \in ValueRecord
         /\ ReadOut(r, o, from, home) \in ValueRecord
<1>1. Destroyed(r, from) \in ValueRecord
  <2> DEFINE d == IF r.destroyed = 2 THEN 2 ELSE r.destroyed + 1
             h == IF r.owner = from THEN "gone" ELSE r.owner
  <2>1. d \in 0 .. 2
    BY DEF ValueRecord
  <2>2. h \in Homes \cup Storages
    BY DEF ValueRecord, Homes
  <2>3. Destroyed(r, from) = [r EXCEPT !.destroyed = d, !.owner = h]
    BY DEF Destroyed, ValueRecord
  <2> HIDE DEF d, h
  <2> QED
    BY <2>1, <2>2, <2>3 DEF ValueRecord
<1>2. ReadOut(r, o, from, home) \in ValueRecord
  BY <1>1 DEF ReadOut, ValueRecord
<1> QED
  BY <1>1, <1>2

\* The initial state is typed.
LEMMA InitTyped == Init => TypeOK
<1> SUFFICES ASSUME Init PROVE TypeOK
  OBVIOUS
<1>1. storage \in [Storages -> StorageRecord]
  BY NewTrackerType DEF Init, SlotStorageInit, Unborn, NewStorage, StorageRecord, Kinds, AllOrigins,
     Memory, Handles, Lives, Targets
<1>2. value \in [Values -> ValueRecord]
  BY DEF Init, SlotStorageInit, InitialValue, ValueRecord, Homes
<1> QED
  BY <1>1, <1>2 DEF Init, SlotStorageInit, TypeOK, Modes

LEMMA StorageStepTyped ==
  ASSUME TypeOK, NEW s \in Storages, StorageStep(s)
  PROVE  TypeOK'
<1> USE DEF TypeOK, Modes
<1>1. ASSUME NEW k \in Kinds, SlotStorageNew(s, k) PROVE TypeOK'
  BY <1>1, NewTrackerType DEF SlotStorageNew, NewStorage, StorageRecord, AllOrigins, Memory, Handles,
     Lives, Targets
<1>2. ASSUME NEW k \in Kinds, NEW o \in AllOrigins, LetCxxSlot(s, k, o) PROVE TypeOK'
  BY <1>2, NewTrackerType DEF LetCxxSlot, NewStorage, StorageRecord, Memory, Handles, Lives, Targets
<1>3. CASE SlotStorageSlot(s) \/ DropSlot(s)
  BY <1>3, ZenonT(60) DEF SlotStorageSlot, DropSlot, StorageRecord, Handles
<1>4. CASE StorageDrop(s)
  <2>1. storage' \in [Storages -> StorageRecord]
    BY <1>4 DEF StorageDrop, DropUninitialized, DropLeaking, DropKeep, DropInPlace, DropSound,
       StorageRecord, Lives
  <2>2. value' \in [Values -> ValueRecord]
    <3>1. CASE UNCHANGED value
      BY <3>1
    <3>2. CASE value' = [value EXCEPT ![storage[s].target] = Destroyed(@, s)]
      BY <3>2, ValueTypes
    <3>3. CASE value' = [value EXCEPT ![storage[s].target].heap = "freed"]
      BY <3>3 DEF ValueRecord
    <3> QED
      BY <1>4, <3>1, <3>2, <3>3
      DEF StorageDrop, DropUninitialized, DropLeaking, DropKeep, DropInPlace
  <2>3. mode' \in Modes
    BY <1>4 DEF StorageDrop, DropUninitialized, DropLeaking, DropKeep, DropInPlace, DoublePanic,
       AfterPanic
  <2>4. UNCHANGED <<calls, asserted>>
    BY <1>4 DEF StorageDrop, DropUninitialized, DropLeaking, DropKeep, DropInPlace, DropSound
  <2> QED
    BY <2>1, <2>2, <2>3, <2>4
<1> QED
  BY <1>1, <1>2, <1>3, <1>4 DEF StorageStep

\* A value that changes hands, or whose block is freed, is a value.
LEMMA OwnerTypes ==
  ASSUME NEW r \in ValueRecord, NEW o \in Homes \cup Storages, NEW h \in {"none", "live", "freed"}
  PROVE  /\ [r EXCEPT !.owner = o] \in ValueRecord
         /\ [r EXCEPT !.heap = h] \in ValueRecord
         /\ [r EXCEPT !.owner = o, !.heap = h] \in ValueRecord
  BY DEF ValueRecord

LEMMA InitializeFailsTyped ==
  ASSUME TypeOK, NEW s \in Storages, InitializeFails(s)
  PROVE  /\ storage' \in [Storages -> StorageRecord]
         /\ calls' \in Seq(Storages)
         /\ asserted' \subseteq AssertionSites
<1> USE DEF TypeOK
<1>1. storage[s].tracker \in Tracker
  BY DEF StorageRecord
<1> DEFINE i == Initialize(storage[s].tracker)
<1>2. i.cells \in Tracker /\ i.failed \in AssertionSites \cup {"none"}
  BY <1>1, TrackerTypes DEF Outcome
<1>3. /\ i.failed # "none"
      /\ storage' = [storage EXCEPT ![s].tracker = i.cells, ![s].handle = "none"]
      /\ asserted' = asserted \cup {i.failed}
      /\ calls' = calls
  BY DEF InitializeFails
<1> HIDE DEF i
<1>4. storage' \in [Storages -> StorageRecord]
  BY <1>2, <1>3, ZenonT(60) DEF StorageRecord, Handles
<1> QED
  BY <1>2, <1>3, <1>4

\* A panic leaves a mode, and so does one on top of it.
LEMMA PanicTypes ==
  ASSUME NEW m
  PROVE  /\ AfterPanic(m) \in Modes
         /\ {AfterPanic(m), AfterPanic(AfterPanic(m))} \subseteq Modes
  BY DEF AfterPanic, Modes

LEMMA InitializeHoldingTyped ==
  ASSUME TypeOK, NEW s \in Storages, NEW m \in Memory, NEW v \in Values,
         InitializeHolding(s, m, v)
  PROVE  /\ storage' \in [Storages -> StorageRecord]
         /\ UNCHANGED <<calls, mode, asserted>>
<1> DEFINE i == Initialize(storage[s].tracker)
<1>1. storage[s].tracker \in Tracker
  BY DEF TypeOK, StorageRecord
<1>2. i.cells \in Tracker
  BY <1>1, TrackerTypes DEF Outcome
<1>3. /\ storage' = [storage EXCEPT ![s].tracker = i.cells, ![s].memory = m,
                                    ![s].target = v, ![s].handle = "moveref"]
      /\ UNCHANGED <<calls, mode, asserted>>
  BY DEF InitializeHolding
<1> HIDE DEF i
<1>4. v \in Targets /\ "moveref" \in Handles
  BY DEF Targets, Handles
<1> QED
  BY <1>2, <1>3, <1>4, ZenonT(60) DEF TypeOK, StorageRecord

LEMMA ConstructStepTyped ==
  ASSUME TypeOK, NEW s \in Storages, ConstructStep(s)
  PROVE  TypeOK'
<1> USE DEF TypeOK
<1>1. CASE TryEmplace(s)
  <2>1. CASE InitializeFails(s)
    <3>1. UNCHANGED value /\ mode' = AfterPanic(mode)
      BY <1>1, <2>1 DEF TryEmplace, InitializeFails
    <3> QED
      BY <2>1, <3>1, InitializeFailsTyped, PanicTypes
  <2>2. CASE ~InitializeFails(s)
    <3> DEFINE i == Initialize(storage[s].tracker)
    <3>1. storage[s].tracker \in Tracker
      BY DEF StorageRecord
    <3>2. i.cells \in Tracker
      BY <3>1, TrackerTypes DEF Outcome
    <3>3. /\ storage' = [storage EXCEPT ![s].tracker = i.cells, ![s].handle = "call"]
          /\ calls' = <<s>> \o calls
          /\ UNCHANGED <<value, mode, asserted>>
      BY <1>1, <2>2 DEF TryEmplace
    <3> HIDE DEF i
    <3>4. storage' \in [Storages -> StorageRecord]
      BY <3>2, <3>3, ZenonT(60) DEF StorageRecord, Handles
    <3>5. calls' \in Seq(Storages)
      BY <3>3
    <3> QED
      BY <3>3, <3>4, <3>5
  <2> QED
    BY <2>1, <2>2
<1>2. CASE ConstructFails(s)
  <2>1. storage' \in [Storages -> StorageRecord]
    <3>1. None \in Targets /\ "none" \in Handles /\ "uninit" \in Memory
      BY DEF Targets, Handles, Memory
    <3> QED
      BY <1>2, <3>1, ZenonT(60) DEF ConstructFails, StorageRecord
  <2> QED
    BY <1>2, <2>1 DEF ConstructFails, Innermost
<1>3. ASSUME NEW v \in Values, ConstructOk(s, v) PROVE TypeOK'
  <2>1. storage' \in [Storages -> StorageRecord]
    <3>1. v \in Targets /\ "moveref" \in Handles /\ "T" \in Memory
      BY DEF Targets, Handles, Memory
    <3> QED
      BY <1>3, <3>1, ZenonT(60) DEF ConstructOk, StorageRecord
  <2>2. value' \in [Values -> ValueRecord]
    BY <1>3 DEF ConstructOk, ValueRecord
  <2> QED
    BY <1>3, <2>1, <2>2 DEF ConstructOk, Innermost
<1>4. ASSUME NEW v \in Values, Put(s, v) PROVE TypeOK'
  <2>1. CASE /\ InitializeFails(s)
             /\ value' = [value EXCEPT ![v] = Destroyed(@, "client")]
             /\ mode' \in {AfterPanic(mode), AfterPanic(AfterPanic(mode))}
    <3>1. mode' \in Modes
      BY <2>1, PanicTypes
    <3> QED
      BY <2>1, <3>1, InitializeFailsTyped, ValueTypes DEF Homes
  <2>2. CASE InitializeHolding(s, "T", v) /\ value' = [value EXCEPT ![v].owner = s]
    BY <2>2, InitializeHoldingTyped DEF Memory, ValueRecord
  <2> QED
    BY <1>4, <2>1, <2>2 DEF Put
<1> QED
  BY <1>1, <1>2, <1>3, <1>4 DEF ConstructStep

LEMMA ReleaseToTyped ==
  ASSUME TypeOK, NEW s \in Storages, NEW home \in Homes, ReleaseTo(s, home)
  PROVE  TypeOK'
<1> USE DEF TypeOK
<1>1. ReleaseOutcome(storage[s].tracker).cells \in Tracker
  BY DropTypes DEF StorageRecord
<1>2. storage' \in [Storages -> StorageRecord]
  BY <1>1, ZenonT(60) DEF ReleaseTo, StorageRecord, Handles
<1>3. value' \in [Values -> ValueRecord]
  BY ValueTypes DEF ReleaseTo
<1> QED
  BY <1>2, <1>3 DEF ReleaseTo

LEMMA MoveRefStepTyped ==
  ASSUME TypeOK, NEW s \in Storages, MoveRefStep(s)
  PROVE  TypeOK'
<1> USE DEF TypeOK
<1>1. CASE MoveRefDrop(s)
  <2> DEFINE o == MoveRefDropOutcome(storage[s].tracker)
  <2>1. o.cells \in Tracker /\ o.failed \in AssertionSites \cup {"none"}
    BY DropTypes DEF StorageRecord
  <2>2. storage' \in [Storages -> StorageRecord]
    <3>1. storage' = [storage EXCEPT ![s].tracker = o.cells, ![s].handle = "none"]
      BY <1>1 DEF MoveRefDrop
    <3> HIDE DEF o
    <3> QED
      BY <2>1, <3>1, ZenonT(60) DEF StorageRecord, Handles
  <2>3. value' \in [Values -> ValueRecord]
    BY <1>1, ValueTypes DEF MoveRefDrop
  <2> QED
    BY <1>1, <2>1, <2>2, <2>3 DEF MoveRefDrop, AfterPanic, Modes
<1>2. CASE ForgetMoveRef(s)
  BY <1>2 DEF ForgetMoveRef, StorageRecord, Handles
<1>3. CASE Release(s) \/ IntoInner(s)
  BY <1>3, ReleaseToTyped DEF Release, IntoInner, Homes
<1> QED
  BY <1>1, <1>2, <1>3 DEF MoveRefStep

LEMMA MoveStepTyped ==
  ASSUME TypeOK, NEW s \in Storages, MoveStep(s)
  PROVE  TypeOK'
<1> USE DEF TypeOK
<1>1. ASSUME NEW v \in Values, DerefMoveBox(s, v) \/ DerefMoveUniquePtr(s, v) PROVE TypeOK'
  <2>1. PICK owner \in {"box", "uniqueptr"}, h \in {"freed", "live"} : MoveOut(s, v, owner, h)
    BY <1>1 DEF DerefMoveBox, DerefMoveUniquePtr
  <2>2. CASE /\ InitializeFails(s)
             /\ mode' = AfterPanic(mode)
             /\ value' = [value EXCEPT ![v].owner = "lost", ![v].heap = h]
    <3>1. [value[v] EXCEPT !.owner = "lost", !.heap = h] \in ValueRecord
      BY OwnerTypes DEF Homes
    <3>2. value' \in [Values -> ValueRecord]
      BY <2>2, <3>1
    <3>3. InitializeFails(s) /\ mode' \in Modes
      BY <2>2, PanicTypes
    <3> QED
      BY <3>2, <3>3, InitializeFailsTyped
  <2>3. CASE /\ InitializeHolding(s, owner, v)
             /\ value' = [value EXCEPT ![v].owner = s]
    <3>1. value' \in [Values -> ValueRecord]
      BY <2>3, OwnerTypes
    <3>2. InitializeHolding(s, owner, v) /\ owner \in Memory
      BY <2>3 DEF Memory
    <3> QED
      BY <3>1, <3>2, InitializeHoldingTyped
  <2> QED
    BY <2>1, <2>2, <2>3 DEF MoveOut
<1>2. ASSUME NEW t \in Storages, DerefMoveMoveRef(s, t) PROVE TypeOK'
  BY <1>2 DEF DerefMoveMoveRef, StorageRecord, Handles
<1>3. ASSUME NEW t \in Storages, MoveNewTrivial(s, t) PROVE TypeOK'
  <2> DEFINE o == ReleaseOutcome(storage[t].tracker)
  <2>1. o.cells \in Tracker
    BY DropTypes DEF StorageRecord
  <2>2. value' \in [Values -> ValueRecord]
    BY <1>3, ValueTypes DEF MoveNewTrivial
  <2> DEFINE f == [storage EXCEPT ![t].tracker = o.cells, ![t].handle = "none"]
  <2>3. storage' = [f EXCEPT ![s].memory = "T", ![s].target = storage[t].target, ![s].handle = "moveref"]
    BY <1>3 DEF MoveNewTrivial
  <2> HIDE DEF o
  <2>4. storage' \in [Storages -> StorageRecord]
    <3>1. {"none", "moveref"} \subseteq Handles /\ "T" \in Memory
      BY DEF Handles, Memory
    <3>2. f \in [Storages -> StorageRecord] /\ storage[t].target \in Targets
      BY <2>1, <3>1 DEF StorageRecord
    <3> HIDE DEF f
    <3> QED
      BY <2>3, <3>1, <3>2, ZenonT(60) DEF StorageRecord
  <2>5. calls' \in Seq(Storages) /\ UNCHANGED <<mode, asserted>>
    BY <1>3 DEF MoveNewTrivial, Innermost
  <2> QED
    BY <2>2, <2>4, <2>5
<1>4. ASSUME NEW t \in Storages, NEW w \in Values, MoveNewCxx(s, t, w) PROVE TypeOK'
  <2> DEFINE o == MoveRefDropOutcome(storage[t].tracker)
             v == storage[t].target
  <2>1. o.cells \in Tracker
    BY DropTypes DEF StorageRecord
  <2>2. value' \in [Values -> ValueRecord]
    <3>1. value' = [value EXCEPT ![w].owner = s, ![v] = IF o.drops THEN Destroyed(@, t) ELSE @]
      BY <1>4 DEF MoveNewCxx
    <3> HIDE DEF o, v
    <3>2. [value EXCEPT ![w].owner = s] \in [Values -> ValueRecord]
      BY OwnerTypes
    <3> QED
      BY <3>1, <3>2, ValueTypes
  <2> DEFINE f == [storage EXCEPT ![t].tracker = o.cells, ![t].handle = "none"]
  <2>3. PICK h \in {"none", "moveref"} :
            /\ storage' = [f EXCEPT ![s].memory = "T", ![s].target = w, ![s].handle = h]
            /\ mode' \in {mode, AfterPanic(mode)}
    BY <1>4 DEF MoveNewCxx
  <2>4. asserted' \subseteq AssertionSites
    <3>1. o.failed \in AssertionSites \cup {"none"}
      BY DropTypes DEF StorageRecord
    <3>2. asserted' = asserted \cup ({o.failed} \ {"none"})
      BY <1>4 DEF MoveNewCxx
    <3> HIDE DEF o
    <3> QED
      BY <3>1, <3>2
  <2> HIDE DEF o
  <2>5. storage' \in [Storages -> StorageRecord]
    <3>1. {"none", "moveref"} \subseteq Handles /\ "T" \in Memory /\ w \in Targets
      BY DEF Handles, Memory, Targets
    <3>2. f \in [Storages -> StorageRecord]
      BY <2>1, <3>1 DEF StorageRecord
    <3> HIDE DEF f
    <3> QED
      BY <2>3, <3>1, <3>2, ZenonT(60) DEF StorageRecord
  <2>6. calls' \in Seq(Storages)
    <3>1. calls # <<>> /\ calls' = Tail(calls)
      BY <1>4 DEF MoveNewCxx, Innermost
    <3> QED
      BY <3>1
  <2>7. mode' \in Modes
    BY <2>3, PanicTypes
  <2> QED
    BY <2>2, <2>4, <2>5, <2>6, <2>7
<1> QED
  BY <1>1, <1>2, <1>3, <1>4 DEF MoveStep

LEMMA ClientStepTyped ==
  ASSUME TypeOK, ClientStep
  PROVE  TypeOK'
<1> USE DEF TypeOK
<1>1. CASE ClientPanic \/ CatchUnwind
  BY <1>1 DEF ClientPanic, CatchUnwind, AfterPanic, Modes
<1>2. ASSUME NEW v \in Values, ClientDrop(v) PROVE TypeOK'
  <2>1. Destroyed(value[v], value[v].owner) \in ValueRecord
    BY ValueTypes DEF ValueRecord
  <2>2. DroppedByClient(value[v]) \in ValueRecord
    BY <2>1 DEF DroppedByClient, ValueRecord
  <2>3. value' \in [Values -> ValueRecord]
    BY <1>2, <2>2 DEF ClientDrop
  <2> QED
    BY <1>2, <2>3 DEF ClientDrop, AfterPanic, Modes
<1> QED
  BY <1>1, <1>2 DEF ClientStep

\* Every operation keeps every variable in its type: in particular no sequence of
\* operations, asserting or not, takes a tracker's counter out of a usize.
THEOREM TypeCorrect == Spec => []TypeOK
<1>1. Init => TypeOK
  BY InitTyped
<1>2. TypeOK /\ [Next]_vars => TypeOK'
  <2> SUFFICES ASSUME TypeOK, [Next]_vars PROVE TypeOK'
    OBVIOUS
  <2>1. ASSUME NEW s \in Storages, StorageStep(s) PROVE TypeOK'
    BY <2>1, StorageStepTyped
  <2>2. ASSUME NEW s \in Storages, ConstructStep(s) PROVE TypeOK'
    BY <2>2, ConstructStepTyped
  <2>3. ASSUME NEW s \in Storages, MoveRefStep(s) PROVE TypeOK'
    BY <2>3, MoveRefStepTyped
  <2>4. ASSUME NEW s \in Storages, MoveStep(s) PROVE TypeOK'
    BY <2>4, MoveStepTyped
  <2>5. CASE ClientStep
    BY <2>5, ClientStepTyped
  <2>6. CASE UNCHANGED vars
    BY <2>6 DEF vars, TypeOK
  <2> QED
    BY <2>1, <2>2, <2>3, <2>4, <2>5, <2>6 DEF Next
<1> QED
  BY <1>1, <1>2, PTL DEF Spec

-----------------------------------------------------------------------------
(* The drop guarantee.  It needs a build in which the second use of a storage *)
(* is refused, or a program that takes its slots from the macros, and it is   *)
(* about the panic of a build that is not a unit test.                        *)

ReuseRefused == DebugAssertions \/ "SlotStorage" \notin Origins

\* initialize() refuses an initialised tracker and otherwise counts to one.
LEMMA InitializeCases ==
  ASSUME NEW t \in Tracker
  PROVE  /\ t.initialized /\ DebugAssertions =>
               Initialize(t).failed = "initialize" /\ Initialize(t).cells = t
         /\ ~t.initialized /\ ~t.released /\ t.references = 0 =>
               /\ Initialize(t).failed = "none"
               /\ Initialize(t).cells.initialized
               /\ ~Initialize(t).cells.released
               /\ Initialize(t).cells.references = 1
<1>1. CASE t.initialized /\ DebugAssertions
  BY <1>1 DEF Initialize, FailedAt
<1>2. CASE ~t.initialized /\ ~t.released /\ t.references = 0
  <2> DEFINE u == [t EXCEPT !.initialized = TRUE]
  <2>1. u.initialized /\ ~u.released /\ u.references = 0 /\ u \in Tracker
    BY <1>2 DEF Tracker
  <2>2. Initialize(t) = Increment(u)
    BY <1>2 DEF Initialize
  <2> HIDE DEF u
  <2>3. Increment(u) = Ran([u EXCEPT !.references = 1])
    BY <2>1, UsizeMaxAssumption DEF Increment, ReferencesAreZeroed
  <2>4. /\ Increment(u).failed = "none"
        /\ Increment(u).cells = [u EXCEPT !.references = 1]
    BY <2>3 DEF Ran
  <2> QED
    BY <1>2, <2>1, <2>2, <2>4 DEF Tracker
<1> QED
  BY <1>1, <1>2

\* A MoveRef's drop zeroes a counter of one and destroys the value.
LEMMA DropOfPending ==
  ASSUME NEW t \in Tracker, ~t.released, t.references = 1
  PROVE  /\ MoveRefDropOutcome(t).drops
         /\ MoveRefDropOutcome(t).failed = "none"
         /\ MoveRefDropOutcome(t).cells = [t EXCEPT !.references = 0]
<1>1. Decrement(t) = Ran([t EXCEPT !.references = 0])
  BY DEF Decrement, ReferencesAreZeroed, Tracker
<1>2. Terminate(t) = Ran([t EXCEPT !.references = 0])
  BY <1>1 DEF Terminate, ReferencesAreZeroed, Ran, Tracker
<1>3. /\ Terminate(t).failed = "none"
      /\ Terminate(t).cells = [t EXCEPT !.references = 0]
  BY <1>2 DEF Ran
<1>4. (Terminate(t).failed = "none") = TRUE
  BY <1>3
<1>5. MoveRefDropOutcome(t) =
        [cells |-> [t EXCEPT !.references = 0], failed |-> "none", drops |-> TRUE]
  BY <1>3, <1>4 DEF MoveRefDropOutcome
<1> QED
  BY <1>5

\* After release() it does nothing.
LEMMA DropOfReleased ==
  ASSUME NEW t \in Tracker
  PROVE  /\ ~ReleaseOutcome(t).drops
         /\ ReleaseOutcome(t).cells = [t EXCEPT !.released = TRUE]
  BY DEF ReleaseOutcome, MoveRefDropOutcome, SetReleased, Tracker

\* The frame of a step that changes one storage: the others keep their record and
\* their values.
LEMMA OneStorageFrame ==
  ASSUME IInv, TypeOK', NEW s \in Storages,
         \A x \in Storages \ {s} : storage'[x] = storage[x],
         \A x \in Storages \ {s}, v \in Values : value'[v].owner = x <=> value[v].owner = x,
         RecordInv(storage'[s]),
         \A v \in Values :
             value'[v].owner = s <=> Pending(storage'[s]) /\ storage'[s].target = v
  PROVE  IInv'
<1>1. \A x \in Storages : RecordInv(storage'[x])
  BY DEF IInv
<1>2. \A x \in Storages, v \in Values :
          value'[v].owner = x <=> Pending(storage'[x]) /\ storage'[x].target = v
  BY DEF IInv, OwnerInv
<1> QED
  BY <1>1, <1>2 DEF IInv, OwnerInv, RecordInv, Pending

LEMMA NoStorageFrame ==
  ASSUME IInv, TypeOK', UNCHANGED storage,
         \A x \in Storages, v \in Values : value'[v].owner = x <=> value[v].owner = x
  PROVE  IInv'
  BY DEF IInv, OwnerInv, RecordInv, Pending

LEMMA InitInv == Init => IInv
<1> SUFFICES ASSUME Init PROVE IInv
  OBVIOUS
<1>1. TypeOK
  BY InitTyped
<1>2. \A s \in Storages : storage[s] = Unborn
  BY DEF Init, SlotStorageInit
<1>3. RecordInv(Unborn) /\ ~Pending(Unborn)
  BY DEF RecordInv, Pending, Unborn, NewStorage, NewTracker
<1>4. \A v \in Values : value[v].owner \in Homes
  BY DEF Init, SlotStorageInit, InitialValue, Homes
<1> QED
  BY <1>1, <1>2, <1>3, <1>4, StoragesAssumption DEF IInv, OwnerInv

LEMMA StorageStepInv ==
  ASSUME IInv, TypeOK', ReuseRefused, NEW s \in Storages, StorageStep(s)
  PROVE  IInv'
<1> DEFINE r == storage[s]
<1>1. /\ TypeOK /\ r \in StorageRecord /\ RecordInv(r)
      /\ \A v \in Values : value[v].owner = s <=> Pending(r) /\ r.target = v
  BY DEF IInv, OwnerInv, TypeOK
<1>2. ASSUME NEW k \in Kinds, NEW o \in Origins, r.life = "unborn",
             storage' = [storage EXCEPT ![s] = NewStorage(k, o, storage'[s].handle)],
             storage'[s].handle \in {"none", "slot"}, UNCHANGED value
      PROVE  IInv'
  <2>1. RecordInv(storage'[s]) /\ ~Pending(storage'[s])
    BY <1>1, <1>2 DEF RecordInv, Pending, NewStorage, NewTracker, TypeOK
  <2>2. ~Pending(r)
    BY <1>1, <1>2 DEF RecordInv, Pending
  <2>3. \A x \in Storages \ {s} : storage'[x] = storage[x]
    BY <1>1, <1>2 DEF TypeOK
  <2> QED
    BY <1>1, <1>2, <2>1, <2>2, <2>3, OneStorageFrame
<1>3. CASE SlotStorageSlot(s) \/ DropSlot(s)
  <2>1. PICK h \in {"none", "slot"} :
            /\ storage' = [storage EXCEPT ![s].handle = h]
            /\ h = "slot" => r.life = "live" /\ r.origin = "SlotStorage"
            /\ UNCHANGED value
    BY <1>3 DEF SlotStorageSlot, DropSlot
  <2>2. /\ storage'[s] = [r EXCEPT !.handle = h]
        /\ \A x \in Storages \ {s} : storage'[x] = storage[x]
    BY <1>1, <2>1 DEF TypeOK
  <2>3. RecordInv(storage'[s]) /\ (Pending(storage'[s]) <=> Pending(r))
        /\ storage'[s].target = r.target
    BY <1>1, <2>1, <2>2, ReuseRefused DEF RecordInv, NotGone, Pending, ReuseRefused, StorageRecord
  <2> QED
    BY <1>1, <2>1, <2>2, <2>3, OneStorageFrame
<1>4. CASE StorageDrop(s)
  <2>1. CASE DropLeaking(s)
    <3>1. PICK l \in {"live", "dropped"} :
             /\ storage' = [storage EXCEPT ![s].life = l] /\ UNCHANGED value
             /\ r.life = "live" /\ r.handle = "none" /\ (l = "dropped" => CfgTest)
      BY <2>1 DEF DropLeaking, DoublePanic, MayDrop
    <3>2. /\ storage'[s] = [r EXCEPT !.life = l]
          /\ \A x \in Storages \ {s} : storage'[x] = storage[x]
      BY <1>1, <3>1 DEF TypeOK
    <3>3. RecordInv(storage'[s]) /\ (Pending(storage'[s]) <=> Pending(r))
          /\ storage'[s].target = r.target
      BY <1>1, <3>1, <3>2 DEF RecordInv, NotGone, Pending, StorageRecord
    <3> QED
      BY <1>1, <3>1, <3>2, <3>3, OneStorageFrame
  <2>2. CASE DropUninitialized(s) \/ DropKeep(s) \/ DropInPlace(s)
    <3>1. /\ storage' = [storage EXCEPT ![s].life = "dropped"]
          /\ r.life = "live" /\ r.handle = "none"
          /\ IsUninitialized(r.tracker) \/ ~IsLeaking(r.tracker)
      BY <2>2 DEF DropUninitialized, DropKeep, DropInPlace, DropSound, MayDrop
    <3>2. /\ storage'[s] = [r EXCEPT !.life = "dropped"]
          /\ \A x \in Storages \ {s} : storage'[x] = storage[x]
      BY <1>1, <3>1 DEF TypeOK
    <3>3. /\ ~Pending(r) /\ ~Pending(storage'[s])
          /\ r.tracker.initialized => r.memory # "uninit"
      BY <1>1, <3>1, <3>2
      DEF Pending, IsUninitialized, IsLeaking, ReferencesAreZeroed, StorageRecord, Tracker, RecordInv
    <3>4. RecordInv(storage'[s])
      BY <1>1, <3>1, <3>2, <3>3 DEF RecordInv, StorageRecord, Pending
    <3>5. \A v \in Values, x \in Storages : value'[v].owner = x <=> value[v].owner = x
      <4>1. CASE UNCHANGED value
        BY <4>1
      <4>2. CASE value' = [value EXCEPT ![r.target] = Destroyed(@, s)]
        BY <1>1, <3>3, <4>2, StoragesAssumption DEF Destroyed, TypeOK, ValueRecord, Homes
      <4>3. CASE value' = [value EXCEPT ![r.target].heap = "freed"]
        BY <1>1, <4>3 DEF TypeOK, ValueRecord
      <4> QED
        BY <2>2, <4>1, <4>2, <4>3 DEF DropUninitialized, DropKeep, DropInPlace
    <3> QED
      BY <1>1, <3>2, <3>3, <3>4, <3>5, OneStorageFrame
  <2> QED
    BY <1>4, <2>1, <2>2 DEF StorageDrop
<1>5. ASSUME NEW k \in Kinds, SlotStorageNew(s, k) PROVE IInv'
  BY <1>1, <1>2, <1>5, OriginsAssumption DEF SlotStorageNew, NewStorage, TypeOK
<1>6. ASSUME NEW k \in Kinds, NEW o \in AllOrigins, LetCxxSlot(s, k, o) PROVE IInv'
  BY <1>1, <1>2, <1>6 DEF LetCxxSlot, NewStorage, TypeOK
<1> QED
  BY <1>3, <1>4, <1>5, <1>6 DEF StorageStep

\* initialize() on the slot of s: either it refuses, and s stays as it is without a
\* handle, or it counts to one.
LEMMA InitializeOnSlot ==
  ASSUME IInv, NEW s \in Storages, storage[s].handle = "slot"
  PROVE  LET t == storage[s].tracker
             i == Initialize(t)
         IN  \/ i.failed # "none" /\ i.cells = t
             \/ /\ i.failed = "none" /\ ~t.initialized
                /\ i.cells.initialized /\ ~i.cells.released /\ i.cells.references = 1
<1> DEFINE t == storage[s].tracker
<1>1. RecordInv(storage[s]) /\ t \in Tracker
  BY DEF IInv, TypeOK, StorageRecord
<1>2. CASE t.initialized
  <2>1. DebugAssertions
    BY <1>1, <1>2 DEF RecordInv
  <2> QED
    BY <1>1, <1>2, <2>1, InitializeCases
<1>3. CASE ~t.initialized
  <2>1. ~t.released /\ t.references = 0
    BY <1>1, <1>3 DEF RecordInv
  <2> QED
    BY <1>1, <1>3, <2>1, InitializeCases
<1> QED
  BY <1>2, <1>3

LEMMA InitializeFailsInv ==
  ASSUME IInv, TypeOK', NEW s \in Storages, storage[s].handle = "slot", InitializeFails(s),
         \A x \in Storages, v \in Values : value'[v].owner = x <=> value[v].owner = x
  PROVE  IInv'
<1> DEFINE r == storage[s]
           i == Initialize(r.tracker)
<1>1. i.cells = r.tracker
  BY InitializeOnSlot DEF InitializeFails
<1>2. storage' = [storage EXCEPT ![s].tracker = i.cells, ![s].handle = "none"]
  BY DEF InitializeFails
<1> HIDE DEF i
<1>3. /\ storage'[s] = [r EXCEPT !.handle = "none"]
      /\ \A x \in Storages \ {s} : storage'[x] = storage[x]
  BY <1>1, <1>2 DEF IInv, TypeOK, StorageRecord
<1>4. /\ r \in StorageRecord /\ RecordInv(r)
      /\ \A v \in Values : value[v].owner = s <=> Pending(r) /\ r.target = v
  BY DEF IInv, OwnerInv, TypeOK
<1>5. /\ RecordInv(storage'[s])
      /\ Pending(storage'[s]) <=> Pending(r)
      /\ storage'[s].target = r.target
  BY <1>3, <1>4 DEF RecordInv, NotGone, Pending, StorageRecord
<1> QED
  BY <1>3, <1>4, <1>5, OneStorageFrame, ZenonT(60)

LEMMA InitializeHoldingInv ==
  ASSUME IInv, TypeOK', NEW s \in Storages, storage[s].handle = "slot",
         NEW m \in Memory \ {"uninit"}, NEW v \in Values, InitializeHolding(s, m, v),
         value[v].owner \notin Storages, value' = [value EXCEPT ![v].owner = s]
  PROVE  IInv'
<1> DEFINE r == storage[s]
           i == Initialize(r.tracker)
<1>1. /\ ~r.tracker.initialized
      /\ i.cells.initialized /\ ~i.cells.released /\ i.cells.references = 1
  BY InitializeOnSlot DEF InitializeHolding
<1>2. storage' = [storage EXCEPT ![s].tracker = i.cells, ![s].memory = m,
                                 ![s].target = v, ![s].handle = "moveref"]
  BY DEF InitializeHolding
<1> HIDE DEF i
<1>3. /\ storage'[s] = [r EXCEPT !.tracker = i.cells, !.memory = m, !.target = v,
                                 !.handle = "moveref"]
      /\ \A x \in Storages \ {s} : storage'[x] = storage[x]
  BY <1>2 DEF IInv, TypeOK
<1>4. /\ r \in StorageRecord /\ RecordInv(r) /\ ~Pending(r)
      /\ \A w \in Values : value[w].owner # s
  BY <1>1 DEF IInv, OwnerInv, TypeOK, Pending
<1>5. r.life = "live"
  BY <1>4 DEF RecordInv
<1>6. RecordInv(storage'[s]) /\ Pending(storage'[s]) /\ storage'[s].target = v
  BY <1>1, <1>3, <1>4, <1>5 DEF RecordInv, NotGone, Pending, StorageRecord
<1>7. \A w \in Values : value'[w].owner = IF w = v THEN s ELSE value[w].owner
  BY DEF IInv, TypeOK, ValueRecord
<1>8. \A x \in Storages \ {s}, w \in Values : value'[w].owner = x <=> value[w].owner = x
  BY <1>7
<1>9. \A w \in Values : value'[w].owner = s <=> Pending(storage'[s]) /\ storage'[s].target = w
  BY <1>4, <1>6, <1>7
<1> QED
  BY <1>3, <1>6, <1>8, <1>9, OneStorageFrame

LEMMA ConstructStepInv ==
  ASSUME IInv, TypeOK', NEW s \in Storages, ConstructStep(s)
  PROVE  IInv'
<1> DEFINE r == storage[s]
<1>1. /\ r \in StorageRecord /\ RecordInv(r) /\ TypeOK
      /\ \A v \in Values : value[v].owner = s <=> Pending(r) /\ r.target = v
  BY DEF IInv, OwnerInv, TypeOK
<1>2. CASE TryEmplace(s)
  <2>1. CASE InitializeFails(s)
    BY <1>2, <2>1, InitializeFailsInv DEF TryEmplace, CanUse
  <2>2. CASE ~InitializeFails(s)
    <3> DEFINE i == Initialize(r.tracker)
    <3>1. r.handle = "slot" /\ i.failed = "none" /\ UNCHANGED value
      BY <1>2, <2>2 DEF TryEmplace, CanUse
    <3>2. /\ ~r.tracker.initialized
          /\ i.cells.initialized /\ ~i.cells.released /\ i.cells.references = 1
      BY <3>1, InitializeOnSlot
    <3>3. storage' = [storage EXCEPT ![s].tracker = i.cells, ![s].handle = "call"]
      BY <1>2, <2>2 DEF TryEmplace
    <3> HIDE DEF i
    <3>4. /\ storage'[s] = [r EXCEPT !.tracker = i.cells, !.handle = "call"]
          /\ \A x \in Storages \ {s} : storage'[x] = storage[x]
      BY <1>1, <3>3 DEF TypeOK
    <3>5. r.life = "live" /\ r.memory = "uninit" /\ ~Pending(r)
      BY <1>1, <3>1, <3>2 DEF RecordInv, Pending
    <3>6. RecordInv(storage'[s]) /\ ~Pending(storage'[s])
      BY <1>1, <3>2, <3>4, <3>5 DEF RecordInv, NotGone, Pending, StorageRecord
    <3> QED
      BY <1>1, <3>1, <3>4, <3>5, <3>6, OneStorageFrame
  <2> QED
    BY <2>1, <2>2
<1>3. CASE ConstructFails(s)
  <2>1. /\ storage' = [storage EXCEPT ![s].memory = "uninit", ![s].target = None,
                                      ![s].handle = "none"]
        /\ r.handle = "call" /\ UNCHANGED value
    BY <1>3 DEF ConstructFails, Innermost
  <2>2. /\ storage'[s] = [r EXCEPT !.memory = "uninit", !.target = None, !.handle = "none"]
        /\ \A x \in Storages \ {s} : storage'[x] = storage[x]
    BY <1>1, <2>1 DEF TypeOK
  <2>3. r.tracker.initialized /\ r.memory = "uninit" /\ r.life = "live" /\ ~Pending(r)
    BY <1>1, <2>1 DEF RecordInv, Pending
  <2>4. RecordInv(storage'[s]) /\ ~Pending(storage'[s])
    BY <1>1, <2>2, <2>3 DEF RecordInv, NotGone, Pending, StorageRecord
  <2> QED
    BY <1>1, <2>1, <2>2, <2>3, <2>4, OneStorageFrame
<1>4. ASSUME NEW v \in Values, ConstructOk(s, v) PROVE IInv'
  <2>1. /\ storage' = [storage EXCEPT ![s].memory = "T", ![s].target = v, ![s].handle = "moveref"]
        /\ r.handle = "call"
        /\ value' = [value EXCEPT ![v].owner = s]
        /\ value[v].owner \notin Storages
    BY <1>4, StoragesAssumption DEF ConstructOk, Innermost, Homes
  <2>2. /\ storage'[s] = [r EXCEPT !.memory = "T", !.target = v, !.handle = "moveref"]
        /\ \A x \in Storages \ {s} : storage'[x] = storage[x]
    BY <1>1, <2>1 DEF TypeOK
  <2>3. /\ r.tracker.initialized /\ ~r.tracker.released /\ r.tracker.references = 1
        /\ r.life = "live" /\ ~Pending(r)
    BY <1>1, <2>1 DEF RecordInv, Pending
  <2>4. RecordInv(storage'[s]) /\ Pending(storage'[s]) /\ storage'[s].target = v
    BY <1>1, <2>2, <2>3 DEF RecordInv, NotGone, Pending, StorageRecord
  <2>5. \A w \in Values : value'[w].owner = IF w = v THEN s ELSE value[w].owner
    BY <1>1, <2>1 DEF TypeOK, ValueRecord
  <2>6. \A x \in Storages \ {s}, w \in Values : value'[w].owner = x <=> value[w].owner = x
    BY <2>1, <2>5
  <2>7. \A w \in Values : value'[w].owner = s <=> Pending(storage'[s]) /\ storage'[s].target = w
    BY <1>1, <2>3, <2>4, <2>5
  <2> QED
    BY <2>2, <2>4, <2>6, <2>7, OneStorageFrame
<1>5. ASSUME NEW v \in Values, Put(s, v) PROVE IInv'
  <2>1. r.handle = "slot" /\ value[v].owner = "client" /\ "client" \notin Storages
    BY <1>5, StoragesAssumption DEF Put, CanUse, Homes
  <2>2. CASE /\ InitializeFails(s)
             /\ value' = [value EXCEPT ![v] = Destroyed(@, "client")]
             /\ mode' \in {AfterPanic(mode), AfterPanic(AfterPanic(mode))}
    <3>1. \A w \in Values : value'[w].owner = IF w = v THEN "gone" ELSE value[w].owner
      BY <1>1, <2>1, <2>2 DEF Destroyed, TypeOK, ValueRecord
    <3>2. \A x \in Storages, w \in Values : value'[w].owner = x <=> value[w].owner = x
      BY <2>1, <3>1, StoragesAssumption DEF Homes
    <3> QED
      BY <2>1, <2>2, <3>2, InitializeFailsInv
  <2>3. CASE InitializeHolding(s, "T", v) /\ value' = [value EXCEPT ![v].owner = s]
    BY <2>1, <2>3, InitializeHoldingInv DEF Memory
  <2> QED
    BY <1>5, <2>2, <2>3 DEF Put
<1> QED
  BY <1>2, <1>3, <1>4, <1>5 DEF ConstructStep

LEMMA EndedRecord ==
  ASSUME NEW r \in StorageRecord, NEW c \in Tracker
  PROVE  LET q == [r EXCEPT !.tracker = c, !.handle = "none"]
         IN  /\ q.tracker = c /\ q.handle = "none" /\ q.memory = r.memory
             /\ q.life = r.life /\ q.origin = r.origin /\ q.target = r.target
  BY DEF StorageRecord

\* The MoveRef of s ends with the cells c in its tracker, which leave nothing pending,
\* and its value goes home.
LEMMA MoveRefEndsInv ==
  ASSUME IInv, TypeOK', NEW s \in Storages, storage[s].handle = "moveref",
         NEW c \in Tracker, c.initialized, c.released \/ c.references = 0,
         storage' = [storage EXCEPT ![s].tracker = c, ![s].handle = "none"],
         \A w \in Values \ {storage[s].target} : value'[w].owner = value[w].owner,
         value'[storage[s].target].owner \notin Storages
  PROVE  IInv'
<1> DEFINE r == storage[s]
<1>1. /\ r \in StorageRecord /\ RecordInv(r)
      /\ \A v \in Values : value[v].owner = s <=> Pending(r) /\ r.target = v
  BY DEF IInv, OwnerInv, TypeOK
<1>2. Pending(r) /\ r.life = "live" /\ r.target \in Values /\ value[r.target].owner = s
  BY <1>1 DEF RecordInv
<1>3. /\ storage'[s] = [r EXCEPT !.tracker = c, !.handle = "none"]
      /\ \A x \in Storages \ {s} : storage'[x] = storage[x]
  BY DEF IInv, TypeOK
<1>4. /\ storage'[s].tracker = c /\ storage'[s].memory = r.memory /\ storage'[s].life = "live"
      /\ storage'[s].handle = "none" /\ storage'[s].origin = r.origin
  <2> DEFINE q == [r EXCEPT !.tracker = c, !.handle = "none"]
  <2>1. /\ q.tracker = c /\ q.handle = "none" /\ q.memory = r.memory
        /\ q.life = r.life /\ q.origin = r.origin
    BY <1>1, EndedRecord
  <2>2. storage'[s] = q
    BY <1>3
  <2> HIDE DEF q
  <2> QED
    BY <1>2, <2>1, <2>2
<1>5. r.memory # "uninit" /\ r.origin \in Origins
  BY <1>1, <1>2 DEF RecordInv, Pending
<1>6. RecordInv(storage'[s]) /\ ~Pending(storage'[s])
  BY <1>4, <1>5 DEF RecordInv, Pending
<1>7. \A v \in Values : value'[v].owner # s
  BY <1>1, <1>2
<1>8. \A x \in Storages \ {s}, v \in Values : value'[v].owner = x <=> value[v].owner = x
  BY <1>2
<1> QED
  BY <1>3, <1>6, <1>7, <1>8, OneStorageFrame

\* A MoveRef of s: what the invariant says of its tracker and its value.
LEMMA MoveRefFacts ==
  ASSUME IInv, NEW s \in Storages, storage[s].handle = "moveref"
  PROVE  LET t == storage[s].tracker
             v == storage[s].target
         IN  /\ t \in Tracker /\ t.initialized /\ ~t.released /\ t.references = 1
             /\ v \in Values /\ value[v] \in ValueRecord /\ value[v].owner = s
<1>1. /\ storage[s] \in StorageRecord /\ RecordInv(storage[s])
      /\ \A v \in Values : value[v].owner = s <=> Pending(storage[s]) /\ storage[s].target = v
  BY DEF IInv, OwnerInv, TypeOK
<1>2. Pending(storage[s])
  BY <1>1 DEF RecordInv
<1> QED
  BY <1>1, <1>2 DEF IInv, TypeOK, RecordInv, Pending, StorageRecord

LEMMA MoveRefStepInv ==
  ASSUME IInv, TypeOK', NEW s \in Storages, MoveRefStep(s)
  PROVE  IInv'
<1> DEFINE r == storage[s]
           v == r.target
<1>1. /\ r \in StorageRecord /\ RecordInv(r) /\ TypeOK
      /\ \A w \in Values : value[w].owner = s <=> Pending(r) /\ r.target = w
  BY DEF IInv, OwnerInv, TypeOK
<1>2. r.handle = "moveref"
  BY DEF MoveRefStep, MoveRefDrop, ForgetMoveRef, Release, IntoInner, ReleaseTo, HasMoveRef
<1>3. /\ r.tracker \in Tracker /\ r.tracker.initialized /\ ~r.tracker.released
      /\ r.tracker.references = 1 /\ v \in Values /\ value[v].owner = s
  BY <1>2, MoveRefFacts
<1>4. CASE MoveRefDrop(s)
  <2> DEFINE o == MoveRefDropOutcome(r.tracker)
             c == [r.tracker EXCEPT !.references = 0]
  <2>1. o.drops /\ o.cells = c
    BY <1>3, DropOfPending
  <2>2. /\ storage' = [storage EXCEPT ![s].tracker = c, ![s].handle = "none"]
        /\ value' = [value EXCEPT ![v] = Destroyed(@, s)]
    BY <1>4, <2>1 DEF MoveRefDrop
  <2>3. c \in Tracker /\ c.initialized /\ c.references = 0
    BY <1>3, UsizeMaxAssumption DEF Tracker
  <2>4. /\ \A w \in Values \ {v} : value'[w].owner = value[w].owner
        /\ value'[v].owner = "gone"
    BY <1>1, <1>3, <2>2 DEF Destroyed, TypeOK, ValueRecord
  <2>5. value'[v].owner \notin Storages
    BY <2>4, StoragesAssumption DEF Homes
  <2> HIDE DEF c, o
  <2> QED
    BY <1>2, <2>2, <2>3, <2>4, <2>5, MoveRefEndsInv
<1>5. CASE ForgetMoveRef(s)
  <2>1. storage' = [storage EXCEPT ![s].handle = "none"] /\ UNCHANGED value
    BY <1>5 DEF ForgetMoveRef
  <2>2. /\ storage'[s] = [r EXCEPT !.handle = "none"]
        /\ \A x \in Storages \ {s} : storage'[x] = storage[x]
    BY <1>1, <2>1 DEF TypeOK
  <2>3. /\ RecordInv(storage'[s])
        /\ Pending(storage'[s]) <=> Pending(r)
        /\ storage'[s].target = r.target
    BY <1>1, <2>2 DEF RecordInv, NotGone, Pending, StorageRecord
  <2> QED
    BY <1>1, <2>1, <2>2, <2>3, OneStorageFrame
<1>6. CASE Release(s) \/ IntoInner(s)
  <2> DEFINE o == ReleaseOutcome(r.tracker)
             c == [r.tracker EXCEPT !.released = TRUE]
  <2>1. ~o.drops /\ o.cells = c
    BY <1>3, DropOfReleased
  <2>2. PICK home \in {"raw", "client"} : ReleaseTo(s, home)
    BY <1>6 DEF Release, IntoInner
  <2>3. /\ storage' = [storage EXCEPT ![s].tracker = c, ![s].handle = "none"]
        /\ value' = [value EXCEPT ![v] = [@ EXCEPT !.owner = home]]
    BY <2>1, <2>2 DEF ReleaseTo, ReadOut
  <2>4. c \in Tracker /\ c.initialized /\ c.released
    BY <1>3 DEF Tracker
  <2>5. /\ \A w \in Values \ {v} : value'[w].owner = value[w].owner
        /\ value'[v].owner = home
    BY <1>1, <1>3, <2>3 DEF TypeOK, ValueRecord
  <2>6. value'[v].owner \notin Storages
    BY <2>2, <2>5, StoragesAssumption DEF Homes
  <2> HIDE DEF c, o
  <2> QED
    BY <1>2, <2>3, <2>4, <2>5, <2>6, MoveRefEndsInv
<1> QED
  BY <1>4, <1>5, <1>6 DEF MoveRefStep

\* A value moves, or is replaced, from the MoveRef of t into the constructor of s:
\* t keeps nothing pending and s now holds w, with a MoveRef unless that panicked.
LEMMA MoveNewInv ==
  ASSUME IInv, TypeOK', NEW s \in Storages, NEW t \in Storages, NEW w \in Values,
         storage[s].handle = "call", storage[t].handle = "moveref",
         NEW c \in Tracker, c.initialized, c.released \/ c.references = 0,
         NEW h \in {"none", "moveref"},
         storage' = [storage EXCEPT
                       ![t].tracker = c, ![t].handle = "none",
                       ![s].memory = "T", ![s].target = w, ![s].handle = h],
         value'[w].owner = s, value'[storage[t].target].owner # t,
         \A v \in Values \ {w} : value'[v].owner \notin Storages \/ value'[v].owner = value[v].owner,
         value[w].owner \in Storages => w = storage[t].target,
         \A v \in Values \ {w, storage[t].target} : value'[v].owner = value[v].owner
  PROVE  IInv'
<1> DEFINE r == storage[s]
           q == storage[t]
<1>1. /\ r \in StorageRecord /\ RecordInv(r) /\ q \in StorageRecord /\ RecordInv(q)
      /\ \A v \in Values : value[v].owner = s <=> Pending(r) /\ r.target = v
      /\ \A v \in Values : value[v].owner = t <=> Pending(q) /\ q.target = v
      /\ storage \in [Storages -> StorageRecord]
  BY DEF IInv, OwnerInv, TypeOK
<1>2. s # t
  OBVIOUS
<1>3. /\ r.tracker.initialized /\ ~r.tracker.released /\ r.tracker.references = 1
      /\ r.life = "live" /\ ~Pending(r) /\ r.origin \in Origins
  BY <1>1 DEF RecordInv, Pending
<1>4. Pending(q) /\ q.life = "live" /\ q.target \in Values /\ value[q.target].owner = t
      /\ q.memory # "uninit" /\ q.origin \in Origins
  BY <1>1 DEF RecordInv, Pending
<1>5. storage'[t] = [q EXCEPT !.tracker = c, !.handle = "none"]
  BY <1>1, <1>2
<1>6. storage'[s] = [r EXCEPT !.memory = "T", !.target = w, !.handle = h]
  BY <1>1, <1>2
<1>7. \A x \in Storages \ {s, t} : storage'[x] = storage[x]
  BY <1>1
<1>8. RecordInv(storage'[t]) /\ ~Pending(storage'[t])
  <2> DEFINE e == [q EXCEPT !.tracker = c, !.handle = "none"]
  <2>1. /\ e.tracker = c /\ e.handle = "none" /\ e.memory = q.memory
        /\ e.life = q.life /\ e.origin = q.origin
    BY <1>1, EndedRecord
  <2> HIDE DEF e
  <2>2. RecordInv(e) /\ ~Pending(e)
    BY <1>4, <2>1 DEF RecordInv, Pending
  <2> QED
    BY <1>5, <2>2 DEF e
<1>9. RecordInv(storage'[s]) /\ Pending(storage'[s]) /\ storage'[s].target = w
  <2> DEFINE e == [r EXCEPT !.memory = "T", !.target = w, !.handle = h]
  <2>1. /\ e.tracker = r.tracker /\ e.handle = h /\ e.memory = "T"
        /\ e.life = r.life /\ e.origin = r.origin /\ e.target = w
    BY <1>1 DEF StorageRecord
  <2> HIDE DEF e
  <2>2. RecordInv(e) /\ Pending(e) /\ e.target = w
    BY <1>3, <2>1 DEF RecordInv, NotGone, Pending
  <2> QED
    BY <1>6, <2>2 DEF e
<1>10. \A v \in Values : value'[v].owner # t
  BY <1>1, <1>2
<1>11. \A v \in Values : value'[v].owner = s <=> v = w
  BY <1>1, <1>3
<1>12. \A x \in Storages \ {s, t}, v \in Values : value'[v].owner = x <=> value[v].owner = x
  BY <1>1, <1>4, <1>2
<1>13. ASSUME NEW x \in Storages PROVE RecordInv(storage'[x])
  <2>1. CASE x \in {s, t}
    BY <1>8, <1>9, <2>1
  <2>2. CASE x \notin {s, t}
    BY <1>7, <2>2 DEF IInv
  <2> QED
    BY <2>1, <2>2
<1>14. ASSUME NEW x \in Storages, NEW v \in Values
       PROVE  value'[v].owner = x <=> Pending(storage'[x]) /\ storage'[x].target = v
  <2>1. CASE x = t
    BY <1>8, <1>10, <2>1
  <2>2. CASE x = s
    BY <1>9, <1>11, <2>2
  <2>3. CASE x \notin {s, t}
    <3>1. storage'[x] = storage[x]
      BY <1>7, <2>3
    <3>2. value'[v].owner = x <=> value[v].owner = x
      BY <1>12, <2>3
    <3>3. value[v].owner = x <=> Pending(storage[x]) /\ storage[x].target = v
      BY DEF IInv, OwnerInv
    <3> QED
      BY <3>1, <3>2, <3>3
  <2> QED
    BY <2>1, <2>2, <2>3
<1>15. OwnerInv'
  BY <1>14 DEF OwnerInv, Pending
<1>16. (\A x \in Storages : RecordInv(storage[x]))'
  BY <1>13 DEF RecordInv, Pending
<1> QED
  BY <1>15, <1>16 DEF IInv

LEMMA MoveStepInv ==
  ASSUME IInv, TypeOK', NEW s \in Storages, MoveStep(s)
  PROVE  IInv'
<1>1. TypeOK
  BY DEF IInv
<1>2. ASSUME NEW v \in Values, DerefMoveBox(s, v) \/ DerefMoveUniquePtr(s, v) PROVE IInv'
  <2>1. PICK owner \in {"box", "uniqueptr"}, h \in {"freed", "live"} : MoveOut(s, v, owner, h)
    BY <1>2 DEF DerefMoveBox, DerefMoveUniquePtr
  <2>2. storage[s].handle = "slot" /\ value[v].owner = owner /\ owner \notin Storages
    BY <2>1, StoragesAssumption DEF MoveOut, CanUse, Homes
  <2>3. CASE /\ InitializeFails(s)
             /\ mode' = AfterPanic(mode)
             /\ value' = [value EXCEPT ![v].owner = "lost", ![v].heap = h]
    <3>1. \A w \in Values : value'[w].owner = IF w = v THEN "lost" ELSE value[w].owner
      BY <1>1, <2>3 DEF TypeOK, ValueRecord
    <3>2. \A x \in Storages, w \in Values : value'[w].owner = x <=> value[w].owner = x
      BY <2>2, <3>1, StoragesAssumption DEF Homes
    <3> QED
      BY <2>2, <2>3, <3>2, InitializeFailsInv
  <2>4. CASE /\ InitializeHolding(s, owner, v)
             /\ value' = [value EXCEPT ![v].owner = s]
    BY <2>2, <2>4, InitializeHoldingInv DEF Memory
  <2> QED
    BY <2>1, <2>3, <2>4 DEF MoveOut
<1>3. ASSUME NEW t \in Storages, DerefMoveMoveRef(s, t) PROVE IInv'
  <2> DEFINE r == storage[t]
  <2>1. storage' = [storage EXCEPT ![t].handle = "none"] /\ r.handle = "slot" /\ UNCHANGED value
    BY <1>3 DEF DerefMoveMoveRef, CanUse
  <2>2. /\ storage'[t] = [r EXCEPT !.handle = "none"] /\ r \in StorageRecord /\ RecordInv(r)
        /\ \A x \in Storages \ {t} : storage'[x] = storage[x]
        /\ \A v \in Values : value[v].owner = t <=> Pending(r) /\ r.target = v
    BY <2>1 DEF IInv, TypeOK, OwnerInv
  <2>3. /\ RecordInv(storage'[t])
        /\ Pending(storage'[t]) <=> Pending(r)
        /\ storage'[t].target = r.target
    BY <2>1, <2>2 DEF RecordInv, NotGone, Pending, StorageRecord
  <2> QED
    BY <2>1, <2>2, <2>3, OneStorageFrame
<1>4. ASSUME NEW t \in Storages, MoveNewTrivial(s, t) PROVE IInv'
  <2> DEFINE o == ReleaseOutcome(storage[t].tracker)
             c == [storage[t].tracker EXCEPT !.released = TRUE]
  <2>1. storage[t].handle = "moveref" /\ storage[s].handle = "call"
    BY <1>4 DEF MoveNewTrivial, HasMoveRef, Innermost
  <2>2. storage[t].tracker \in Tracker /\ storage[t].tracker.initialized
    BY <2>1, MoveRefFacts
  <2>3. PICK v \in Values : v = storage[t].target /\ value[v].owner = t
    BY <2>1, MoveRefFacts
  <2>4. ~o.drops /\ o.cells = c
    BY <2>2, DropOfReleased
  <2>5. storage' = [storage EXCEPT
                      ![t].tracker = c, ![t].handle = "none",
                      ![s].memory = "T", ![s].target = v, ![s].handle = "moveref"]
    BY <1>4, <2>3, <2>4 DEF MoveNewTrivial
  <2>6. value' = [value EXCEPT ![v] = [@ EXCEPT !.owner = s]]
    BY <1>4, <2>3, <2>4 DEF MoveNewTrivial, ReadOut
  <2>7. c \in Tracker /\ c.initialized /\ c.released
    BY <2>2 DEF Tracker
  <2>8. /\ value'[v].owner = s
        /\ \A x \in Values \ {v} : value'[x].owner = value[x].owner
    BY <1>1, <2>6 DEF TypeOK, ValueRecord
  <2>9. /\ value'[storage[t].target].owner # t
        /\ \A x \in Values \ {v} :
              value'[x].owner \notin Storages \/ value'[x].owner = value[x].owner
        /\ value[v].owner \in Storages => v = storage[t].target
        /\ \A x \in Values \ {v, storage[t].target} : value'[x].owner = value[x].owner
    BY <2>1, <2>3, <2>8
  <2> HIDE DEF c, o
  <2> QED
    BY <2>1, <2>5, <2>7, <2>8, <2>9, MoveNewInv, ZenonT(60)
<1>5. ASSUME NEW t \in Storages, NEW w \in Values, MoveNewCxx(s, t, w) PROVE IInv'
  <2> DEFINE o == MoveRefDropOutcome(storage[t].tracker)
             c == [storage[t].tracker EXCEPT !.references = 0]
             v == storage[t].target
  <2>1. storage[t].handle = "moveref" /\ storage[s].handle = "call" /\ value[w].owner = "unborn"
    BY <1>5 DEF MoveNewCxx, HasMoveRef, Innermost
  <2>2. /\ storage[t].tracker \in Tracker /\ storage[t].tracker.initialized
        /\ ~storage[t].tracker.released /\ storage[t].tracker.references = 1
        /\ v \in Values /\ value[v].owner = t
    BY <2>1, MoveRefFacts
  <2>3. o.drops /\ o.cells = c
    BY <2>2, DropOfPending
  <2>4. value' = [value EXCEPT ![w].owner = s, ![v] = Destroyed(@, t)]
    BY <1>5, <2>3 DEF MoveNewCxx
  <2>5. c \in Tracker /\ c.initialized /\ c.references = 0
    BY <2>2, UsizeMaxAssumption DEF Tracker
  <2>6. w # v /\ "unborn" \notin Storages /\ "gone" \notin Storages
    BY <2>1, <2>2, StoragesAssumption DEF Homes
  <2>7. /\ value'[w].owner = s /\ value'[v].owner = "gone"
        /\ \A x \in Values \ {v, w} : value'[x].owner = value[x].owner
    BY <1>1, <2>2, <2>4, <2>6, SMTT(60) DEF Destroyed, TypeOK, ValueRecord
  <2>8. /\ value'[v].owner # t
        /\ \A x \in Values \ {w} :
              value'[x].owner \notin Storages \/ value'[x].owner = value[x].owner
        /\ value[w].owner \in Storages => w = storage[t].target
        /\ \A x \in Values \ {w, storage[t].target} : value'[x].owner = value[x].owner
    BY <2>1, <2>6, <2>7
  <2>9. PICK h \in {"none", "moveref"} :
            storage' = [storage EXCEPT
                          ![t].tracker = c, ![t].handle = "none",
                          ![s].memory = "T", ![s].target = w, ![s].handle = h]
    BY <1>5, <2>3 DEF MoveNewCxx
  <2>10. /\ value'[w].owner = s /\ value'[storage[t].target].owner # t
         /\ storage[t].handle = "moveref" /\ storage[s].handle = "call"
    BY <2>1, <2>7, <2>8
  <2>11. c.released \/ c.references = 0
    BY <2>5
  <2> HIDE DEF c, o, v
  <2> QED
    BY <2>5, <2>8, <2>9, <2>10, <2>11, MoveNewInv, ZenonT(60)
<1> QED
  BY <1>2, <1>3, <1>4, <1>5 DEF MoveStep

LEMMA ClientStepInv ==
  ASSUME IInv, TypeOK', ClientStep
  PROVE  IInv'
<1>1. CASE ClientPanic \/ CatchUnwind
  BY <1>1, NoStorageFrame DEF ClientPanic, CatchUnwind
<1>2. ASSUME NEW v \in Values, ClientDrop(v) PROVE IInv'
  <2>1. /\ UNCHANGED storage
        /\ value' = [value EXCEPT ![v] = DroppedByClient(@)]
        /\ value[v].owner \notin Storages
    BY <1>2, StoragesAssumption DEF ClientDrop, Homes
  <2>2. DroppedByClient(value[v]).owner = "gone"
    BY DEF DroppedByClient, Destroyed, IInv, TypeOK, ValueRecord
  <2>3. \A w \in Values : value'[w].owner = IF w = v THEN "gone" ELSE value[w].owner
    BY <2>1, <2>2 DEF IInv, TypeOK
  <2>4. \A x \in Storages, w \in Values : value'[w].owner = x <=> value[w].owner = x
    BY <2>1, <2>3, StoragesAssumption DEF Homes
  <2> QED
    BY <2>1, <2>4, NoStorageFrame
<1> QED
  BY <1>1, <1>2 DEF ClientStep

\* The invariant: every tracker accounts for exactly the value its storage owns.
THEOREM Inductive ==
  ASSUME ReuseRefused
  PROVE  Spec => []IInv
<1>1. Init => IInv
  BY InitInv
<1>2. IInv /\ TypeOK' /\ [Next]_vars => IInv'
  <2> SUFFICES ASSUME IInv, TypeOK', [Next]_vars PROVE IInv'
    OBVIOUS
  <2>1. ASSUME NEW s \in Storages, StorageStep(s) PROVE IInv'
    BY <2>1, StorageStepInv
  <2>2. ASSUME NEW s \in Storages, ConstructStep(s) PROVE IInv'
    BY <2>2, ConstructStepInv
  <2>3. ASSUME NEW s \in Storages, MoveRefStep(s) PROVE IInv'
    BY <2>3, MoveRefStepInv
  <2>4. ASSUME NEW s \in Storages, MoveStep(s) PROVE IInv'
    BY <2>4, MoveStepInv
  <2>5. CASE ClientStep
    BY <2>5, ClientStepInv
  <2>6. CASE UNCHANGED vars
    BY <2>6, NoStorageFrame DEF vars
  <2> QED
    BY <2>1, <2>2, <2>3, <2>4, <2>5, <2>6 DEF Next
<1> QED
  BY <1>1, <1>2, TypeCorrect, PTL DEF Spec

\* The drop guarantee for every number of storages and values: no scope ends around
\* a value that its storage owns.
THEOREM DropGuaranteeHolds ==
  ASSUME ReuseRefused, ~CfgTest
  PROVE  Spec => []DropGuarantee
<1>1. IInv => DropGuarantee
  BY DEF IInv, OwnerInv, RecordInv, NotGone, DropGuarantee, HoldsValue
<1> QED
  BY <1>1, Inductive, PTL

\* The invariant makes the leak check exact.
LEMMA InvLeakCheck == IInv => LeakCheckExact
<1> SUFFICES ASSUME IInv, NEW s \in Storages,
                    storage[s].life = "live", storage[s].handle = "none"
             PROVE  IsLeaking(storage[s].tracker) <=> HoldsValue(s) \/ FailedConstruction(s)
  BY DEF LeakCheckExact, LeakCheckExactFor
<1>1. RecordInv(storage[s])
  BY DEF IInv
<1>2. IsLeaking(storage[s].tracker) <=> Pending(storage[s]) \/ FailedConstruction(s)
  BY <1>1 DEF IsLeaking, ReferencesAreZeroed, Pending, FailedConstruction, RecordInv
<1>3. Pending(storage[s]) <=> HoldsValue(s)
  BY <1>1 DEF IInv, OwnerInv, HoldsValue, RecordInv
<1> QED
  BY <1>2, <1>3

\* The leak check is exact for every number of storages and values: a storage that
\* can be dropped is leaking exactly if it owns a value or its constructor failed.
THEOREM LeakCheckHolds ==
  ASSUME ReuseRefused
  PROVE  Spec => []LeakCheckExact
  BY InvLeakCheck, Inductive, PTL

=============================================================================
