------------------------- MODULE CxxMemorySoundness -------------------------
(***************************************************************************)
(* Proofs about the values of CxxMemory, for every value of the constants: *)
(* MoveRefs point to live values, values are destroyed once and blocks     *)
(* freed when they should be, and the operations implement PinnedSlots.    *)
(* The argument: with the invariant of CxxMemoryProofs, each of the many   *)
(* operations has one of a few effects, and the rest is about effects.     *)
(***************************************************************************)
EXTENDS CxxMemoryProofs

-----------------------------------------------------------------------------
(* Effects. *)

\* let_cxx! runs constructors in a Keep storage only.
FitsCall(r) == r.origin = "let_cxx" => r.kind = "Keep"

\* A storage that is r before the step and q after it, and neither begins, is filled, nor ends.
Same(r, q) ==
    /\ q.life = r.life /\ q.kind = r.kind /\ q.origin = r.origin /\ q.memory = r.memory
    /\ r.memory # "uninit" => q.target = r.target
    /\ q.handle = "call" => r.handle = "call" \/ FitsCall(r)
    /\ q.handle = "slot" =>
          r.origin = "SlotStorage" \/ (r.handle = "slot" /\ q.tracker = r.tracker)

AllSame    == \A x \in Storages : Same(storage[x], storage'[x])
SameBut(s) == \A x \in Storages \ {s} : Same(storage[x], storage'[x])

Quiet == AllSame /\ UNCHANGED value

Born(s) ==
    /\ SameBut(s)
    /\ storage[s].life = "unborn"
    /\ storage'[s].life = "live" /\ storage'[s].memory = "uninit"
    /\ storage'[s].tracker = NewTracker /\ storage'[s].handle # "call"
    /\ UNCHANGED <<value, mode>>

\* The memory of s now holds m, with v behind it; a panic may have taken the MoveRef.
Filled(s, m, v) ==
    /\ SameBut(s)
    /\ storage[s].life = "live" /\ storage[s].memory = "uninit"
    /\ IF storage[s].handle = "call"
       THEN m = "T"
       ELSE Fits(s, IF m = "T" THEN "emplace" ELSE "deref_move")
    /\ storage'[s].life = "live" /\ storage'[s].kind = storage[s].kind
    /\ storage'[s].origin = storage[s].origin
    /\ storage'[s].memory = m /\ storage'[s].target = v
    /\ storage'[s].handle \in {"moveref", "none"}
    /\ mode' # "aborted"

Placed(s, m, v) ==
    /\ Filled(s, m, v)
    /\ value[v].owner \in IF m = "T" THEN {"unborn", "client"} \cup Storages ELSE {m}
    /\ m \in {"T", "box", "uniqueptr"}
    /\ value' = [value EXCEPT ![v].owner = s]

\* A C++ move construction of w from v.
Replaced(s, v, w) ==
    /\ Filled(s, "T", w)
    /\ w # v /\ value[w].owner = "unborn" /\ value[v].owner \in Storages
    /\ value' = [value EXCEPT ![w].owner = s, ![v] = Destroyed(@, value[v].owner)]

TakenOut(v) ==
    /\ AllSame
    /\ value[v].owner \in Storages
    /\ \E home \in {"raw", "client"} : value' = [value EXCEPT ![v].owner = home]
    /\ UNCHANGED mode

\* v is destroyed by its owner; a Box or UniquePtr may free its block.
Gone(v) ==
    /\ AllSame
    /\ value[v].owner \in Storages \cup {"client", "box", "uniqueptr"}
    /\ \E h \in {"none", "live", "freed"} :
          /\ value[v].owner \notin {"box", "uniqueptr"} => h = value[v].heap
          /\ value' = [value EXCEPT ![v] = [Destroyed(@, value[v].owner) EXCEPT !.heap = h]]

Lost(v) ==
    /\ AllSame
    /\ value[v].owner \in {"box", "uniqueptr"}
    /\ \E h \in {"live", "freed"} :
          value' = [value EXCEPT ![v].owner = "lost", ![v].heap = h]

\* The scope of s ends, and s owns nothing.
Closed(s) ==
    LET r == storage[s]
    IN  /\ SameBut(s)
        /\ r.life = "live" /\ \A v \in Values : value[v].owner # s
        /\ storage'[s] = [r EXCEPT !.life = "dropped"] /\ r.handle = "none"
        /\ value' = IF r.kind = "Drop" /\ r.memory = "T"
                    THEN [value EXCEPT ![r.target] = Destroyed(@, s)]
                    ELSE IF r.kind = "Drop" /\ r.memory = "box"
                    THEN [value EXCEPT ![r.target].heap = "freed"]
                    ELSE value

Effect ==
    \/ Quiet
    \/ \E s \in Storages : Born(s) \/ Closed(s)
    \/ \E v \in Values : TakenOut(v) \/ Gone(v) \/ Lost(v)
    \/ \E s \in Storages, m \in Memory, v \in Values : Placed(s, m, v)
    \/ \E s \in Storages, v \in Values, w \in Values : Replaced(s, v, w)

\* What the invariant says of one storage.
LEMMA StorageFacts ==
  ASSUME IInv, NEW s \in Storages
  PROVE  /\ storage[s] \in StorageRecord /\ RecordInv(storage[s])
         /\ storage[s].tracker \in Tracker
         /\ \A v \in Values :
               value[v].owner = s <=> Pending(storage[s]) /\ storage[s].target = v
  BY DEF IInv, OwnerInv, TypeOK, StorageRecord

\* A step that changes only handle and tracker of s, and leaves no slot or call there.
LEMMA HandleEnds ==
  ASSUME IInv, NEW s \in Storages, NEW c \in Tracker,
         storage' = [storage EXCEPT ![s].tracker = c, ![s].handle = "none"]
  PROVE  AllSame
<1>1. storage \in [Storages -> StorageRecord]
  BY DEF IInv, TypeOK
<1>2. storage'[s] = [storage[s] EXCEPT !.tracker = c, !.handle = "none"]
  BY <1>1
<1>3. Same(storage[s], storage'[s])
  BY <1>1, <1>2 DEF Same, StorageRecord
<1>4. \A x \in Storages \ {s} : storage'[x] = storage[x]
  BY <1>1
<1> QED
  BY <1>3, <1>4 DEF AllSame, Same

\* Storages that a step leaves alone are the same.
LEMMA SameRefl ==
  ASSUME NEW r PROVE Same(r, r)
  BY DEF Same

LEMMA StorageEffects ==
  ASSUME IInv, ~CfgTest, NEW s \in Storages, StorageStep(s)
  PROVE  Effect
<1> DEFINE r == storage[s]
<1>1. /\ storage \in [Storages -> StorageRecord] /\ r \in StorageRecord /\ RecordInv(r)
      /\ r.tracker \in Tracker
      /\ \A v \in Values : value[v].owner = s <=> Pending(r) /\ r.target = v
  BY StorageFacts DEF IInv, TypeOK
<1>2. ASSUME NEW k \in Kinds, NEW o \in AllOrigins, NEW h \in {"none", "slot"},
             r.life = "unborn", storage' = [storage EXCEPT ![s] = NewStorage(k, o, h)],
             UNCHANGED <<value, mode>>
      PROVE  Effect
  <2>1. SameBut(s)
    BY <1>1, <1>2, SameRefl DEF SameBut
  <2>2. storage'[s] = NewStorage(k, o, h)
    BY <1>1, <1>2
  <2>3. Born(s)
    BY <1>2, <2>1, <2>2 DEF Born, NewStorage
  <2> QED
    BY <2>3 DEF Effect
<1>3. ASSUME NEW k \in Kinds, SlotStorageNew(s, k) PROVE Effect
  BY <1>2, <1>3 DEF SlotStorageNew, AllOrigins
<1>4. ASSUME NEW k \in Kinds, NEW o \in AllOrigins, LetCxxSlot(s, k, o) PROVE Effect
  BY <1>2, <1>4 DEF LetCxxSlot
<1>5. CASE SlotStorageSlot(s) \/ DropSlot(s)
  <2>1. PICK h \in {"none", "slot"} :
            /\ storage' = [storage EXCEPT ![s].handle = h] /\ UNCHANGED value
            /\ h = "slot" => r.origin = "SlotStorage"
    BY <1>5 DEF SlotStorageSlot, DropSlot
  <2>2. storage'[s] = [r EXCEPT !.handle = h] /\ \A x \in Storages \ {s} : storage'[x] = storage[x]
    BY <1>1, <2>1
  <2>3. Same(r, storage'[s])
    BY <1>1, <2>1, <2>2 DEF Same, StorageRecord
  <2>4. Quiet
    BY <2>1, <2>2, <2>3, SameRefl DEF Quiet, AllSame
  <2> QED
    BY <2>4 DEF Effect
<1>6. CASE DropLeaking(s)
  <2>1. storage' = [storage EXCEPT ![s].life = "live"] /\ r.life = "live" /\ UNCHANGED value
    BY <1>6 DEF DropLeaking, DoublePanic, MayDrop
  <2>2. storage' = storage
    BY <1>1, <2>1 DEF StorageRecord
  <2> QED
    BY <2>1, <2>2, SameRefl DEF Effect, Quiet, AllSame
<1>7. CASE DropUninitialized(s) \/ DropKeep(s) \/ DropInPlace(s)
  <2>1. /\ storage' = [storage EXCEPT ![s].life = "dropped"]
        /\ r.life = "live" /\ r.handle = "none"
        /\ IsUninitialized(r.tracker) \/ ~IsLeaking(r.tracker)
    BY <1>7 DEF DropUninitialized, DropKeep, DropInPlace, DropSound, MayDrop
  <2>2. /\ storage'[s] = [r EXCEPT !.life = "dropped"]
        /\ \A x \in Storages \ {s} : storage'[x] = storage[x]
    BY <1>1, <2>1
  <2>3. ~Pending(r)
    BY <2>1 DEF Pending, IsUninitialized, IsLeaking, ReferencesAreZeroed
  <2>4. DropUninitialized(s) => r.memory = "uninit"
    BY <1>1 DEF DropUninitialized, IsUninitialized, RecordInv
  <2>5. value' = IF r.kind = "Drop" /\ r.memory = "T"
                 THEN [value EXCEPT ![r.target] = Destroyed(@, s)]
                 ELSE IF r.kind = "Drop" /\ r.memory = "box"
                 THEN [value EXCEPT ![r.target].heap = "freed"]
                 ELSE value
    BY <1>7, <2>4 DEF DropUninitialized, DropKeep, DropInPlace, DropsMemory
  <2>6. SameBut(s)
    BY <2>2, SameRefl DEF SameBut
  <2>7. Closed(s)
    BY <1>1, <2>1, <2>2, <2>3, <2>5, <2>6 DEF Closed
  <2> QED
    BY <2>7 DEF Effect
<1> QED
  BY <1>3, <1>4, <1>5, <1>6, <1>7 DEF StorageStep, StorageDrop

\* A refused initialize() leaves the storage without its slot.
LEMMA RefusedEffect ==
  ASSUME IInv, NEW s \in Storages, storage[s].handle = "slot", InitializeFails(s)
  PROVE  AllSame
<1>1. Initialize(storage[s].tracker).cells = storage[s].tracker
  BY InitializeOnSlot DEF InitializeFails
<1>2. storage' = [storage EXCEPT ![s].tracker = storage[s].tracker, ![s].handle = "none"]
  BY <1>1 DEF InitializeFails
<1> QED
  BY <1>2, StorageFacts, HandleEnds

\* An accepted one fills the memory.
LEMMA HoldingEffect ==
  ASSUME IInv, NEW s \in Storages, NEW m \in {"T", "box", "uniqueptr"}, NEW v \in Values,
         CanUse(s, IF m = "T" THEN "emplace" ELSE "deref_move"), InitializeHolding(s, m, v)
  PROVE  Filled(s, m, v)
<1> DEFINE r == storage[s]
           i == Initialize(r.tracker)
<1>1. r.handle = "slot" /\ Fits(s, IF m = "T" THEN "emplace" ELSE "deref_move")
  BY DEF CanUse
<1>2. ~r.tracker.initialized /\ r \in StorageRecord /\ RecordInv(r)
  BY <1>1, InitializeOnSlot, StorageFacts DEF InitializeHolding
<1>3. r.memory = "uninit" /\ r.life = "live"
  BY <1>1, <1>2 DEF RecordInv
<1>4. /\ storage' = [storage EXCEPT ![s].tracker = i.cells, ![s].memory = m,
                                    ![s].target = v, ![s].handle = "moveref"]
      /\ mode' # "aborted"
  BY DEF InitializeHolding, CanUse
<1> HIDE DEF i
<1>5. /\ storage'[s] = [r EXCEPT !.tracker = i.cells, !.memory = m, !.target = v,
                                 !.handle = "moveref"]
      /\ \A x \in Storages \ {s} : storage'[x] = storage[x]
  BY <1>4 DEF IInv, TypeOK
<1>6. SameBut(s)
  BY <1>5, SameRefl DEF SameBut
<1>7. /\ storage'[s].life = r.life /\ storage'[s].kind = r.kind
      /\ storage'[s].origin = r.origin
      /\ storage'[s].memory = m /\ storage'[s].target = v /\ storage'[s].handle = "moveref"
  BY <1>2, <1>5 DEF StorageRecord
<1> QED
  BY <1>1, <1>3, <1>4, <1>6, <1>7 DEF Filled

LEMMA ConstructEffects ==
  ASSUME IInv, NEW s \in Storages, ConstructStep(s)
  PROVE  Effect
<1> DEFINE r == storage[s]
<1>1. /\ storage \in [Storages -> StorageRecord] /\ r \in StorageRecord /\ RecordInv(r)
      /\ r.tracker \in Tracker /\ value \in [Values -> ValueRecord]
  BY StorageFacts DEF IInv, TypeOK
<1>2. CASE TryEmplace(s)
  <2>1. r.handle = "slot" /\ Fits(s, "emplace") /\ UNCHANGED value
    BY <1>2 DEF TryEmplace, CanUse
  <2>2. CASE InitializeFails(s)
    BY <2>1, <2>2, RefusedEffect DEF Effect, Quiet
  <2>3. CASE ~InitializeFails(s)
    <3> DEFINE i == Initialize(r.tracker)
    <3>1. ~r.tracker.initialized
      BY <1>2, <2>1, <2>3, InitializeOnSlot DEF TryEmplace
    <3>2. storage' = [storage EXCEPT ![s].tracker = i.cells, ![s].handle = "call"]
      BY <1>2, <2>3 DEF TryEmplace
    <3> HIDE DEF i
    <3>3. /\ storage'[s] = [r EXCEPT !.tracker = i.cells, !.handle = "call"]
          /\ \A x \in Storages \ {s} : storage'[x] = storage[x]
      BY <1>1, <3>2
    <3>4. FitsCall(r)
      BY <1>1, <2>1 DEF Fits, FitsCall, StorageRecord, Kinds
    <3>5. Same(r, storage'[s])
      BY <1>1, <3>3, <3>4 DEF Same, StorageRecord
    <3> QED
      BY <2>1, <3>3, <3>5, SameRefl DEF Effect, Quiet, AllSame
  <2> QED
    BY <2>2, <2>3
<1>3. CASE ConstructFails(s)
  <2>1. /\ storage' = [storage EXCEPT ![s].memory = "uninit", ![s].target = None,
                                      ![s].handle = "none"]
        /\ r.handle = "call" /\ UNCHANGED value
    BY <1>3 DEF ConstructFails, Innermost
  <2>2. /\ storage'[s] = [r EXCEPT !.memory = "uninit", !.target = None, !.handle = "none"]
        /\ \A x \in Storages \ {s} : storage'[x] = storage[x]
    BY <1>1, <2>1
  <2>3. r.memory = "uninit"
    BY <1>1, <2>1 DEF RecordInv
  <2>4. Same(r, storage'[s])
    BY <1>1, <2>2, <2>3 DEF Same, StorageRecord
  <2> QED
    BY <2>1, <2>2, <2>4, SameRefl DEF Effect, Quiet, AllSame
<1>4. ASSUME NEW v \in Values, ConstructOk(s, v) PROVE Effect
  <2>1. /\ storage' = [storage EXCEPT ![s].memory = "T", ![s].target = v, ![s].handle = "moveref"]
        /\ r.handle = "call" /\ value[v].owner = "unborn"
        /\ value' = [value EXCEPT ![v].owner = s] /\ mode' # "aborted"
    BY <1>4 DEF ConstructOk, Innermost
  <2>2. /\ storage'[s] = [r EXCEPT !.memory = "T", !.target = v, !.handle = "moveref"]
        /\ \A x \in Storages \ {s} : storage'[x] = storage[x]
    BY <1>1, <2>1
  <2>3. r.memory = "uninit" /\ r.life = "live"
    BY <1>1, <2>1 DEF RecordInv
  <2>4. SameBut(s)
    BY <2>2, SameRefl DEF SameBut
  <2>5. Filled(s, "T", v)
    BY <1>1, <2>1, <2>2, <2>3, <2>4 DEF Filled, StorageRecord
  <2>6. Placed(s, "T", v)
    BY <2>1, <2>5 DEF Placed
  <2> QED
    BY <2>6 DEF Effect, Memory
<1>5. ASSUME NEW v \in Values, Put(s, v) PROVE Effect
  <2>1. r.handle = "slot" /\ CanUse(s, "emplace") /\ value[v].owner = "client"
    BY <1>5 DEF Put, CanUse
  <2>2. CASE /\ InitializeFails(s)
             /\ value' = [value EXCEPT ![v] = Destroyed(@, "client")]
             /\ mode' \in {AfterPanic(mode), AfterPanic(AfterPanic(mode))}
    <3>1. AllSame
      BY <2>1, <2>2, RefusedEffect
    <3> DEFINE d == Destroyed(value[v], "client")
    <3>2. value[v].heap \in {"none", "live", "freed"} /\ d = [d EXCEPT !.heap = value[v].heap]
      BY <1>1 DEF Destroyed, ValueRecord
    <3>3. value' = [value EXCEPT ![v] = d]
      BY <2>2
    <3>4. Gone(v)
      BY <2>1, <3>1, <3>2, <3>3 DEF Gone
    <3> QED
      BY <3>4 DEF Effect
  <2>3. CASE InitializeHolding(s, "T", v) /\ value' = [value EXCEPT ![v].owner = s]
    <3>1. Filled(s, "T", v)
      BY <2>1, <2>3, HoldingEffect
    <3>2. Placed(s, "T", v)
      BY <2>1, <2>3, <3>1 DEF Placed
    <3> QED
      BY <3>2 DEF Effect, Memory
  <2> QED
    BY <1>5, <2>2, <2>3 DEF Put
<1> QED
  BY <1>2, <1>3, <1>4, <1>5 DEF ConstructStep

LEMMA MoveRefEffects ==
  ASSUME IInv, NEW s \in Storages, MoveRefStep(s)
  PROVE  Effect
<1> DEFINE r == storage[s]
           v == r.target
<1>1. r.handle = "moveref"
  BY DEF MoveRefStep, MoveRefDrop, ForgetMoveRef, Release, IntoInner, ReleaseTo, HasMoveRef
<1>2. /\ r.tracker \in Tracker /\ ~r.tracker.released /\ r.tracker.references = 1
      /\ v \in Values /\ value[v] \in ValueRecord /\ value[v].owner = s
      /\ storage \in [Storages -> StorageRecord] /\ r \in StorageRecord
  BY <1>1, MoveRefFacts, StorageFacts DEF IInv, TypeOK
<1>3. CASE MoveRefDrop(s)
  <2> DEFINE o == MoveRefDropOutcome(r.tracker)
             c == [r.tracker EXCEPT !.references = 0]
             d == Destroyed(value[v], s)
  <2>1. o.drops /\ o.cells = c /\ c \in Tracker
    BY <1>2, DropOfPending, UsizeMaxAssumption DEF Tracker
  <2>2. /\ storage' = [storage EXCEPT ![s].tracker = c, ![s].handle = "none"]
        /\ value' = [value EXCEPT ![v] = d]
    BY <1>3, <2>1 DEF MoveRefDrop
  <2>3. AllSame
    <3> HIDE DEF c
    <3> QED
      BY <2>1, <2>2, HandleEnds
  <2>4. value[v].heap \in {"none", "live", "freed"} /\ d = [d EXCEPT !.heap = value[v].heap]
    BY <1>2 DEF Destroyed, ValueRecord
  <2>5. Gone(v)
    BY <1>2, <2>2, <2>3, <2>4 DEF Gone
  <2> QED
    BY <1>2, <2>5 DEF Effect
<1>4. CASE ForgetMoveRef(s)
  <2>1. storage' = [storage EXCEPT ![s].handle = "none"] /\ UNCHANGED value
    BY <1>4 DEF ForgetMoveRef
  <2>2. storage' = [storage EXCEPT ![s].tracker = r.tracker, ![s].handle = "none"]
    BY <1>2, <2>1 DEF StorageRecord
  <2> QED
    BY <1>2, <2>1, <2>2, HandleEnds DEF Effect, Quiet
<1>5. CASE Release(s) \/ IntoInner(s)
  <2> DEFINE o == ReleaseOutcome(r.tracker)
             c == [r.tracker EXCEPT !.released = TRUE]
  <2>1. ~o.drops /\ o.cells = c /\ c \in Tracker
    BY <1>2, DropOfReleased DEF Tracker
  <2>2. PICK home \in {"raw", "client"} : ReleaseTo(s, home)
    BY <1>5 DEF Release, IntoInner
  <2>3. /\ storage' = [storage EXCEPT ![s].tracker = c, ![s].handle = "none"]
        /\ value' = [value EXCEPT ![v].owner = home]
        /\ UNCHANGED mode
    BY <2>1, <2>2 DEF ReleaseTo, ReadOut
  <2>4. AllSame
    <3> HIDE DEF c
    <3> QED
      BY <2>1, <2>3, HandleEnds
  <2>5. TakenOut(v)
    BY <1>2, <2>3, <2>4 DEF TakenOut
  <2> QED
    BY <1>2, <2>5 DEF Effect
<1> QED
  BY <1>3, <1>4, <1>5 DEF MoveRefStep

\* The constructor of s fills it from the MoveRef of t, which ends, perhaps in a panic.
LEMMA MoveNewEffect ==
  ASSUME IInv, NEW s \in Storages, NEW t \in Storages, NEW w \in Values, NEW c \in Tracker,
         NEW h \in {"none", "moveref"},
         storage[s].handle = "call", storage[t].handle = "moveref", mode' # "aborted",
         storage' = [storage EXCEPT
                       ![t].tracker = c, ![t].handle = "none",
                       ![s].memory = "T", ![s].target = w, ![s].handle = h]
  PROVE  Filled(s, "T", w)
<1> DEFINE r == storage[s]
           q == storage[t]
<1>1. /\ storage \in [Storages -> StorageRecord] /\ r \in StorageRecord /\ RecordInv(r)
      /\ q \in StorageRecord
  BY StorageFacts DEF IInv, TypeOK
<1>2. storage'[t] = [q EXCEPT !.tracker = c, !.handle = "none"]
  BY <1>1
<1>3. storage'[s] = [r EXCEPT !.memory = "T", !.target = w, !.handle = h]
  BY <1>1
<1>4. \A x \in Storages \ {s, t} : storage'[x] = storage[x]
  BY <1>1
<1>5. Same(q, storage'[t])
  BY <1>1, <1>2 DEF Same, StorageRecord
<1>6. SameBut(s)
  BY <1>4, <1>5, SameRefl DEF SameBut
<1>7. r.memory = "uninit" /\ r.life = "live"
  BY <1>1 DEF RecordInv
<1> QED
  BY <1>1, <1>3, <1>6, <1>7 DEF Filled, StorageRecord

LEMMA MoveEffects ==
  ASSUME IInv, NEW s \in Storages, MoveStep(s)
  PROVE  Effect
<1>1. storage \in [Storages -> StorageRecord] /\ value \in [Values -> ValueRecord]
  BY DEF IInv, TypeOK
<1>2. ASSUME NEW v \in Values, DerefMoveBox(s, v) \/ DerefMoveUniquePtr(s, v) PROVE Effect
  <2>1. PICK owner \in {"box", "uniqueptr"}, h \in {"freed", "live"} : MoveOut(s, v, owner, h)
    BY <1>2 DEF DerefMoveBox, DerefMoveUniquePtr
  <2>2. CanUse(s, "deref_move") /\ storage[s].handle = "slot" /\ value[v].owner = owner
    BY <2>1 DEF MoveOut, CanUse
  <2>3. CASE /\ InitializeFails(s)
             /\ mode' = AfterPanic(mode)
             /\ value' = [value EXCEPT ![v].owner = "lost", ![v].heap = h]
    <3>1. Lost(v)
      BY <2>2, <2>3, RefusedEffect DEF Lost
    <3> QED
      BY <3>1 DEF Effect
  <2>4. CASE InitializeHolding(s, owner, v) /\ value' = [value EXCEPT ![v].owner = s]
    <3>1. Filled(s, owner, v)
      BY <2>2, <2>4, HoldingEffect
    <3>2. Placed(s, owner, v)
      BY <2>2, <2>4, <3>1 DEF Placed
    <3> QED
      BY <3>2 DEF Effect, Memory
  <2> QED
    BY <2>1, <2>3, <2>4 DEF MoveOut
<1>3. ASSUME NEW t \in Storages, DerefMoveMoveRef(s, t) PROVE Effect
  <2>1. storage' = [storage EXCEPT ![t].handle = "none"] /\ UNCHANGED value
    BY <1>3 DEF DerefMoveMoveRef
  <2>2. storage[t].tracker \in Tracker
    BY <1>1 DEF StorageRecord
  <2>3. storage' = [storage EXCEPT ![t].tracker = storage[t].tracker, ![t].handle = "none"]
    BY <1>1, <2>1 DEF StorageRecord
  <2> QED
    BY <2>1, <2>2, <2>3, HandleEnds DEF Effect, Quiet
<1>4. ASSUME NEW t \in Storages, MoveNewTrivial(s, t) PROVE Effect
  <2> DEFINE o == ReleaseOutcome(storage[t].tracker)
             c == [storage[t].tracker EXCEPT !.released = TRUE]
             v == storage[t].target
  <2>1. storage[t].handle = "moveref" /\ storage[s].handle = "call" /\ mode' # "aborted"
    BY <1>4 DEF MoveNewTrivial, HasMoveRef, Innermost
  <2>2. storage[t].tracker \in Tracker /\ v \in Values /\ value[v].owner = t
    BY <2>1, MoveRefFacts
  <2>3. ~o.drops /\ o.cells = c /\ c \in Tracker
    BY <2>2, DropOfReleased DEF Tracker
  <2>4. /\ storage' = [storage EXCEPT
                         ![t].tracker = c, ![t].handle = "none",
                         ![s].memory = "T", ![s].target = v, ![s].handle = "moveref"]
        /\ value' = [value EXCEPT ![v].owner = s]
    BY <1>4, <2>3 DEF MoveNewTrivial, ReadOut
  <2>5. Filled(s, "T", v)
    <3> HIDE DEF c
    <3> QED
      BY <2>1, <2>2, <2>3, <2>4, MoveNewEffect
  <2>6. Placed(s, "T", v)
    BY <2>2, <2>4, <2>5 DEF Placed
  <2> QED
    BY <2>2, <2>6 DEF Effect, Memory
<1>5. ASSUME NEW t \in Storages, NEW w \in Values, MoveNewCxx(s, t, w) PROVE Effect
  <2> DEFINE o == MoveRefDropOutcome(storage[t].tracker)
             c == [storage[t].tracker EXCEPT !.references = 0]
             v == storage[t].target
  <2>1. /\ storage[t].handle = "moveref" /\ storage[s].handle = "call" /\ mode' # "aborted"
        /\ value[w].owner = "unborn"
    BY <1>5 DEF MoveNewCxx, HasMoveRef, Innermost, AfterPanic
  <2>2. /\ storage[t].tracker \in Tracker /\ ~storage[t].tracker.released
        /\ storage[t].tracker.references = 1
        /\ v \in Values /\ value[v].owner = t
    BY <2>1, MoveRefFacts
  <2>3. o.drops /\ o.cells = c /\ c \in Tracker
    BY <2>2, DropOfPending, UsizeMaxAssumption DEF Tracker
  <2>4. value' = [value EXCEPT ![w].owner = s, ![v] = Destroyed(@, t)]
    BY <1>5, <2>3 DEF MoveNewCxx
  <2>5. Filled(s, "T", w)
    <3>1. PICK h \in {"none", "moveref"} :
              storage' = [storage EXCEPT
                            ![t].tracker = c, ![t].handle = "none",
                            ![s].memory = "T", ![s].target = w, ![s].handle = h]
      BY <1>5, <2>3 DEF MoveNewCxx
    <3> HIDE DEF c
    <3> QED
      BY <2>1, <2>3, <3>1, MoveNewEffect
  <2>6. w # v
    BY <2>1, <2>2, StoragesAssumption DEF Homes
  <2>7. Replaced(s, v, w)
    BY <2>1, <2>2, <2>4, <2>5, <2>6 DEF Replaced
  <2> QED
    BY <2>2, <2>7 DEF Effect
<1> QED
  BY <1>2, <1>3, <1>4, <1>5 DEF MoveStep

LEMMA ClientEffects ==
  ASSUME IInv, ClientStep
  PROVE  Effect
<1>1. CASE ClientPanic \/ CatchUnwind
  BY <1>1, SameRefl DEF ClientPanic, CatchUnwind, Effect, Quiet, AllSame
<1>2. ASSUME NEW v \in Values, ClientDrop(v) PROVE Effect
  <2> DEFINE r == value[v]
             h == IF r.owner = "client" THEN r.heap ELSE "freed"
  <2>1. r.owner \in {"client", "box", "uniqueptr"} /\ UNCHANGED storage
    BY <1>2 DEF ClientDrop
  <2>2. h \in {"none", "live", "freed"} /\ (r.owner \notin {"box", "uniqueptr"} => h = r.heap)
    BY <2>1 DEF IInv, TypeOK, ValueRecord
  <2>3. value' = [value EXCEPT ![v] = [Destroyed(@, r.owner) EXCEPT !.heap = h]]
    BY <1>2 DEF ClientDrop, DroppedByClient
  <2>4. AllSame
    BY <2>1, SameRefl DEF AllSame
  <2> HIDE DEF h
  <2>5. Gone(v)
    BY <2>1, <2>2, <2>3, <2>4 DEF Gone
  <2> QED
    BY <2>5 DEF Effect
<1> QED
  BY <1>1, <1>2 DEF ClientStep

\* Every step has one of the effects, and is taken by a process that is alive.
LEMMA NextEffects ==
  ASSUME IInv, ~CfgTest, Next
  PROVE  Effect /\ Live
<1>1. ASSUME NEW s \in Storages, StorageStep(s) PROVE Effect /\ Live
  BY <1>1, StorageEffects
  DEF StorageStep, SlotStorageNew, LetCxxSlot, SlotStorageSlot, DropSlot, StorageDrop,
      DropUninitialized, DropLeaking, DropKeep, DropInPlace, DropSound, MayDrop, Live
<1>2. ASSUME NEW s \in Storages, ConstructStep(s) PROVE Effect /\ Live
  BY <1>2, ConstructEffects
  DEF ConstructStep, TryEmplace, Put, CanUse, ConstructOk, ConstructFails, Live
<1>3. ASSUME NEW s \in Storages, MoveRefStep(s) PROVE Effect /\ Live
  BY <1>3, MoveRefEffects
  DEF MoveRefStep, MoveRefDrop, ForgetMoveRef, Release, IntoInner, ReleaseTo, HasMoveRef
<1>4. ASSUME NEW s \in Storages, MoveStep(s) PROVE Effect /\ Live
  <2>1. ASSUME NEW v \in Values, DerefMoveBox(s, v) \/ DerefMoveUniquePtr(s, v) PROVE Live
    BY <2>1 DEF DerefMoveBox, DerefMoveUniquePtr, MoveOut, CanUse, Live
  <2>2. ASSUME NEW t \in Storages, DerefMoveMoveRef(s, t) \/ MoveNewTrivial(s, t) PROVE Live
    BY <2>2 DEF DerefMoveMoveRef, MoveNewTrivial, HasMoveRef
  <2>3. ASSUME NEW t \in Storages, NEW w \in Values, MoveNewCxx(s, t, w) PROVE Live
    BY <2>3 DEF MoveNewCxx, HasMoveRef
  <2> QED
    BY <1>4, <2>1, <2>2, <2>3, MoveEffects DEF MoveStep
<1>5. ASSUME ClientStep PROVE Effect /\ Live
  BY <1>5, ClientEffects DEF ClientStep, ClientPanic, CatchUnwind, ClientDrop, Live
<1> QED
  BY <1>1, <1>2, <1>3, <1>4, <1>5 DEF Next

-----------------------------------------------------------------------------
(* Heap blocks. *)

HoldsBlock(s) == storage[s].memory \in {"box", "uniqueptr"}

BlockFreedBy(s) ==
    storage[s].life = "dropped" /\ storage[s].kind = "Drop" /\ storage[s].memory = "box"

\* A block is live as long as its Box or UniquePtr has it; afterwards one storage has it,
\* and frees it when it goes, if it is a Box's and the storage drops what it holds.
BlockInv ==
    /\ \A v \in Values : value[v].owner \in {"box", "uniqueptr"} => value[v].heap = "live"
    /\ \A s \in Storages : HoldsBlock(s) =>
          /\ storage[s].target \in Values
          /\ value[storage[s].target].owner \notin {"box", "uniqueptr"}
          /\ value[storage[s].target].heap = IF BlockFreedBy(s) THEN "freed" ELSE "live"
    /\ \A s \in Storages, x \in Storages :
          HoldsBlock(s) /\ HoldsBlock(x) /\ storage[s].target = storage[x].target => s = x

\* The forms of let_cxx! use a Drop storage for an emptied owner, and only for that.
FormsFit ==
    \A s \in Storages : storage[s].origin = "let_cxx" =>
        /\ storage[s].handle = "call" => storage[s].kind = "Keep"
        /\ storage[s].memory # "uninit" => (storage[s].kind = "Drop" <=> storage[s].memory # "T")

\* The slot that a macro makes is the first of its storage.
SlotsFresh ==
    \A s \in Storages :
        storage[s].handle = "slot" =>
            storage[s].origin = "SlotStorage" \/ ~storage[s].tracker.initialized

DestroyedOnceIfMatched == Matched => DestroyedOnce

\* What holds a block keeps it, and as it was.
LEMMA SameBlock ==
  ASSUME NEW x \in Storages, Same(storage[x], storage'[x])
  PROVE  /\ HoldsBlock(x)' <=> HoldsBlock(x)
         /\ HoldsBlock(x) => storage'[x].target = storage[x].target
         /\ BlockFreedBy(x)' <=> BlockFreedBy(x)
  BY DEF Same, HoldsBlock, BlockFreedBy

LEMMA BlockInit == Init => BlockInv
<1> SUFFICES ASSUME Init PROVE BlockInv
  OBVIOUS
<1>1. \A s \in Storages : ~HoldsBlock(s)
  BY DEF Init, SlotStorageInit, Unborn, NewStorage, HoldsBlock
<1>2. \A v \in Values : value[v].owner \in {"box", "uniqueptr"} => value[v].heap = "live"
  BY DEF Init, SlotStorageInit, InitialValue
<1> QED
  BY <1>1, <1>2 DEF BlockInv

\* A step in which no value but those of a Box or UniquePtr lose their block, and those
\* leave it, and no storage takes one.
LEMMA BlockFrame ==
  ASSUME BlockInv,
         \A x \in Storages : HoldsBlock(x)' =>
             /\ HoldsBlock(x)
             /\ storage'[x].target = storage[x].target
             /\ BlockFreedBy(x)' <=> BlockFreedBy(x),
         \A v \in Values :
             /\ value'[v].owner \in {"box", "uniqueptr"} => value[v].owner \in {"box", "uniqueptr"}
             /\ \/ value'[v].heap = value[v].heap
                \/ /\ value[v].owner \in {"box", "uniqueptr"}
                   /\ value'[v].owner \notin {"box", "uniqueptr"}
  PROVE  BlockInv'
<1>1. ASSUME NEW v \in Values, value'[v].owner \in {"box", "uniqueptr"}
      PROVE  value'[v].heap = "live"
  BY <1>1 DEF BlockInv
<1>2. ASSUME NEW s \in Storages, HoldsBlock(s)'
      PROVE  /\ storage'[s].target \in Values
             /\ value'[storage'[s].target].owner \notin {"box", "uniqueptr"}
             /\ value'[storage'[s].target].heap = IF BlockFreedBy(s)' THEN "freed" ELSE "live"
  BY <1>2 DEF BlockInv
<1>3. ASSUME NEW s \in Storages, NEW x \in Storages, HoldsBlock(s)', HoldsBlock(x)',
             storage'[s].target = storage'[x].target
      PROVE  s = x
  BY <1>3 DEF BlockInv
<1> QED
  BY <1>1, <1>2, <1>3 DEF BlockInv

\* What a destructor leaves of a value.
LEMMA DestroyedFacts ==
  ASSUME NEW r \in ValueRecord, NEW from
  PROVE  /\ Destroyed(r, from).owner = IF r.owner = from THEN "gone" ELSE r.owner
         /\ Destroyed(r, from).heap = r.heap
         /\ Destroyed(r, from).destroyed = IF r.destroyed = 2 THEN 2 ELSE r.destroyed + 1
         /\ \A h : /\ [Destroyed(r, from) EXCEPT !.heap = h].owner = Destroyed(r, from).owner
                   /\ [Destroyed(r, from) EXCEPT !.heap = h].destroyed = Destroyed(r, from).destroyed
                   /\ [Destroyed(r, from) EXCEPT !.heap = h].heap = h
  BY DEF Destroyed, ValueRecord

LEMMA BlockStep ==
  ASSUME IInv, BlockInv, Effect
  PROVE  BlockInv'
<1>1. /\ value \in [Values -> ValueRecord] /\ storage \in [Storages -> StorageRecord]
      /\ Storages \cap Homes = {}
  BY StoragesAssumption DEF IInv, TypeOK
<1>2. ASSUME AllSame
      PROVE  \A x \in Storages : HoldsBlock(x)' =>
                 /\ HoldsBlock(x) /\ storage'[x].target = storage[x].target
                 /\ BlockFreedBy(x)' <=> BlockFreedBy(x)
  BY <1>2, SameBlock DEF AllSame
<1>3. CASE Quiet
  BY <1>2, <1>3, BlockFrame DEF Quiet
<1>4. ASSUME NEW s \in Storages, SameBut(s), ~HoldsBlock(s)'
      PROVE  \A x \in Storages : HoldsBlock(x)' =>
                 /\ HoldsBlock(x) /\ storage'[x].target = storage[x].target
                 /\ BlockFreedBy(x)' <=> BlockFreedBy(x)
  BY <1>4, SameBlock DEF SameBut
<1>5. ASSUME NEW s \in Storages, Born(s) PROVE BlockInv'
  <2>1. SameBut(s) /\ ~HoldsBlock(s)' /\ UNCHANGED value
    BY <1>5 DEF Born, HoldsBlock
  <2> QED
    BY <1>4, <2>1, BlockFrame
<1>6. ASSUME NEW v \in Values, TakenOut(v) PROVE BlockInv'
  <2>1. PICK home \in {"raw", "client"} : value' = [value EXCEPT ![v].owner = home]
    BY <1>6 DEF TakenOut
  <2>2. \A w \in Values : /\ value'[w].heap = value[w].heap
                          /\ value'[w].owner = IF w = v THEN home ELSE value[w].owner
    BY <1>1, <2>1 DEF ValueRecord
  <2> QED
    BY <1>2, <1>6, <2>2, BlockFrame DEF TakenOut
<1>7. ASSUME NEW v \in Values, Gone(v) PROVE BlockInv'
  <2> DEFINE o == value[v].owner
  <2>1. PICK h \in {"none", "live", "freed"} :
            /\ o \notin {"box", "uniqueptr"} => h = value[v].heap
            /\ value' = [value EXCEPT ![v] = [Destroyed(value[v], o) EXCEPT !.heap = h]]
    BY <1>7 DEF Gone
  <2>2. value'[v].owner = "gone" /\ value'[v].heap = h
    BY <1>1, <2>1, DestroyedFacts
  <2>3. \A w \in Values \ {v} : value'[w] = value[w]
    BY <1>1, <2>1
  <2>4. AllSame
    BY <1>7 DEF Gone
  <2> QED
    BY <1>2, <2>1, <2>2, <2>3, <2>4, BlockFrame
<1>8. ASSUME NEW v \in Values, Lost(v) PROVE BlockInv'
  <2>1. PICK h \in {"live", "freed"} :
            value' = [value EXCEPT ![v].owner = "lost", ![v].heap = h]
    BY <1>8 DEF Lost
  <2>2. value'[v].owner = "lost" /\ \A w \in Values \ {v} : value'[w] = value[w]
    BY <1>1, <2>1 DEF ValueRecord
  <2>3. AllSame /\ value[v].owner \in {"box", "uniqueptr"}
    BY <1>8 DEF Lost
  <2> QED
    BY <1>2, <2>2, <2>3, BlockFrame
<1>9. ASSUME NEW s \in Storages, NEW v \in Values, NEW w \in Values, Replaced(s, v, w)
      PROVE  BlockInv'
  <2>1. SameBut(s) /\ ~HoldsBlock(s)'
    BY <1>9 DEF Replaced, Filled, HoldsBlock
  <2>2. /\ value' = [value EXCEPT ![w].owner = s, ![v] = Destroyed(@, value[v].owner)]
        /\ w # v
    BY <1>9 DEF Replaced
  <2>3. /\ \A x \in Values \ {v, w} : value'[x] = value[x]
        /\ value'[w] = [value[w] EXCEPT !.owner = s]
        /\ value'[v] = Destroyed(value[v], value[v].owner)
    BY <1>1, <2>2
  <2>4. /\ value'[w].owner = s /\ value'[w].heap = value[w].heap
        /\ value'[v].owner = "gone" /\ value'[v].heap = value[v].heap
    BY <1>1, <2>3, DestroyedFacts DEF ValueRecord
  <2>5. s \notin {"box", "uniqueptr"}
    BY <1>1 DEF Homes
  <2> QED
    BY <1>4, <2>1, <2>3, <2>4, <2>5, BlockFrame
<1>10. ASSUME NEW s \in Storages, NEW m \in Memory, NEW v \in Values, Placed(s, m, v)
       PROVE  BlockInv'
  <2>1. /\ SameBut(s) /\ storage'[s].memory = m /\ storage'[s].target = v
        /\ storage'[s].life = "live" /\ m \in {"T", "box", "uniqueptr"}
        /\ m # "T" => value[v].owner = m
    BY <1>10 DEF Placed, Filled
  <2>2. \A w \in Values : /\ value'[w].heap = value[w].heap
                          /\ value'[w].owner = IF w = v THEN s ELSE value[w].owner
    BY <1>1, <1>10 DEF Placed, ValueRecord
  <2>3. s \notin {"box", "uniqueptr"}
    BY <1>1 DEF Homes
  <2>4. CASE m = "T"
    <3>1. ~HoldsBlock(s)'
      BY <2>1, <2>4 DEF HoldsBlock
    <3> QED
      BY <1>4, <2>1, <2>2, <2>3, <3>1, BlockFrame
  <2>5. CASE m # "T"
    <3>1. /\ value[v].owner \in {"box", "uniqueptr"} /\ value[v].heap = "live"
          /\ \A x \in Storages : HoldsBlock(x) => storage[x].target # v
      BY <2>1, <2>5 DEF BlockInv
    <3>2. \A x \in Storages \ {s} : HoldsBlock(x)' =>
              /\ HoldsBlock(x) /\ storage'[x].target = storage[x].target
              /\ BlockFreedBy(x)' <=> BlockFreedBy(x)
      BY <2>1, SameBlock DEF SameBut
    <3>3. ~BlockFreedBy(s)'
      BY <2>1 DEF BlockFreedBy
    <3>4. ASSUME NEW x \in Storages, HoldsBlock(x)'
          PROVE  /\ storage'[x].target \in Values
                 /\ value'[storage'[x].target].owner \notin {"box", "uniqueptr"}
                 /\ value'[storage'[x].target].heap = IF BlockFreedBy(x)' THEN "freed" ELSE "live"
      <4>1. CASE x = s
        BY <2>1, <2>2, <2>3, <3>1, <3>3, <4>1
      <4>2. CASE x # s
        BY <2>2, <3>1, <3>2, <3>4, <4>2 DEF BlockInv
      <4> QED
        BY <4>1, <4>2
    <3>5. ASSUME NEW x \in Storages, NEW y \in Storages, HoldsBlock(x)', HoldsBlock(y)',
                 storage'[x].target = storage'[y].target
          PROVE  x = y
      BY <2>1, <3>1, <3>2, <3>5 DEF BlockInv
    <3>6. \A w \in Values : value'[w].owner \in {"box", "uniqueptr"} => value'[w].heap = "live"
      BY <2>2, <2>3 DEF BlockInv
    <3> QED
      BY <3>4, <3>5, <3>6 DEF BlockInv
  <2> QED
    BY <2>4, <2>5
<1>11. ASSUME NEW s \in Storages, Closed(s) PROVE BlockInv'
  <2> DEFINE r == storage[s]
             t == r.target
  <2>1. /\ SameBut(s) /\ storage'[s] = [r EXCEPT !.life = "dropped"] /\ r.life = "live"
        /\ r \in StorageRecord
    BY <1>1, <1>11 DEF Closed
  <2>2. \A x \in Storages \ {s} : HoldsBlock(x)' =>
            /\ HoldsBlock(x) /\ storage'[x].target = storage[x].target
            /\ BlockFreedBy(x)' <=> BlockFreedBy(x)
    BY <2>1, SameBlock DEF SameBut
  <2>3. /\ HoldsBlock(s)' <=> HoldsBlock(s)
        /\ storage'[s].target = t
        /\ BlockFreedBy(s)' <=> r.kind = "Drop" /\ r.memory = "box"
    BY <2>1 DEF HoldsBlock, BlockFreedBy, StorageRecord
  <2>4. CASE ~(r.kind = "Drop" /\ r.memory = "box")
    <3>1. \A v \in Values :
              /\ value'[v].heap = value[v].heap
              /\ value'[v].owner \in {"box", "uniqueptr"} => value[v].owner \in {"box", "uniqueptr"}
      <4>1. CASE UNCHANGED value
        BY <4>1
      <4>2. CASE value' = [value EXCEPT ![t] = Destroyed(value[t], s)]
        <5>1. \A v \in Values : value'[v] = IF v = t THEN Destroyed(value[v], s) ELSE value[v]
          BY <1>1, <4>2
        <5>2. \A v \in Values :
                  /\ Destroyed(value[v], s).heap = value[v].heap
                  /\ Destroyed(value[v], s).owner \in {"gone", value[v].owner}
          BY <1>1, DestroyedFacts
        <5> QED
          BY <5>1, <5>2
      <4> QED
        BY <1>11, <2>4, <4>1, <4>2 DEF Closed
    <3> QED
      BY <2>2, <2>3, <2>4, <3>1, BlockFrame DEF BlockFreedBy
  <2>5. CASE r.kind = "Drop" /\ r.memory = "box"
    <3>1. HoldsBlock(s) /\ t \in Values
      BY <2>5 DEF HoldsBlock, BlockInv
    <3>2. value' = [value EXCEPT ![t].heap = "freed"]
      BY <1>11, <2>5 DEF Closed
    <3>3. \A v \in Values : /\ value'[v].owner = value[v].owner
                            /\ value'[v].heap = IF v = t THEN "freed" ELSE value[v].heap
      BY <1>1, <3>2 DEF ValueRecord
    <3>4. value[t].owner \notin {"box", "uniqueptr"}
      BY <3>1 DEF BlockInv
    <3>5. ASSUME NEW x \in Storages, HoldsBlock(x)'
          PROVE  /\ storage'[x].target \in Values
                 /\ value'[storage'[x].target].owner \notin {"box", "uniqueptr"}
                 /\ value'[storage'[x].target].heap = IF BlockFreedBy(x)' THEN "freed" ELSE "live"
      <4>1. CASE x = s
        BY <2>3, <2>5, <3>1, <3>3, <3>4, <4>1
      <4>2. CASE x # s
        <5>1. HoldsBlock(x) /\ storage'[x].target = storage[x].target /\ storage[x].target # t
          BY <2>2, <3>1, <3>5, <4>2 DEF BlockInv
        <5> QED
          BY <2>2, <3>3, <3>5, <4>2, <5>1 DEF BlockInv
      <4> QED
        BY <4>1, <4>2
    <3>6. ASSUME NEW x \in Storages, NEW y \in Storages, HoldsBlock(x)', HoldsBlock(y)',
                 storage'[x].target = storage'[y].target
          PROVE  x = y
      BY <2>2, <2>3, <3>6 DEF BlockInv
    <3>7. \A v \in Values : value'[v].owner \in {"box", "uniqueptr"} => value'[v].heap = "live"
      BY <3>3, <3>4 DEF BlockInv
    <3> QED
      BY <3>5, <3>6, <3>7 DEF BlockInv
  <2> QED
    BY <2>4, <2>5
<1> QED
  BY <1>3, <1>5, <1>6, <1>7, <1>8, <1>9, <1>10, <1>11 DEF Effect

-----------------------------------------------------------------------------
(* Forms, and values destroyed once. *)

LEMMA FormsStep ==
  ASSUME IInv, FormsFit, Effect
  PROVE  FormsFit'
<1> DEFINE Fine(r) == r.origin = "let_cxx" =>
                         /\ r.handle = "call" => r.kind = "Keep"
                         /\ r.memory # "uninit" => (r.kind = "Drop" <=> r.memory # "T")
<1>1. \A x \in Storages : Fine(storage[x]) /\ storage[x] \in StorageRecord
  BY DEF FormsFit, IInv, TypeOK
<1>2. \A x \in Storages : Same(storage[x], storage'[x]) => Fine(storage'[x])
  BY <1>1 DEF Same, FitsCall
<1>3. ASSUME AllSame PROVE \A x \in Storages : Fine(storage'[x])
  BY <1>2, <1>3 DEF AllSame
<1>4. ASSUME NEW s \in Storages, SameBut(s), Fine(storage'[s])
      PROVE  \A x \in Storages : Fine(storage'[x])
  BY <1>2, <1>4 DEF SameBut
<1>5. ASSUME NEW s \in Storages, Born(s) \/ Closed(s) PROVE \A x \in Storages : Fine(storage'[x])
  <2>1. CASE Born(s)
    BY <1>4, <2>1 DEF Born
  <2>2. CASE Closed(s)
    <3>1. /\ storage'[s].origin = storage[s].origin /\ storage'[s].handle = storage[s].handle
          /\ storage'[s].kind = storage[s].kind /\ storage'[s].memory = storage[s].memory
      BY <1>1, <2>2 DEF Closed, StorageRecord
    <3>2. Fine(storage'[s])
      BY <1>1, <3>1
    <3> QED
      BY <1>4, <2>2, <3>2 DEF Closed
  <2> QED
    BY <1>5, <2>1, <2>2
<1>6. ASSUME NEW s \in Storages, NEW m \in Memory, NEW v \in Values, Filled(s, m, v)
      PROVE  \A x \in Storages : Fine(storage'[x])
  <2>1. CASE storage[s].handle = "call"
    BY <1>1, <1>4, <1>6, <2>1 DEF Filled
  <2>2. CASE storage[s].handle # "call"
    BY <1>4, <1>6, <2>2 DEF Filled, Fits
  <2> QED
    BY <2>1, <2>2
<1>7. \A x \in Storages : Fine(storage'[x])
  BY <1>3, <1>5, <1>6
  DEF Effect, Quiet, TakenOut, Gone, Lost, Placed, Replaced, Memory
<1> QED
  BY <1>7 DEF FormsFit

LEMMA FormsInit == Init => FormsFit
  BY DEF Init, SlotStorageInit, Unborn, NewStorage, FormsFit

\* In a program that uses let_cxx! and cxx! only, no T is in a storage that drops it.
LEMMA FormsMatch ==
  ASSUME IInv, FormsFit, Origins \subseteq {"let_cxx"}
  PROVE  Matched
<1> SUFFICES ASSUME NEW s \in Storages, storage[s].memory = "T" PROVE storage[s].kind # "Drop"
  BY DEF Matched
<1>1. storage[s].life # "unborn" => storage[s].origin = "let_cxx"
  BY StorageFacts DEF RecordInv
<1>2. storage[s].tracker.initialized
  BY StorageFacts DEF RecordInv
<1>3. storage[s].life # "unborn"
  BY <1>2, StorageFacts DEF RecordInv
<1> QED
  BY <1>1, <1>3 DEF FormsFit

LEMMA DestroyedInit == Init => DestroyedOnceIfMatched
  BY DEF Init, SlotStorageInit, InitialValue, DestroyedOnceIfMatched, DestroyedOnce

LEMMA DestroyedStep ==
  ASSUME IInv, DestroyedOnceIfMatched, Effect
  PROVE  DestroyedOnceIfMatched'
<1> SUFFICES ASSUME Matched' PROVE DestroyedOnce'
  BY DEF DestroyedOnceIfMatched
<1>1. /\ value \in [Values -> ValueRecord] /\ storage \in [Storages -> StorageRecord]
      /\ Storages \cap Homes = {}
  BY StoragesAssumption DEF IInv, TypeOK
<1>2. ASSUME AllSame PROVE Matched
  BY <1>2 DEF AllSame, Same, Matched
<1>3. ASSUME NEW s \in Storages, SameBut(s), storage[s].memory # "T" \/ storage[s].kind # "Drop"
      PROVE  Matched
  BY <1>3 DEF SameBut, Same, Matched
<1>4. ASSUME Matched, \A v \in Values : value'[v] = value[v] PROVE DestroyedOnce'
  BY <1>4 DEF DestroyedOnceIfMatched, DestroyedOnce
<1>5. ASSUME Matched,
             NEW v \in Values, value[v].owner # "gone", NEW o, o # "gone",
             value'[v].owner = o, value'[v].destroyed = value[v].destroyed,
             \A w \in Values \ {v} : value'[w] = value[w]
      PROVE  DestroyedOnce'
  BY <1>5 DEF DestroyedOnceIfMatched, DestroyedOnce
<1>6. ASSUME Matched,
             NEW v \in Values, value[v].owner # "gone", value'[v].owner = "gone",
             value'[v].destroyed = IF value[v].destroyed = 2 THEN 2 ELSE value[v].destroyed + 1,
             \A w \in Values \ {v} : \/ value'[w] = value[w]
                                     \/ /\ value[w].owner # "gone" /\ value'[w].owner # "gone"
                                        /\ value'[w].destroyed = value[w].destroyed
      PROVE  DestroyedOnce'
  BY <1>6 DEF DestroyedOnceIfMatched, DestroyedOnce
<1>7. CASE Quiet
  BY <1>2, <1>4, <1>7 DEF Quiet
<1>8. ASSUME NEW s \in Storages, Born(s) PROVE DestroyedOnce'
  <2>1. storage[s].memory # "T" /\ SameBut(s) /\ UNCHANGED value
    BY <1>8, StorageFacts DEF Born, RecordInv
  <2> QED
    BY <1>3, <1>4, <2>1
<1>9. ASSUME NEW s \in Storages, Closed(s) PROVE DestroyedOnce'
  <2>1. storage'[s].memory = storage[s].memory /\ storage'[s].kind = storage[s].kind
    BY <1>1, <1>9 DEF Closed, StorageRecord
  <2>2. ~(storage[s].kind = "Drop" /\ storage[s].memory = "T")
    BY <2>1 DEF Matched
  <2>3. Matched
    BY <1>3, <1>9, <2>2 DEF Closed
  <2>4. \A v \in Values : /\ value'[v].owner = value[v].owner
                          /\ value'[v].destroyed = value[v].destroyed
    BY <1>1, <1>9, <2>2 DEF Closed, ValueRecord
  <2> QED
    BY <2>3, <2>4 DEF DestroyedOnceIfMatched, DestroyedOnce
<1>10. ASSUME NEW v \in Values, TakenOut(v) PROVE DestroyedOnce'
  <2>1. PICK home \in {"raw", "client"} : value' = [value EXCEPT ![v].owner = home]
    BY <1>10 DEF TakenOut
  <2>2. /\ value'[v].owner = home /\ value'[v].destroyed = value[v].destroyed
        /\ \A w \in Values \ {v} : value'[w] = value[w]
    BY <1>1, <2>1 DEF ValueRecord
  <2>3. AllSame /\ value[v].owner # "gone"
    BY <1>1, <1>10 DEF TakenOut, Homes
  <2> QED
    BY <1>2, <1>5, <2>2, <2>3
<1>11. ASSUME NEW v \in Values, Gone(v) PROVE DestroyedOnce'
  <2> DEFINE o == value[v].owner
  <2>1. PICK h : value' = [value EXCEPT ![v] = [Destroyed(value[v], o) EXCEPT !.heap = h]]
    BY <1>11 DEF Gone
  <2>2. /\ value'[v].owner = "gone"
        /\ value'[v].destroyed = IF value[v].destroyed = 2 THEN 2 ELSE value[v].destroyed + 1
    BY <1>1, <2>1, DestroyedFacts
  <2>3. AllSame /\ o # "gone" /\ \A w \in Values \ {v} : value'[w] = value[w]
    BY <1>1, <1>11, <2>1 DEF Gone, Homes
  <2> QED
    BY <1>2, <1>6, <2>2, <2>3
<1>12. ASSUME NEW v \in Values, Lost(v) PROVE DestroyedOnce'
  <2>1. PICK h : value' = [value EXCEPT ![v].owner = "lost", ![v].heap = h]
    BY <1>12 DEF Lost
  <2>2. /\ value'[v].owner = "lost" /\ value'[v].destroyed = value[v].destroyed
        /\ \A w \in Values \ {v} : value'[w] = value[w]
    BY <1>1, <2>1 DEF ValueRecord
  <2>3. AllSame /\ value[v].owner # "gone"
    BY <1>12 DEF Lost
  <2> QED
    BY <1>2, <1>5, <2>2, <2>3
<1>13. ASSUME NEW s \in Storages, NEW m \in Memory, NEW v \in Values, Placed(s, m, v)
       PROVE  DestroyedOnce'
  <2>1. Matched
    BY <1>3, <1>13 DEF Placed, Filled
  <2>2. /\ value'[v].owner = s /\ value'[v].destroyed = value[v].destroyed
        /\ \A w \in Values \ {v} : value'[w] = value[w]
    BY <1>1, <1>13 DEF Placed, ValueRecord
  <2>3. value[v].owner # "gone" /\ s # "gone"
    BY <1>1, <1>13 DEF Placed, Homes
  <2> QED
    BY <1>5, <2>1, <2>2, <2>3
<1>14. ASSUME NEW s \in Storages, NEW v \in Values, NEW w \in Values, Replaced(s, v, w)
       PROVE  DestroyedOnce'
  <2>1. Matched
    BY <1>3, <1>14 DEF Replaced, Filled
  <2>2. /\ \A x \in Values \ {v, w} : value'[x] = value[x]
        /\ value'[w] = [value[w] EXCEPT !.owner = s]
        /\ value'[v] = Destroyed(value[v], value[v].owner)
        /\ value[w].owner = "unborn" /\ value[v].owner \in Storages
    BY <1>1, <1>14 DEF Replaced
  <2>3. /\ value'[w].owner = s /\ value'[w].destroyed = value[w].destroyed
        /\ value'[v].owner = "gone"
        /\ value'[v].destroyed = IF value[v].destroyed = 2 THEN 2 ELSE value[v].destroyed + 1
    BY <1>1, <2>2, DestroyedFacts DEF ValueRecord
  <2>4. s # "gone" /\ value[v].owner # "gone"
    BY <1>1, <2>2 DEF Homes
  <2> QED
    BY <1>6, <2>1, <2>2, <2>3, <2>4
<1> QED
  BY <1>7, <1>8, <1>9, <1>10, <1>11, <1>12, <1>13, <1>14 DEF Effect

-----------------------------------------------------------------------------
(* Assertions. *)

LEMMA FreshStep ==
  ASSUME IInv, SlotsFresh, Effect
  PROVE  SlotsFresh'
<1> DEFINE Fresh(r) == r.handle = "slot" => r.origin = "SlotStorage" \/ ~r.tracker.initialized
<1>1. \A x \in Storages : Fresh(storage[x]) /\ storage[x] \in StorageRecord
  BY DEF SlotsFresh, IInv, TypeOK
<1>2. \A x \in Storages : Same(storage[x], storage'[x]) => Fresh(storage'[x])
  BY <1>1 DEF Same
<1>3. ASSUME NEW s \in Storages, SameBut(s), Fresh(storage'[s])
      PROVE  \A x \in Storages : Fresh(storage'[x])
  BY <1>2, <1>3 DEF SameBut
<1>4. ASSUME NEW s \in Storages, Born(s) PROVE \A x \in Storages : Fresh(storage'[x])
  BY <1>3, <1>4 DEF Born, NewTracker
<1>5. ASSUME NEW s \in Storages, Closed(s) PROVE \A x \in Storages : Fresh(storage'[x])
  <2>1. storage'[s].handle = "none"
    BY <1>1, <1>5 DEF Closed, StorageRecord
  <2> QED
    BY <1>3, <1>5, <2>1 DEF Closed
<1>6. ASSUME NEW s \in Storages, NEW m \in Memory, NEW v \in Values, Filled(s, m, v)
      PROVE  \A x \in Storages : Fresh(storage'[x])
  BY <1>3, <1>6 DEF Filled
<1>7. ASSUME AllSame PROVE \A x \in Storages : Fresh(storage'[x])
  BY <1>2, <1>7 DEF AllSame
<1>8. \A x \in Storages : Fresh(storage'[x])
  BY <1>4, <1>5, <1>6, <1>7 DEF Effect, Quiet, TakenOut, Gone, Lost, Placed, Replaced, Memory
<1> QED
  BY <1>8 DEF SlotsFresh

LEMMA FreshInit == Init => SlotsFresh
  BY DEF Init, SlotStorageInit, Unborn, NewStorage, SlotsFresh

\* Only initialize() can fail, on a storage that has been used before.
LEMMA AssertedStep ==
  ASSUME IInv, Next
  PROVE  /\ asserted' \subseteq asserted \cup {"initialize"}
         /\ asserted' = asserted
            \/ \E s \in Storages : storage[s].handle = "slot" /\ storage[s].tracker.initialized
<1>1. ASSUME NEW s \in Storages, storage[s].handle = "slot", InitializeFails(s)
      PROVE  /\ asserted' = asserted \cup {"initialize"}
             /\ storage[s].tracker.initialized
  <2> DEFINE t == storage[s].tracker
             i == Initialize(t)
  <2>1. i.failed # "none" /\ asserted' = asserted \cup {i.failed}
    BY <1>1 DEF InitializeFails
  <2>2. t \in Tracker /\ RecordInv(storage[s])
    BY StorageFacts
  <2>3. t.initialized
    <3>1. ~t.initialized => ~t.released /\ t.references = 0
      BY <2>2 DEF RecordInv
    <3> QED
      BY <2>1, <2>2, <3>1, InitializeCases
  <2>4. DebugAssertions
    BY <1>1, <2>2, <2>3 DEF RecordInv
  <2>5. i.failed = "initialize"
    BY <2>2, <2>3, <2>4, InitializeCases
  <2> QED
    BY <2>1, <2>3, <2>5
<1>2. ASSUME NEW s \in Storages, MoveRefDrop(s) PROVE asserted' = asserted
  <2> DEFINE o == MoveRefDropOutcome(storage[s].tracker)
  <2>1. storage[s].handle = "moveref" /\ asserted' = asserted \cup ({o.failed} \ {"none"})
    BY <1>2 DEF MoveRefDrop, HasMoveRef
  <2>2. o.failed = "none"
    BY <2>1, MoveRefFacts, DropOfPending
  <2> QED
    BY <2>1, <2>2
<1> DEFINE Refused == \E s \in Storages : storage[s].handle = "slot" /\ InitializeFails(s)
<1>3. asserted' = asserted \/ Refused
  <2>1. ASSUME NEW s \in Storages, StorageStep(s) PROVE asserted' = asserted
    BY <2>1
    DEF StorageStep, SlotStorageNew, LetCxxSlot, SlotStorageSlot, DropSlot, StorageDrop,
        DropUninitialized, DropLeaking, DropKeep, DropInPlace, DropSound
  <2>2. ASSUME NEW s \in Storages, ConstructStep(s) PROVE asserted' = asserted \/ Refused
    BY <2>2
    DEF ConstructStep, TryEmplace, Put, CanUse, ConstructOk, ConstructFails, InitializeHolding
  <2>3. ASSUME NEW s \in Storages, MoveRefStep(s) PROVE asserted' = asserted
    BY <1>2, <2>3 DEF MoveRefStep, ForgetMoveRef, Release, IntoInner, ReleaseTo
  <2>4. ASSUME NEW s \in Storages, MoveStep(s) PROVE asserted' = asserted \/ Refused
    <3>1. ASSUME NEW v \in Values, DerefMoveBox(s, v) \/ DerefMoveUniquePtr(s, v)
          PROVE  asserted' = asserted \/ Refused
      BY <3>1 DEF DerefMoveBox, DerefMoveUniquePtr, MoveOut, CanUse, InitializeHolding
    <3>2. ASSUME NEW t \in Storages, DerefMoveMoveRef(s, t) \/ MoveNewTrivial(s, t)
          PROVE  asserted' = asserted
      BY <3>2 DEF DerefMoveMoveRef, MoveNewTrivial
    <3>3. ASSUME NEW t \in Storages, NEW w \in Values, MoveNewCxx(s, t, w)
          PROVE  asserted' = asserted
      <4> DEFINE o == MoveRefDropOutcome(storage[t].tracker)
      <4>1. storage[t].handle = "moveref" /\ asserted' = asserted \cup ({o.failed} \ {"none"})
        BY <3>3 DEF MoveNewCxx, HasMoveRef
      <4>2. o.failed = "none"
        BY <4>1, MoveRefFacts, DropOfPending
      <4> QED
        BY <4>1, <4>2
    <3> QED
      BY <2>4, <3>1, <3>2, <3>3 DEF MoveStep
  <2>5. ASSUME ClientStep PROVE asserted' = asserted
    BY <2>5 DEF ClientStep, ClientPanic, CatchUnwind, ClientDrop
  <2> QED
    BY <2>1, <2>2, <2>3, <2>4, <2>5 DEF Next
<1> HIDE DEF Refused
<1>4. Refused => /\ asserted' = asserted \cup {"initialize"}
                 /\ \E s \in Storages :
                       storage[s].handle = "slot" /\ storage[s].tracker.initialized
  BY <1>1 DEF Refused
<1> QED
  BY <1>3, <1>4

-----------------------------------------------------------------------------
(* Theorems. *)

\* Everything the effects preserve, together.
SoundInv ==
    /\ IInv
    /\ BlockInv
    /\ FormsFit
    /\ SlotsFresh
    /\ DestroyedOnceIfMatched
    /\ OnlyInitializeAsserts
    /\ "SlotStorage" \notin Origins => AssertionsHold

LEMMA SoundInductive ==
  ASSUME ReuseRefused, ~CfgTest
  PROVE  Spec => []SoundInv
<1>1. Init => SoundInv
  BY InitInv, BlockInit, FormsInit, FreshInit, DestroyedInit
  DEF SoundInv, OnlyInitializeAsserts, AssertionsHold, Init, SlotStorageInit
<1>2. SoundInv /\ IInv' /\ [Next]_vars => SoundInv'
  <2> SUFFICES ASSUME SoundInv, IInv', [Next]_vars PROVE SoundInv'
    OBVIOUS
  <2>1. CASE Next
    <3>1. Effect
      BY <2>1, NextEffects DEF SoundInv
    <3>2. BlockInv' /\ FormsFit' /\ SlotsFresh' /\ DestroyedOnceIfMatched'
      BY <3>1, BlockStep, FormsStep, FreshStep, DestroyedStep DEF SoundInv
    <3>3. OnlyInitializeAsserts'
      BY <2>1, AssertedStep DEF SoundInv, OnlyInitializeAsserts
    <3>4. ASSUME "SlotStorage" \notin Origins PROVE AssertionsHold'
      <4>1. ASSUME NEW s \in Storages, storage[s].handle = "slot"
            PROVE  ~storage[s].tracker.initialized
        <5>1. storage[s].life # "unborn" /\ storage[s].origin \in Origins
          BY <4>1, StorageFacts DEF SoundInv, RecordInv
        <5> QED
          BY <3>4, <4>1, <5>1 DEF SoundInv, SlotsFresh
      <4>2. asserted' = asserted
        BY <2>1, <4>1, AssertedStep DEF SoundInv
      <4> QED
        BY <3>4, <4>2 DEF SoundInv, AssertionsHold
    <3> QED
      BY <3>2, <3>3, <3>4 DEF SoundInv
  <2>2. CASE UNCHANGED vars
    BY <2>2
    DEF vars, SoundInv, BlockInv, HoldsBlock, BlockFreedBy, FormsFit, SlotsFresh,
        DestroyedOnceIfMatched, DestroyedOnce, Matched, OnlyInitializeAsserts, AssertionsHold
  <2> QED
    BY <2>1, <2>2
<1> QED
  BY <1>1, <1>2, Inductive, PTL DEF Spec

\* What a MoveRef points to is alive, as long as values are destroyed once.
LEMMA TargetsLive == SoundInv /\ DestroyedOnce => MoveRefTargetsLive
<1> SUFFICES ASSUME SoundInv, DestroyedOnce, NEW s \in Storages, storage[s].handle = "moveref"
             PROVE  LET v == storage[s].target
                    IN  /\ storage[s].life = "live"
                        /\ storage[s].memory # "uninit"
                        /\ v \in Values
                        /\ value[v].owner = s
                        /\ value[v].destroyed = 0
                        /\ storage[s].memory \in {"box", "uniqueptr"} => value[v].heap = "live"
  BY DEF MoveRefTargetsLive
<1> DEFINE v == storage[s].target
<1>1. /\ Pending(storage[s]) /\ storage[s].life = "live" /\ v \in Values /\ value[v].owner = s
  BY StorageFacts DEF SoundInv, RecordInv
<1>2. s # "gone"
  BY StoragesAssumption DEF Homes
<1>3. value[v].destroyed = 0
  BY <1>1, <1>2 DEF DestroyedOnce
<1>4. HoldsBlock(s) => value[v].heap = "live"
  BY <1>1 DEF SoundInv, BlockInv, BlockFreedBy
<1> QED
  BY <1>1, <1>3, <1>4 DEF Pending, HoldsBlock

\* With slots of any kind, where a storage is not used twice: MoveRefs are valid and
\* values are destroyed once as long as no T is put into a dropping storage.
THEOREM SoundIfMatchedHolds ==
  ASSUME ReuseRefused, ~CfgTest
  PROVE  Spec => []SoundIfMatched
<1>1. SoundInv => SoundIfMatched
  BY TargetsLive DEF SoundInv, SoundIfMatched, DestroyedOnceIfMatched
<1> QED
  BY <1>1, SoundInductive, PTL

\* A program that uses let_cxx! and cxx! only destroys every value once, in any build.
THEOREM DestroyedOnceHolds ==
  ASSUME Origins \subseteq {"let_cxx"}, ~CfgTest
  PROVE  Spec => []DestroyedOnce
<1>1. SoundInv => DestroyedOnce
  BY FormsMatch DEF SoundInv, DestroyedOnceIfMatched
<1>2. ReuseRefused
  BY DEF ReuseRefused
<1> QED
  BY <1>1, <1>2, SoundInductive, PTL

\* In such a program every MoveRef points to a value that is alive and its own, in memory
\* that is still there.
THEOREM MoveRefTargetsLiveHolds ==
  ASSUME Origins \subseteq {"let_cxx"}, ~CfgTest
  PROVE  Spec => []MoveRefTargetsLive
<1>1. SoundInv => MoveRefTargetsLive
  BY FormsMatch, TargetsLive DEF SoundInv, DestroyedOnceIfMatched
<1>2. ReuseRefused
  BY DEF ReuseRefused
<1> QED
  BY <1>1, <1>2, SoundInductive, PTL

\* In such a program the scope frees the block of a Box, and of nothing else.
THEOREM BlockFreedIffBoxHolds ==
  ASSUME Origins \subseteq {"let_cxx"}, ~CfgTest
  PROVE  Spec => []BlockFreedIffBox
<1>1. SoundInv => BlockFreedIffBox
  <2> SUFFICES ASSUME SoundInv, NEW s \in Storages,
                      storage[s].life = "dropped", HoldsBlock(s)
               PROVE  value[storage[s].target].heap = "freed" <=> storage[s].memory = "box"
    BY DEF BlockFreedIffBox, HoldsBlock
  <2>1. storage[s].origin = "let_cxx"
    BY StorageFacts DEF SoundInv, RecordInv
  <2>2. storage[s].kind = "Drop"
    BY <2>1 DEF SoundInv, FormsFit, HoldsBlock
  <2>3. BlockFreedBy(s) <=> storage[s].memory = "box"
    BY <2>2 DEF BlockFreedBy
  <2> QED
    BY <2>3 DEF SoundInv, BlockInv
<1>2. ReuseRefused
  BY DEF ReuseRefused
<1> QED
  BY <1>1, <1>2, SoundInductive, PTL

\* Where slots come from the macros, no debug_assert! ever fails.
THEOREM AssertionsHoldHolds ==
  ASSUME "SlotStorage" \notin Origins, ~CfgTest
  PROVE  Spec => []AssertionsHold
<1>1. SoundInv => AssertionsHold
  BY DEF SoundInv
<1>2. ReuseRefused
  BY DEF ReuseRefused
<1> QED
  BY <1>1, <1>2, SoundInductive, PTL

\* With storages that are used again in a debug build, only the one in initialize() can fail.
THEOREM OnlyInitializeAssertsHolds ==
  ASSUME ReuseRefused, ~CfgTest
  PROVE  Spec => []OnlyInitializeAsserts
<1>1. SoundInv => OnlyInitializeAsserts
  BY DEF SoundInv
<1> QED
  BY <1>1, SoundInductive, PTL

\* Until an assertion fails, a step of a running thread either goes on, starts to unwind,
\* or is the drop of a storage that is leaking.
LEMMA AbortingStep ==
  ASSUME Next, mode = "running", mode' = "aborted", asserted' = {}
  PROVE  \E s \in Storages : DropLeaking(s)
<1> USE DEF AfterPanic
<1>1. ASSUME NEW s \in Storages, StorageStep(s) PROVE \E x \in Storages : DropLeaking(x)
  BY <1>1
  DEF StorageStep, SlotStorageNew, LetCxxSlot, SlotStorageSlot, DropSlot, StorageDrop,
      DropUninitialized, DropKeep, DropInPlace
<1>2. ASSUME NEW s \in Storages, ConstructStep(s) PROVE FALSE
  BY <1>2
  DEF ConstructStep, TryEmplace, Put, ConstructOk, ConstructFails, InitializeHolding,
      InitializeFails
<1>3. ASSUME NEW s \in Storages, MoveRefStep(s) PROVE FALSE
  BY <1>3 DEF MoveRefStep, MoveRefDrop, ForgetMoveRef, Release, IntoInner, ReleaseTo
<1>4. ASSUME NEW s \in Storages, MoveStep(s) PROVE FALSE
  <2>1. ASSUME NEW v \in Values, DerefMoveBox(s, v) \/ DerefMoveUniquePtr(s, v) PROVE FALSE
    BY <2>1 DEF DerefMoveBox, DerefMoveUniquePtr, MoveOut, InitializeHolding, InitializeFails
  <2>2. ASSUME NEW t \in Storages, DerefMoveMoveRef(s, t) \/ MoveNewTrivial(s, t) PROVE FALSE
    BY <2>2 DEF DerefMoveMoveRef, MoveNewTrivial
  <2>3. ASSUME NEW t \in Storages, NEW w \in Values, MoveNewCxx(s, t, w) PROVE FALSE
    BY <2>3 DEF MoveNewCxx
  <2> QED
    BY <1>4, <2>1, <2>2, <2>3 DEF MoveStep
<1>5. ASSUME ClientStep PROVE FALSE
  BY <1>5 DEF ClientStep, ClientPanic, CatchUnwind, ClientDrop
<1> QED
  BY <1>1, <1>2, <1>3, <1>4, <1>5 DEF Next

\* Until an assertion fails, the process aborts out of a running thread only because a storage
\* really lost a value or kept a half-built one: Drop for SlotStorage never stops a program that
\* did nothing wrong.
THEOREM AbortOnlyOnLeakHolds ==
  ASSUME ReuseRefused
  PROVE  Spec => AbortOnlyOnLeak
<1> DEFINE A == mode = "running" /\ mode' = "aborted" /\ asserted' = {} =>
                   \E s \in Storages : MayDrop(s) /\ (HoldsValue(s) \/ FailedConstruction(s))
<1>1. IInv /\ [Next]_vars => [A]_vars
  <2> SUFFICES ASSUME IInv, Next, mode = "running", mode' = "aborted", asserted' = {}
               PROVE  \E s \in Storages : MayDrop(s) /\ (HoldsValue(s) \/ FailedConstruction(s))
    OBVIOUS
  <2>1. PICK s \in Storages : DropLeaking(s)
    BY AbortingStep
  <2>2. MayDrop(s) /\ IsLeaking(storage[s].tracker)
    BY <2>1 DEF DropLeaking
  <2>3. storage[s].life = "live" /\ storage[s].handle = "none"
    BY <2>2 DEF MayDrop
  <2> QED
    BY <2>2, <2>3, InvLeakCheck DEF LeakCheckExact, LeakCheckExactFor
<1> QED
  BY <1>1, Inductive, PTL DEF Spec, AbortOnlyOnLeak

\* assume_init_drop is reached only with memory that was initialised.
THEOREM AssumeInitIsInitHolds ==
  ASSUME ReuseRefused
  PROVE  Spec => AssumeInitIsInit
<1> DEFINE A == \A s \in Storages :
                   Dropping(s) /\ storage[s].kind = "Drop" /\ ~IsUninitialized(storage[s].tracker)
                   /\ ~IsLeaking(storage[s].tracker) =>
                       \/ storage[s].memory # "uninit"
                       \/ ~Reliable(s) /\ storage[s].tracker.released
<1>1. IInv => [A]_vars
  <2> SUFFICES ASSUME IInv, NEW s \in Storages, ~IsUninitialized(storage[s].tracker),
                      ~IsLeaking(storage[s].tracker)
               PROVE  storage[s].memory # "uninit"
    OBVIOUS
  <2>1. RecordInv(storage[s])
    BY StorageFacts
  <2> QED
    BY <2>1 DEF IsUninitialized, IsLeaking, ReferencesAreZeroed, RecordInv
<1> QED
  BY <1>1, Inductive, PTL DEF AssumeInitIsInit

\* A storage goes only by its own Drop.
LEMMA DroppingStep ==
  ASSUME TypeOK, Next, NEW s \in Storages, Dropping(s)
  PROVE  StorageDrop(s)
<1>1. storage[s].life = "live" /\ storage'[s].life = "dropped" /\ storage[s] \in StorageRecord
  BY DEF Dropping, TypeOK
<1>2. ASSUME NEW x \in Storages, StorageStep(x) PROVE StorageDrop(s)
  <2>1. CASE x # s
    BY <1>1, <1>2, <2>1
    DEF StorageStep, SlotStorageNew, LetCxxSlot, SlotStorageSlot, DropSlot, StorageDrop,
        DropUninitialized, DropLeaking, DropKeep, DropInPlace, DropSound, TypeOK
  <2>2. CASE x = s
    BY <1>1, <1>2, <2>2
    DEF StorageStep, SlotStorageNew, LetCxxSlot, SlotStorageSlot, DropSlot, StorageRecord, TypeOK
  <2> QED
    BY <2>1, <2>2
\* The handlers of slots and handles write other fields of a storage than life.
<1>3. storage \in [Storages -> StorageRecord] /\ storage'[s].life # storage[s].life
  BY <1>1 DEF TypeOK
<1>4. ASSUME NEW x \in Storages, InitializeFails(x) PROVE FALSE
  <2>1. PICK c : storage' = [storage EXCEPT ![x].tracker = c, ![x].handle = "none"]
    BY <1>4 DEF InitializeFails
  <2> QED
    BY <1>3, <2>1 DEF StorageRecord
<1>5. ASSUME NEW x \in Storages, NEW m, NEW v, InitializeHolding(x, m, v) PROVE FALSE
  <2>1. PICK c : storage' = [storage EXCEPT ![x].tracker = c, ![x].memory = m, ![x].target = v,
                                            ![x].handle = "moveref"]
    BY <1>5 DEF InitializeHolding
  <2> QED
    BY <1>3, <2>1 DEF StorageRecord
<1>6. ASSUME NEW x \in Storages, ConstructStep(x) PROVE FALSE
  <2>1. CASE TryEmplace(x)
    <3>1. CASE InitializeFails(x)
      BY <1>4, <3>1
    <3>2. CASE ~InitializeFails(x)
      <4>1. PICK c : storage' = [storage EXCEPT ![x].tracker = c, ![x].handle = "call"]
        BY <2>1, <3>2 DEF TryEmplace
      <4> QED
        BY <1>3, <4>1 DEF StorageRecord
    <3> QED
      BY <3>1, <3>2
  <2>2. CASE ConstructFails(x)
    BY <1>3, <2>2 DEF ConstructFails, StorageRecord
  <2>3. ASSUME NEW v \in Values, ConstructOk(x, v) PROVE FALSE
    BY <1>3, <2>3 DEF ConstructOk, StorageRecord
  <2>4. ASSUME NEW v \in Values, Put(x, v) PROVE FALSE
    BY <1>4, <1>5, <2>4 DEF Put
  <2> QED
    BY <1>6, <2>1, <2>2, <2>3, <2>4 DEF ConstructStep
<1>7. ASSUME NEW x \in Storages, MoveRefStep(x) PROVE FALSE
  <2>1. ASSUME NEW c, storage' = [storage EXCEPT ![x].tracker = c, ![x].handle = "none"]
        PROVE  FALSE
    BY <1>3, <2>1 DEF StorageRecord
  <2>2. CASE ForgetMoveRef(x)
    BY <1>3, <2>2 DEF ForgetMoveRef, StorageRecord
  <2>3. CASE MoveRefDrop(x)
    BY <2>1, <2>3 DEF MoveRefDrop
  <2>4. CASE Release(x) \/ IntoInner(x)
    BY <2>1, <2>4 DEF Release, IntoInner, ReleaseTo
  <2> QED
    BY <1>7, <2>2, <2>3, <2>4 DEF MoveRefStep
<1>8. ASSUME NEW x \in Storages, MoveStep(x) PROVE FALSE
  <2>1. ASSUME NEW v \in Values, DerefMoveBox(x, v) \/ DerefMoveUniquePtr(x, v) PROVE FALSE
    BY <1>4, <1>5, <2>1 DEF DerefMoveBox, DerefMoveUniquePtr, MoveOut
  <2>2. ASSUME NEW t \in Storages, DerefMoveMoveRef(x, t) PROVE FALSE
    BY <1>3, <2>2 DEF DerefMoveMoveRef, StorageRecord
  <2>3. ASSUME NEW t \in Storages, NEW c, NEW v, NEW h,
               storage' = [storage EXCEPT ![t].tracker = c, ![t].handle = "none",
                               ![x].memory = "T", ![x].target = v, ![x].handle = h]
        PROVE  FALSE
    BY <1>3, <2>3 DEF StorageRecord
  <2>4. ASSUME NEW t \in Storages, MoveNewTrivial(x, t) PROVE FALSE
    BY <2>3, <2>4 DEF MoveNewTrivial
  <2>5. ASSUME NEW t \in Storages, NEW w \in Values, MoveNewCxx(x, t, w) PROVE FALSE
    <3> DEFINE o == MoveRefDropOutcome(storage[t].tracker)
    <3>1. PICK h \in {"none", "moveref"} :
              storage' = [storage EXCEPT ![t].tracker = o.cells, ![t].handle = "none",
                              ![x].memory = "T", ![x].target = w, ![x].handle = h]
      BY <2>5 DEF MoveNewCxx
    <3> HIDE DEF o
    <3> QED
      BY <2>3, <3>1
  <2> QED
    BY <1>8, <2>1, <2>2, <2>4, <2>5 DEF MoveStep
<1>9. ASSUME ClientStep PROVE FALSE
  BY <1>1, <1>9 DEF ClientStep, ClientPanic, CatchUnwind, ClientDrop
<1> QED
  BY <1>2, <1>6, <1>7, <1>8, <1>9 DEF Next

\* A storage that owns a value or a half-built one goes only in a unit test, and then by
\* starting a panic that the test can expect: in all other builds it does not go at all
\* (double_panic, slot_storage.rs:155).
THEOREM LeakPanicsHolds ==
  ASSUME ReuseRefused
  PROVE  Spec => LeakPanics
<1> DEFINE A == \A s \in Storages :
                   Dropping(s) /\ (HoldsValue(s) \/ FailedConstruction(s)) =>
                       mode = "running" /\ mode' = "unwinding"
<1>1. IInv /\ [Next]_vars => [A]_vars
  <2> SUFFICES ASSUME IInv, Next, NEW s \in Storages, Dropping(s),
                      HoldsValue(s) \/ FailedConstruction(s)
               PROVE  mode = "running" /\ mode' = "unwinding"
    OBVIOUS
  <2>1. TypeOK /\ StorageDrop(s)
    BY DroppingStep DEF IInv
  <2>2. storage[s].life = "live" /\ storage[s].handle = "none" /\ storage'[s].life = "dropped"
    BY <2>1
    DEF Dropping, StorageDrop, DropUninitialized, DropLeaking, DropKeep, DropInPlace, DropSound,
        MayDrop
  <2>3. IsLeaking(storage[s].tracker)
    BY <2>2, InvLeakCheck DEF LeakCheckExact, LeakCheckExactFor
  <2>4. storage[s].tracker.initialized
    BY <2>2 DEF IInv, OwnerInv, HoldsValue, FailedConstruction, Pending
  <2>5. DropLeaking(s)
    BY <2>1, <2>3, <2>4
    DEF StorageDrop, DropUninitialized, DropKeep, DropInPlace, DropSound, IsUninitialized
  <2>6. mode' = DoublePanic(mode) /\ mode' # "aborted" /\ mode \in {"running", "unwinding"}
    BY <2>1, <2>2, <2>5 DEF DropLeaking, TypeOK, MayDrop, Live
  <2> QED
    BY <2>6 DEF DoublePanic, AfterPanic
<1> QED
  BY <1>1, Inductive, PTL DEF Spec, LeakPanics

-----------------------------------------------------------------------------
(* The operations implement PinnedSlots.  No storage is called "outside".    *)

LEMMA HolderCases ==
  ASSUME NEW o \in Homes \cup Storages
  PROVE  /\ o \in Storages \cup {"unborn", "gone"} => HolderOf(o) = o
         /\ o \notin Storages \cup {"unborn", "gone"} => HolderOf(o) = "outside"
  BY DEF HolderOf

\* A value that changes hands changes its holder, and no other value does.
LEMMA HolderStep ==
  ASSUME TypeOK, NEW v \in Values, \A w \in Values \ {v} : value'[w].owner = value[w].owner
  PROVE  Holder' = [Holder EXCEPT ![v] = HolderOf(value'[v].owner)]
  BY DEF Holder, TypeOK

LEMMA EndedStep ==
  /\ AllSame => Ended' = Ended
  /\ \A s \in Storages :
        SameBut(s) /\ storage[s].life # "dropped" /\ storage'[s].life # "dropped" => Ended' = Ended
<1>1. ASSUME AllSame PROVE Ended' = Ended
  BY <1>1 DEF AllSame, Same, Ended
<1>2. ASSUME NEW s \in Storages, SameBut(s), storage[s].life # "dropped",
             storage'[s].life # "dropped"
      PROVE  Ended' = Ended
  BY <1>2 DEF SameBut, Same, Ended
<1> QED
  BY <1>1, <1>2

LEMMA SlotsInit ==
  ASSUME Init PROVE Slots!Init
<1>1. PICK home \in [Values -> {"unborn", "client", "box", "uniqueptr"}] :
          value = [v \in Values |-> InitialValue(home[v])]
  BY DEF Init, SlotStorageInit
<1>2. \A v \in Values : value[v].owner \in {"unborn", "client", "box", "uniqueptr"}
  BY <1>1 DEF InitialValue
<1>3. \A o \in {"unborn", "client", "box", "uniqueptr"} : HolderOf(o) \in {"unborn", "outside"}
  BY HolderCases, StoragesAssumption DEF Homes
<1>4. Holder \in [Values -> {"unborn", "outside"}]
  BY <1>2, <1>3 DEF Holder
<1>5. Ended = {} /\ (mode = "aborted") = FALSE
  BY DEF Init, SlotStorageInit, Unborn, NewStorage, Ended
<1> QED
  BY <1>4, <1>5 DEF Slots!Init

\* Each effect is a step of PinnedSlots, or none.
LEMMA SlotsStep ==
  ASSUME IInv, IInv', ~CfgTest, "outside" \notin Storages, Next
  PROVE  [Slots!Next]_<<Holder, Ended, mode = "aborted">>
<1> DEFINE Goal == [Slots!Next]_<<Holder, Ended, mode = "aborted">>
<1>1. Effect /\ mode # "aborted"
  BY NextEffects DEF Live
<1>2. /\ TypeOK /\ TypeOK' /\ value \in [Values -> ValueRecord]
      /\ value' \in [Values -> ValueRecord]
      /\ storage \in [Storages -> StorageRecord]
      /\ Storages \cap Homes = {}
  BY StoragesAssumption DEF IInv, TypeOK
<1>3. \A v \in Values : value[v].owner \in Homes \cup Storages /\ Holder[v] = HolderOf(value[v].owner)
  BY <1>2 DEF ValueRecord, Holder
<1>4. ASSUME UNCHANGED <<Holder, Ended>> PROVE Goal
  <2>1. CASE mode' = "aborted"
    BY <1>1, <1>4, <2>1 DEF Slots!Next, Slots!Halt
  <2>2. CASE mode' # "aborted"
    BY <1>1, <1>4, <2>2
  <2> QED
    BY <2>1, <2>2
<1>5. CASE Quiet
  BY <1>4, <1>5, EndedStep DEF Quiet, Holder
<1>6. ASSUME NEW s \in Storages, Born(s) PROVE Goal
  <2>1. Ended' = Ended /\ Holder' = Holder
    BY <1>6, EndedStep DEF Born, Holder
  <2> QED
    BY <1>4, <2>1
<1>7. ASSUME NEW s \in Storages, Closed(s) PROVE Goal
  <2>1. Holder' = Holder
    <3>1. \A v \in Values : value'[v].owner = value[v].owner
      BY <1>2, <1>7, DestroyedFacts DEF Closed, ValueRecord, Destroyed
    <3> QED
      BY <3>1 DEF Holder
  <2>2. storage'[s].life = "dropped" /\ s \notin Ended
    BY <1>2, <1>7 DEF Closed, StorageRecord, Ended
  <2>3. Ended' = Ended \cup {s}
    BY <1>7, <2>2 DEF Closed, SameBut, Same, Ended
  <2>4. \A v \in Values : Holder[v] # s
    BY <1>2, <1>3, <1>7, HolderCases DEF Closed, Homes
  <2>5. Slots!End(s)
    BY <2>1, <2>2, <2>3, <2>4 DEF Slots!End
  <2> QED
    BY <1>1, <2>5 DEF Slots!Next
<1>8. ASSUME NEW v \in Values, TakenOut(v) PROVE Goal
  <2>1. PICK home \in {"raw", "client"} : value' = [value EXCEPT ![v].owner = home]
    BY <1>8 DEF TakenOut
  <2>2. /\ value'[v].owner = home
        /\ \A w \in Values \ {v} : value'[w].owner = value[w].owner
    BY <1>2, <2>1 DEF ValueRecord
  <2>3. Holder' = [Holder EXCEPT ![v] = "outside"]
    <3>1. HolderOf(home) = "outside"
      BY <1>2, HolderCases DEF Homes
    <3> QED
      BY <1>2, <2>2, <3>1, HolderStep
  <2>4. Holder[v] \in Storages
    BY <1>3, <1>8, HolderCases DEF TakenOut
  <2>5. Ended' = Ended /\ mode' = mode
    BY <1>8, EndedStep DEF TakenOut
  <2>6. Slots!TakeOut(v)
    BY <2>3, <2>4, <2>5 DEF Slots!TakeOut
  <2> QED
    BY <1>1, <2>6 DEF Slots!Next
<1>9. ASSUME NEW v \in Values, Gone(v) PROVE Goal
  <2>1. PICK h : value' = [value EXCEPT ![v] = [Destroyed(value[v], value[v].owner) EXCEPT !.heap = h]]
    BY <1>9 DEF Gone
  <2>2. value'[v].owner = "gone" /\ \A w \in Values \ {v} : value'[w].owner = value[w].owner
    BY <1>2, <2>1, DestroyedFacts
  <2>3. Holder' = [Holder EXCEPT ![v] = "gone"]
    <3>1. HolderOf("gone") = "gone"
      BY HolderCases DEF Homes
    <3> QED
      BY <1>2, <2>2, <3>1, HolderStep
  <2>4. Holder[v] \in Storages \cup {"outside"}
    BY <1>2, <1>3, <1>9, HolderCases DEF Gone, Homes
  <2>5. Ended' = Ended
    BY <1>9, EndedStep DEF Gone
  <2>6. Slots!Destroy(v)
    BY <2>3, <2>4, <2>5 DEF Slots!Destroy
  <2> QED
    BY <1>1, <2>6 DEF Slots!Next
<1>10. ASSUME NEW v \in Values, Lost(v) PROVE Goal
  <2>1. PICK h : value' = [value EXCEPT ![v].owner = "lost", ![v].heap = h]
    BY <1>10 DEF Lost
  <2>2. value'[v].owner = "lost" /\ \A w \in Values \ {v} : value'[w].owner = value[w].owner
    BY <1>2, <2>1 DEF ValueRecord
  <2>3. HolderOf("lost") = "outside" /\ Holder[v] = "outside"
    BY <1>2, <1>3, <1>10, HolderCases DEF Lost, Homes
  <2>4. Holder' = Holder
    BY <1>2, <2>2, <2>3, HolderStep DEF Holder
  <2>5. Ended' = Ended
    BY <1>10, EndedStep DEF Lost
  <2> QED
    BY <1>4, <2>4, <2>5
<1>11. ASSUME NEW s \in Storages, NEW m \in Memory, NEW v \in Values, Placed(s, m, v) PROVE Goal
  <2>1. /\ value'[v].owner = s
        /\ \A w \in Values \ {v} : value'[w].owner = value[w].owner
    BY <1>2, <1>11 DEF Placed, ValueRecord
  <2>2. Holder' = [Holder EXCEPT ![v] = s]
    <3>1. HolderOf(s) = s
      BY HolderCases
    <3> QED
      BY <1>2, <2>1, <3>1, HolderStep
  <2>3. value[v].owner # "gone"
    BY <1>2, <1>11 DEF Placed, Homes
  <2>4. Holder[v] # "gone"
    BY <1>2, <1>3, <2>3, HolderCases
  <2>5. Ended' = Ended /\ s \notin Ended /\ mode' # "aborted"
    BY <1>11, EndedStep DEF Placed, Filled, Ended
  <2>6. Slots!Place(v, s)
    BY <1>1, <2>2, <2>4, <2>5 DEF Slots!Place
  <2> QED
    BY <1>1, <2>6 DEF Slots!Next
<1>12. ASSUME NEW s \in Storages, NEW v \in Values, NEW w \in Values, Replaced(s, v, w) PROVE Goal
  <2>1. /\ w # v /\ value[w].owner = "unborn" /\ value[v].owner \in Storages
        /\ value' = [value EXCEPT ![w].owner = s, ![v] = Destroyed(@, value[v].owner)]
    BY <1>12 DEF Replaced
  <2>2. /\ \A x \in Values \ {v, w} : value'[x] = value[x]
        /\ value'[w] = [value[w] EXCEPT !.owner = s]
        /\ value'[v] = Destroyed(value[v], value[v].owner)
    BY <1>2, <2>1
  <2>3. value'[w].owner = s /\ value'[v].owner = "gone"
    BY <1>2, <2>2, DestroyedFacts DEF ValueRecord
  <2>4. HolderOf(s) = s /\ HolderOf("gone") = "gone"
    BY HolderCases DEF Homes
  <2>5. Holder' = [Holder EXCEPT ![v] = "gone", ![w] = s]
    <3>1. ASSUME NEW x \in Values
          PROVE  HolderOf(value'[x].owner) =
                     IF x = w THEN s ELSE IF x = v THEN "gone" ELSE HolderOf(value[x].owner)
      <4>1. CASE x \in {v, w}
        BY <2>1, <2>3, <2>4, <4>1
      <4>2. CASE x \notin {v, w}
        <5>1. value'[x] = value[x]
          BY <2>2, <4>2
        <5> QED
          BY <4>2, <5>1
      <4> QED
        BY <4>1, <4>2
    <3> QED
      BY <2>1, <3>1 DEF Holder
  <2>6. Holder[v] \in Storages /\ Holder[w] = "unborn"
    BY <1>3, <2>1, HolderCases
  <2>7. Ended' = Ended /\ s \notin Ended /\ mode' # "aborted"
    BY <1>12, EndedStep DEF Replaced, Filled, Ended
  <2>8. Slots!Replace(v, w, s)
    BY <1>1, <2>1, <2>5, <2>6, <2>7 DEF Slots!Replace
  <2> QED
    BY <1>1, <2>8 DEF Slots!Next
<1> QED
  BY <1>1, <1>5, <1>6, <1>7, <1>8, <1>9, <1>10, <1>11, <1>12 DEF Effect

\* Trackers, handles and panics implement the promise of the abstract specification:
\* a scope does not end around a value it holds.
THEOREM ImplementsPinnedSlotsHolds ==
  ASSUME ReuseRefused, ~CfgTest, "outside" \notin Storages
  PROVE  Spec => ImplementsPinnedSlots
<1>1. Init => Slots!Init
  BY SlotsInit
<1>2. IInv /\ IInv' /\ [Next]_vars => [Slots!Next]_<<Holder, Ended, mode = "aborted">>
  <2>1. CASE UNCHANGED vars
    BY <2>1 DEF vars, Holder, Ended
  <2> QED
    BY <2>1, SlotsStep
<1> QED
  BY <1>1, <1>2, Inductive, PTL DEF Spec, ImplementsPinnedSlots, Slots!Spec

=============================================================================
