--------------------------- MODULE CxxMemoryReuse ---------------------------
(***************************************************************************)
(* Proofs about CxxMemory in programs that reuse storages without debug    *)
(* assertions: the trackers of those storages may say anything, and those  *)
(* of all others stay exact.  The invariant of CxxMemoryProofs is claimed  *)
(* of the Reliable storages only; of the rest, that a MoveRef points to a  *)
(* value of its own, so that nothing it does can reach another storage.    *)
(*                                                                         *)
(* The second half is about what the other storages can lose.  Nothing     *)
(* refuses their second initialize(), so that one can own many values; but *)
(* its counter counts every one of them, as long as none was released, and *)
(* the leak check reads the counter.                                       *)
(***************************************************************************)
EXTENDS CxxMemoryProofs, FiniteSetTheorems

Exact(s) ==
    Reliable(s) =>
        /\ RecordInv(storage[s])
        /\ \A v \in Values :
              value[v].owner = s <=> Pending(storage[s]) /\ storage[s].target = v

HandleOK(s) ==
    /\ storage[s].life = "unborn" => storage[s].origin = "let_cxx"
    /\ storage[s].handle # "none" => storage[s].life = "live"
    /\ storage[s].handle = "moveref" =>
          storage[s].target \in Values /\ value[storage[s].target].owner = s

ReuseInv == TypeOK /\ \A s \in Storages : Exact(s) /\ HandleOK(s)

-----------------------------------------------------------------------------
(* Frames. *)

\* A storage whose record and whose values stay as they are.
LEMMA Untouched ==
  ASSUME ReuseInv, NEW x \in Storages, storage'[x] = storage[x],
         \A v \in Values : value'[v].owner = x <=> value[v].owner = x
  PROVE  Exact(x)' /\ HandleOK(x)'
  BY DEF ReuseInv, Exact, HandleOK, Reliable, RecordInv, Pending

LEMMA ReuseFrame ==
  ASSUME ReuseInv, TypeOK', NEW s \in Storages,
         \A x \in Storages \ {s} : storage'[x] = storage[x],
         \A x \in Storages \ {s}, v \in Values : value'[v].owner = x <=> value[v].owner = x,
         Exact(s)', HandleOK(s)'
  PROVE  ReuseInv'
<1>1. ASSUME NEW x \in Storages PROVE Exact(x)' /\ HandleOK(x)'
  <2>1. CASE x = s
    BY <2>1
  <2>2. CASE x # s
    BY <2>2, Untouched
  <2> QED
    BY <2>1, <2>2
<1> QED
  BY <1>1 DEF ReuseInv

LEMMA ReuseNoFrame ==
  ASSUME ReuseInv, TypeOK', UNCHANGED storage,
         \A x \in Storages, v \in Values : value'[v].owner = x <=> value[v].owner = x
  PROVE  ReuseInv'
<1>1. ASSUME NEW x \in Storages PROVE Exact(x)' /\ HandleOK(x)'
  BY Untouched
<1> QED
  BY <1>1 DEF ReuseInv

\* What the invariant says of one storage.
LEMMA ReuseFacts ==
  ASSUME ReuseInv, NEW s \in Storages
  PROVE  /\ storage \in [Storages -> StorageRecord] /\ value \in [Values -> ValueRecord]
         /\ storage[s] \in StorageRecord /\ storage[s].tracker \in Tracker
         /\ Exact(s) /\ HandleOK(s)
  BY DEF ReuseInv, TypeOK, StorageRecord

LEMMA ReuseInit == Init => ReuseInv
<1> SUFFICES ASSUME Init PROVE ReuseInv
  OBVIOUS
<1>1. IInv
  BY InitInv
<1>2. \A s \in Storages : storage[s].life = "unborn" /\ storage[s].handle = "none"
                          /\ storage[s].origin = "let_cxx"
  BY DEF Init, SlotStorageInit, Unborn, NewStorage
<1> QED
  BY <1>1, <1>2 DEF IInv, OwnerInv, ReuseInv, Exact, HandleOK

-----------------------------------------------------------------------------
(* The operations. *)

LEMMA ReuseStorageStep ==
  ASSUME ReuseInv, TypeOK', NEW s \in Storages, StorageStep(s)
  PROVE  ReuseInv'
<1> DEFINE r == storage[s]
<1>1. /\ storage \in [Storages -> StorageRecord] /\ value \in [Values -> ValueRecord]
      /\ r \in StorageRecord /\ r.tracker \in Tracker /\ Exact(s) /\ HandleOK(s)
  BY ReuseFacts
<1>2. ASSUME NEW k \in Kinds, NEW o \in Origins, NEW h \in {"none", "slot"}, r.life = "unborn",
             storage' = [storage EXCEPT ![s] = NewStorage(k, o, h)], UNCHANGED value
      PROVE  ReuseInv'
  <2>1. storage'[s] = NewStorage(k, o, h) /\ \A x \in Storages \ {s} : storage'[x] = storage[x]
    BY <1>1, <1>2
  <2>2. Reliable(s) /\ ~Pending(r)
    BY <1>1, <1>2 DEF HandleOK, Exact, Reliable, RecordInv, Pending
  <2>3. \A v \in Values : value[v].owner # s
    BY <1>1, <2>2 DEF Exact
  <2>4. RecordInv(storage'[s]) /\ ~Pending(storage'[s])
    BY <2>1 DEF RecordInv, Pending, NewStorage, NewTracker
  <2>5. Exact(s)'
    BY <1>2, <2>3, <2>4 DEF Exact, RecordInv, Pending
  <2>6. HandleOK(s)'
    BY <2>1 DEF HandleOK, NewStorage
  <2> QED
    BY <1>2, <2>1, <2>5, <2>6, ReuseFrame
<1>3. ASSUME NEW k \in Kinds, SlotStorageNew(s, k) PROVE ReuseInv'
  BY <1>2, <1>3 DEF SlotStorageNew
<1>4. ASSUME NEW k \in Kinds, NEW o \in AllOrigins, LetCxxSlot(s, k, o) PROVE ReuseInv'
  BY <1>2, <1>4 DEF LetCxxSlot
<1>5. CASE SlotStorageSlot(s) \/ DropSlot(s)
  <2>1. PICK h \in {"none", "slot"} :
            /\ storage' = [storage EXCEPT ![s].handle = h]
            /\ h = "slot" => r.life = "live" /\ r.origin = "SlotStorage"
            /\ UNCHANGED value
    BY <1>5 DEF SlotStorageSlot, DropSlot
  <2>2. /\ storage'[s] = [r EXCEPT !.handle = h]
        /\ \A x \in Storages \ {s} : storage'[x] = storage[x]
    BY <1>1, <2>1
  <2>3. Exact(s)'
    BY <1>1, <2>1, <2>2 DEF Exact, Reliable, RecordInv, NotGone, Pending, StorageRecord
  <2>4. HandleOK(s)'
    BY <1>1, <2>1, <2>2 DEF HandleOK, StorageRecord
  <2> QED
    BY <2>1, <2>2, <2>3, <2>4, ReuseFrame
<1>6. CASE DropLeaking(s)
  <2>1. PICK l \in {"live", "dropped"} :
            /\ storage' = [storage EXCEPT ![s].life = l]
            /\ r.life = "live" /\ r.handle = "none" /\ (l = "dropped" => CfgTest)
            /\ UNCHANGED value
    BY <1>6 DEF DropLeaking, DoublePanic, MayDrop
  <2>2. /\ storage'[s] = [r EXCEPT !.life = l]
        /\ \A x \in Storages \ {s} : storage'[x] = storage[x]
    BY <1>1, <2>1
  <2>3. Exact(s)'
    BY <1>1, <2>1, <2>2 DEF Exact, Reliable, RecordInv, NotGone, Pending, StorageRecord
  <2>4. HandleOK(s)'
    BY <1>1, <2>1, <2>2 DEF HandleOK, StorageRecord
  <2> QED
    BY <2>1, <2>2, <2>3, <2>4, ReuseFrame
<1>7. CASE DropUninitialized(s) \/ DropKeep(s) \/ DropInPlace(s)
  <2>1. /\ storage' = [storage EXCEPT ![s].life = "dropped"]
        /\ r.life = "live" /\ r.handle = "none"
        /\ IsUninitialized(r.tracker) \/ ~IsLeaking(r.tracker)
    BY <1>7 DEF DropUninitialized, DropKeep, DropInPlace, DropSound, MayDrop
  <2>2. /\ storage'[s] = [r EXCEPT !.life = "dropped"]
        /\ \A x \in Storages \ {s} : storage'[x] = storage[x]
    BY <1>1, <2>1
  <2>3. \A v \in Values :
            /\ \A x \in Storages \ {s} : value'[v].owner = x <=> value[v].owner = x
            /\ value'[v].owner = s => value[v].owner = s
    <3>1. CASE UNCHANGED value
      BY <3>1
    <3>2. CASE value' = [value EXCEPT ![r.target] = Destroyed(@, s)]
      BY <1>1, <3>2, StoragesAssumption DEF Destroyed, ValueRecord, Homes
    <3>3. CASE value' = [value EXCEPT ![r.target].heap = "freed"]
      BY <1>1, <3>3 DEF ValueRecord
    <3> QED
      BY <1>7, <3>1, <3>2, <3>3 DEF DropUninitialized, DropKeep, DropInPlace
  <2>4. ~Pending(r) /\ ~Pending(storage'[s])
    BY <1>1, <2>1, <2>2 DEF Pending, IsUninitialized, IsLeaking, ReferencesAreZeroed, StorageRecord
  <2>5. Exact(s)'
    <3> SUFFICES ASSUME Reliable(s)'
                 PROVE  RecordInv(storage'[s]) /\ \A v \in Values : value'[v].owner # s
      BY <2>4 DEF Exact, RecordInv, Pending
    <3>1. Reliable(s)
      BY <1>1, <2>2 DEF Reliable, StorageRecord
    <3>2. RecordInv(r) /\ \A v \in Values : value[v].owner # s
      BY <1>1, <2>4, <3>1 DEF Exact
    <3>3. r.tracker.initialized => r.memory # "uninit"
      BY <2>1, <3>2 DEF RecordInv, IsUninitialized, IsLeaking, ReferencesAreZeroed
    <3>4. RecordInv(storage'[s])
      BY <1>1, <2>1, <2>2, <2>4, <3>2, <3>3 DEF RecordInv, StorageRecord, Pending
    <3> QED
      BY <2>3, <3>2, <3>4
  <2>6. HandleOK(s)'
    BY <1>1, <2>1, <2>2 DEF HandleOK, StorageRecord
  <2> QED
    BY <2>2, <2>3, <2>5, <2>6, ReuseFrame
<1> QED
  BY <1>3, <1>4, <1>5, <1>6, <1>7, OriginsAssumption DEF StorageStep, StorageDrop

\* initialize() on the slot of s refuses an exact storage only if that is to stay as it is,
\* and otherwise counts to one; without debug assertions it never refuses.
LEMMA InitializeReliable ==
  ASSUME ReuseInv, NEW s \in Storages, storage[s].handle = "slot", Reliable(s)
  PROVE  LET t == storage[s].tracker
             i == Initialize(t)
         IN  \/ i.failed # "none" /\ i.cells = t
             \/ /\ i.failed = "none" /\ ~t.initialized
                /\ i.cells.initialized /\ ~i.cells.released /\ i.cells.references = 1
<1> DEFINE t == storage[s].tracker
<1>1. RecordInv(storage[s]) /\ t \in Tracker
  BY ReuseFacts DEF Exact
<1>2. t.initialized => DebugAssertions
  BY <1>1 DEF RecordInv
<1>3. ~t.initialized => ~t.released /\ t.references = 0
  BY <1>1 DEF RecordInv
<1> QED
  BY <1>1, <1>2, <1>3, InitializeCases

LEMMA ReuseInitializeFails ==
  ASSUME ReuseInv, TypeOK', NEW s \in Storages, storage[s].handle = "slot", InitializeFails(s),
         \A x \in Storages, v \in Values : value'[v].owner = x <=> value[v].owner = x
  PROVE  ReuseInv'
<1> DEFINE r == storage[s]
           c == Initialize(r.tracker).cells
<1>1. /\ storage \in [Storages -> StorageRecord] /\ r \in StorageRecord
      /\ Exact(s) /\ HandleOK(s)
  BY ReuseFacts
<1>2. storage' = [storage EXCEPT ![s].tracker = c, ![s].handle = "none"]
  BY DEF InitializeFails
<1>3. Reliable(s) => c = r.tracker
  BY InitializeReliable DEF InitializeFails
<1> HIDE DEF c
<1>4. /\ storage'[s] = [r EXCEPT !.tracker = c, !.handle = "none"]
      /\ \A x \in Storages \ {s} : storage'[x] = storage[x]
  BY <1>1, <1>2
<1>5. Exact(s)'
  <2>1. CASE Reliable(s)
    BY <1>1, <1>3, <1>4, <2>1 DEF Exact, Reliable, RecordInv, NotGone, Pending, StorageRecord
  <2>2. CASE ~Reliable(s)
    BY <1>1, <1>4, <2>2 DEF Exact, Reliable, StorageRecord
  <2> QED
    BY <2>1, <2>2
<1>6. HandleOK(s)'
  BY <1>1, <1>4 DEF HandleOK, StorageRecord
<1> QED
  BY <1>4, <1>5, <1>6, ReuseFrame

\* The storage s, live and with nothing pending, now holds v.
LEMMA HoldsNow ==
  ASSUME ReuseInv, NEW s \in Storages, NEW v \in Values, storage[s].handle # "none",
         storage'[s].life = storage[s].life, storage'[s].origin = storage[s].origin,
         storage'[s].memory # "uninit", storage'[s].target = v,
         storage'[s].handle \in {"none", "moveref"},
         Reliable(s) => /\ ~Pending(storage[s])
                        /\ storage'[s].tracker.initialized /\ ~storage'[s].tracker.released
                        /\ storage'[s].tracker.references = 1,
         value'[v].owner = s,
         \A w \in Values \ {v} : value'[w].owner = s => value[w].owner = s
  PROVE  Exact(s)' /\ HandleOK(s)'
<1> DEFINE r == storage[s]
<1>1. Exact(s) /\ HandleOK(s) /\ r.life = "live"
  BY ReuseFacts DEF HandleOK
<1>2. HandleOK(s)'
  BY <1>1 DEF HandleOK
<1>3. ASSUME Reliable(s)
      PROVE  /\ RecordInv(storage'[s]) /\ Pending(storage'[s])
             /\ \A w \in Values : value'[w].owner = s <=> w = v
  <2>1. r.origin \in Origins
    BY <1>1, <1>3 DEF Exact, RecordInv
  <2>2. RecordInv(storage'[s]) /\ Pending(storage'[s])
    BY <1>1, <1>3, <2>1 DEF RecordInv, NotGone, Pending
  <2>3. \A w \in Values : value[w].owner # s
    BY <1>1, <1>3 DEF Exact
  <2> QED
    BY <2>2, <2>3
<1>4. Reliable(s)' <=> Reliable(s)
  BY DEF Reliable
<1>5. Exact(s)'
  BY <1>3, <1>4 DEF Exact, RecordInv, Pending
<1> QED
  BY <1>2, <1>5

LEMMA ReuseInitializeHolding ==
  ASSUME ReuseInv, TypeOK', NEW s \in Storages, storage[s].handle = "slot",
         NEW m \in Memory \ {"uninit"}, NEW v \in Values, InitializeHolding(s, m, v),
         value[v].owner \notin Storages, value' = [value EXCEPT ![v].owner = s]
  PROVE  ReuseInv'
<1> DEFINE r == storage[s]
           c == Initialize(r.tracker).cells
<1>1. /\ storage \in [Storages -> StorageRecord] /\ value \in [Values -> ValueRecord]
      /\ r.tracker \in Tracker /\ r \in StorageRecord
  BY ReuseFacts
<1>2. storage' = [storage EXCEPT ![s].tracker = c, ![s].memory = m, ![s].target = v,
                                 ![s].handle = "moveref"]
  BY DEF InitializeHolding
<1>3. Reliable(s) => ~Pending(r) /\ c.initialized /\ ~c.released /\ c.references = 1
  BY InitializeReliable DEF InitializeHolding, Pending
<1> HIDE DEF c
<1>4. /\ storage'[s] = [r EXCEPT !.tracker = c, !.memory = m, !.target = v, !.handle = "moveref"]
      /\ \A x \in Storages \ {s} : storage'[x] = storage[x]
  BY <1>1, <1>2
<1>5. \A w \in Values : value'[w].owner = IF w = v THEN s ELSE value[w].owner
  BY <1>1 DEF ValueRecord
<1>6. Exact(s)' /\ HandleOK(s)'
  <2>1. /\ storage'[s].life = r.life /\ storage'[s].origin = r.origin
        /\ storage'[s].memory = m /\ storage'[s].target = v /\ storage'[s].handle = "moveref"
        /\ storage'[s].tracker = c
    BY <1>1, <1>4 DEF StorageRecord
  <2>2. /\ value'[v].owner = s
        /\ \A w \in Values \ {v} : value'[w].owner = s => value[w].owner = s
    BY <1>5
  <2> QED
    BY <1>3, <2>1, <2>2, HoldsNow
<1>7. \A x \in Storages \ {s}, w \in Values : value'[w].owner = x <=> value[w].owner = x
  BY <1>5
<1> QED
  BY <1>4, <1>6, <1>7, ReuseFrame

LEMMA ReuseConstructStep ==
  ASSUME ReuseInv, TypeOK', NEW s \in Storages, ConstructStep(s)
  PROVE  ReuseInv'
<1> DEFINE r == storage[s]
<1>1. /\ storage \in [Storages -> StorageRecord] /\ value \in [Values -> ValueRecord]
      /\ r \in StorageRecord /\ r.tracker \in Tracker /\ Exact(s) /\ HandleOK(s)
  BY ReuseFacts
<1>2. CASE TryEmplace(s)
  <2>1. CASE InitializeFails(s)
    BY <1>2, <2>1, ReuseInitializeFails DEF TryEmplace, CanUse
  <2>2. CASE ~InitializeFails(s)
    <3> DEFINE i == Initialize(r.tracker)
    <3>1. r.handle = "slot" /\ i.failed = "none" /\ UNCHANGED value
      BY <1>2, <2>2 DEF TryEmplace, CanUse
    <3>2. Reliable(s) => /\ ~r.tracker.initialized
                         /\ i.cells.initialized /\ ~i.cells.released /\ i.cells.references = 1
      BY <3>1, InitializeReliable
    <3>3. storage' = [storage EXCEPT ![s].tracker = i.cells, ![s].handle = "call"]
      BY <1>2, <2>2 DEF TryEmplace
    <3> HIDE DEF i
    <3>4. /\ storage'[s] = [r EXCEPT !.tracker = i.cells, !.handle = "call"]
          /\ \A x \in Storages \ {s} : storage'[x] = storage[x]
      BY <1>1, <3>3
    <3>5. r.life = "live"
      BY <1>1, <3>1 DEF HandleOK
    <3>6. Exact(s)'
      <4>1. CASE Reliable(s)
        <5>1. r.memory = "uninit" /\ ~Pending(r) /\ r.origin \in Origins
          BY <1>1, <3>2, <3>5, <4>1 DEF Exact, RecordInv, Pending
        <5>2. RecordInv(storage'[s]) /\ ~Pending(storage'[s])
          BY <1>1, <3>2, <3>4, <3>5, <4>1, <5>1 DEF RecordInv, NotGone, Pending, StorageRecord
        <5>3. \A v \in Values : value'[v].owner # s
          BY <1>1, <3>1, <4>1, <5>1 DEF Exact
        <5> QED
          BY <5>2, <5>3 DEF Exact, RecordInv, Pending
      <4>2. CASE ~Reliable(s)
        BY <1>1, <3>4, <4>2 DEF Exact, Reliable, StorageRecord
      <4> QED
        BY <4>1, <4>2
    <3>7. HandleOK(s)'
      BY <1>1, <3>4, <3>5 DEF HandleOK, StorageRecord
    <3> QED
      BY <3>1, <3>4, <3>6, <3>7, ReuseFrame
  <2> QED
    BY <2>1, <2>2
<1>3. CASE ConstructFails(s)
  <2>1. /\ storage' = [storage EXCEPT ![s].memory = "uninit", ![s].target = None,
                                      ![s].handle = "none"]
        /\ r.handle = "call" /\ UNCHANGED value
    BY <1>3 DEF ConstructFails, Innermost
  <2>2. /\ storage'[s] = [r EXCEPT !.memory = "uninit", !.target = None, !.handle = "none"]
        /\ \A x \in Storages \ {s} : storage'[x] = storage[x]
    BY <1>1, <2>1
  <2>3. Exact(s)'
    <3>1. CASE Reliable(s)
      <4>1. r.tracker.initialized /\ r.memory = "uninit" /\ ~Pending(r)
        BY <1>1, <2>1, <3>1 DEF Exact, RecordInv, Pending
      <4>2. RecordInv(storage'[s]) /\ ~Pending(storage'[s])
        BY <1>1, <2>2, <3>1, <4>1 DEF Exact, RecordInv, NotGone, Pending, StorageRecord
      <4>3. \A v \in Values : value'[v].owner # s
        BY <1>1, <2>1, <3>1, <4>1 DEF Exact
      <4> QED
        BY <4>2, <4>3 DEF Exact, RecordInv, Pending
    <3>2. CASE ~Reliable(s)
      BY <1>1, <2>2, <3>2 DEF Exact, Reliable, StorageRecord
    <3> QED
      BY <3>1, <3>2
  <2>4. HandleOK(s)'
    BY <1>1, <2>2 DEF HandleOK, StorageRecord
  <2> QED
    BY <2>1, <2>2, <2>3, <2>4, ReuseFrame
<1>4. ASSUME NEW v \in Values, ConstructOk(s, v) PROVE ReuseInv'
  <2>1. /\ storage' = [storage EXCEPT ![s].memory = "T", ![s].target = v, ![s].handle = "moveref"]
        /\ r.handle = "call"
        /\ value' = [value EXCEPT ![v].owner = s]
        /\ value[v].owner \notin Storages
    BY <1>4, StoragesAssumption DEF ConstructOk, Innermost, Homes
  <2>2. /\ storage'[s] = [r EXCEPT !.memory = "T", !.target = v, !.handle = "moveref"]
        /\ \A x \in Storages \ {s} : storage'[x] = storage[x]
    BY <1>1, <2>1
  <2>3. Reliable(s) => /\ ~Pending(r) /\ r.tracker.initialized /\ ~r.tracker.released
                       /\ r.tracker.references = 1
    BY <1>1, <2>1 DEF Exact, RecordInv, Pending
  <2>4. \A w \in Values : value'[w].owner = IF w = v THEN s ELSE value[w].owner
    BY <1>1, <2>1 DEF ValueRecord
  <2>5. Exact(s)' /\ HandleOK(s)'
    <3>1. /\ storage'[s].life = r.life /\ storage'[s].origin = r.origin
          /\ storage'[s].memory = "T" /\ storage'[s].target = v /\ storage'[s].handle = "moveref"
          /\ storage'[s].tracker = r.tracker
      BY <1>1, <2>2 DEF StorageRecord
    <3>2. /\ value'[v].owner = s
          /\ \A w \in Values \ {v} : value'[w].owner = s => value[w].owner = s
      BY <2>4
    <3> QED
      BY <2>1, <2>3, <3>1, <3>2, HoldsNow
  <2>6. \A x \in Storages \ {s}, w \in Values : value'[w].owner = x <=> value[w].owner = x
    BY <2>1, <2>4
  <2> QED
    BY <2>2, <2>5, <2>6, ReuseFrame
<1>5. ASSUME NEW v \in Values, Put(s, v) PROVE ReuseInv'
  <2>1. r.handle = "slot" /\ value[v].owner = "client" /\ "client" \notin Storages
    BY <1>5, StoragesAssumption DEF Put, CanUse, Homes
  <2>2. CASE /\ InitializeFails(s)
             /\ value' = [value EXCEPT ![v] = Destroyed(@, "client")]
             /\ mode' \in {AfterPanic(mode), AfterPanic(AfterPanic(mode))}
    <3>1. \A w \in Values : value'[w].owner = IF w = v THEN "gone" ELSE value[w].owner
      BY <1>1, <2>1, <2>2 DEF Destroyed, ValueRecord
    <3>2. \A x \in Storages, w \in Values : value'[w].owner = x <=> value[w].owner = x
      BY <2>1, <3>1, StoragesAssumption DEF Homes
    <3> QED
      BY <2>1, <2>2, <3>2, ReuseInitializeFails
  <2>3. CASE InitializeHolding(s, "T", v) /\ value' = [value EXCEPT ![v].owner = s]
    BY <2>1, <2>3, ReuseInitializeHolding DEF Memory
  <2> QED
    BY <1>5, <2>2, <2>3 DEF Put
<1> QED
  BY <1>2, <1>3, <1>4, <1>5 DEF ConstructStep

\* The MoveRef of s has ended, with nothing pending left: its value, which was the one that s
\* owned, has gone home.
LEMMA EndsNow ==
  ASSUME ReuseInv, NEW s \in Storages, storage[s].handle = "moveref",
         storage'[s].life = storage[s].life, storage'[s].origin = storage[s].origin,
         storage'[s].memory = storage[s].memory, storage'[s].handle = "none",
         Reliable(s) => /\ storage'[s].tracker.initialized
                        /\ storage'[s].tracker.released \/ storage'[s].tracker.references = 0
                        /\ value'[storage[s].target].owner # s,
         \A w \in Values \ {storage[s].target} : value'[w].owner = s => value[w].owner = s
  PROVE  Exact(s)' /\ HandleOK(s)'
<1> DEFINE r == storage[s]
<1>1. Exact(s) /\ HandleOK(s) /\ r.life = "live"
  BY ReuseFacts DEF HandleOK
<1>2. HandleOK(s)'
  BY <1>1 DEF HandleOK
<1>3. ASSUME Reliable(s)
      PROVE  RecordInv(storage'[s]) /\ ~Pending(storage'[s]) /\ \A w \in Values : value'[w].owner # s
  <2>1. r.origin \in Origins /\ r.memory # "uninit"
    BY <1>1, <1>3 DEF Exact, RecordInv, Pending
  <2>2. RecordInv(storage'[s]) /\ ~Pending(storage'[s])
    BY <1>1, <1>3, <2>1 DEF RecordInv, Pending
  <2>3. \A w \in Values : value[w].owner = s => w = r.target
    BY <1>1, <1>3 DEF Exact
  <2> QED
    BY <1>3, <2>2, <2>3
<1>4. Reliable(s)' <=> Reliable(s)
  BY DEF Reliable
<1>5. Exact(s)'
  BY <1>3, <1>4 DEF Exact, RecordInv, Pending
<1> QED
  BY <1>2, <1>5

\* The tracker behind a MoveRef of a Reliable storage.
LEMMA MoveRefReliable ==
  ASSUME ReuseInv, NEW s \in Storages, storage[s].handle = "moveref"
  PROVE  LET t == storage[s].tracker
             v == storage[s].target
         IN  /\ Reliable(s) => t.initialized /\ ~t.released /\ t.references = 1
             /\ t \in Tracker /\ v \in Values /\ value[v] \in ValueRecord /\ value[v].owner = s
<1>1. Exact(s) /\ HandleOK(s) /\ storage[s].tracker \in Tracker
      /\ value \in [Values -> ValueRecord]
  BY ReuseFacts
<1>2. Reliable(s) => LET t == storage[s].tracker
                     IN  t.initialized /\ ~t.released /\ t.references = 1
  BY <1>1 DEF Exact, RecordInv, Pending
<1> QED
  BY <1>1, <1>2 DEF HandleOK

\* A MoveRef's drop, whatever the tracker says: at most its own value is destroyed, and with
\* it the ownership of s ends.
LEMMA DropEnds ==
  ASSUME ReuseInv, NEW s \in Storages, storage[s].handle = "moveref"
  PROVE  LET t == storage[s].tracker
             o == MoveRefDropOutcome(t)
             d == Destroyed(value[storage[s].target], s)
         IN  /\ Reliable(s) => /\ o.drops /\ o.cells.initialized /\ o.cells.references = 0
             /\ d.owner = "gone"
<1> DEFINE t == storage[s].tracker
           o == MoveRefDropOutcome(t)
<1>1. /\ t \in Tracker /\ value[storage[s].target] \in ValueRecord
      /\ value[storage[s].target].owner = s
      /\ Reliable(s) => t.initialized /\ ~t.released /\ t.references = 1
  BY MoveRefReliable
<1>2. ASSUME Reliable(s) PROVE o.drops /\ o.cells.initialized /\ o.cells.references = 0
  <2>1. o.drops /\ o.cells = [t EXCEPT !.references = 0]
    BY <1>1, <1>2, DropOfPending
  <2> QED
    BY <1>1, <1>2, <2>1 DEF Tracker
<1>3. Destroyed(value[storage[s].target], s).owner = "gone"
  BY <1>1 DEF Destroyed, ValueRecord
<1> QED
  BY <1>2, <1>3

LEMMA ReuseMoveRefStep ==
  ASSUME ReuseInv, TypeOK', NEW s \in Storages, MoveRefStep(s)
  PROVE  ReuseInv'
<1> DEFINE r == storage[s]
           v == r.target
<1>1. r.handle = "moveref"
  BY DEF MoveRefStep, MoveRefDrop, ForgetMoveRef, Release, IntoInner, ReleaseTo, HasMoveRef
<1>2. /\ storage \in [Storages -> StorageRecord] /\ value \in [Values -> ValueRecord]
      /\ r \in StorageRecord /\ r.tracker \in Tracker /\ Exact(s) /\ HandleOK(s)
  BY ReuseFacts
<1>3. v \in Values /\ value[v].owner = s /\ "gone" \notin Storages /\ "raw" \notin Storages
      /\ "client" \notin Storages
  BY <1>1, MoveRefReliable, StoragesAssumption DEF Homes
<1>4. ASSUME NEW c, storage' = [storage EXCEPT ![s].tracker = c, ![s].handle = "none"]
      PROVE  /\ \A x \in Storages \ {s} : storage'[x] = storage[x]
             /\ storage'[s].life = r.life /\ storage'[s].origin = r.origin
             /\ storage'[s].memory = r.memory /\ storage'[s].handle = "none"
             /\ storage'[s].tracker = c
  BY <1>2, <1>4 DEF StorageRecord
<1>5. CASE MoveRefDrop(s)
  <2> DEFINE o == MoveRefDropOutcome(r.tracker)
             d == Destroyed(value[v], s)
  <2>1. /\ storage' = [storage EXCEPT ![s].tracker = o.cells, ![s].handle = "none"]
        /\ value' = IF o.drops THEN [value EXCEPT ![v] = d] ELSE value
    BY <1>5 DEF MoveRefDrop
  <2>2. /\ Reliable(s) => o.drops /\ o.cells.initialized /\ o.cells.references = 0
        /\ d.owner = "gone"
    BY <1>1, DropEnds
  <2> HIDE DEF o, d
  <2>3. /\ value'[v].owner = IF o.drops THEN "gone" ELSE s
        /\ \A w \in Values \ {v} : value'[w] = value[w]
    BY <1>2, <1>3, <2>1, <2>2
  <2>4. Exact(s)' /\ HandleOK(s)'
    <3>1. /\ storage'[s].life = r.life /\ storage'[s].origin = r.origin
          /\ storage'[s].memory = r.memory /\ storage'[s].handle = "none"
          /\ storage'[s].tracker = o.cells
      BY <1>4, <2>1
    <3>2. Reliable(s) => /\ storage'[s].tracker.initialized
                         /\ storage'[s].tracker.released \/ storage'[s].tracker.references = 0
                         /\ value'[r.target].owner # s
      BY <1>3, <2>2, <2>3, <3>1
    <3>3. \A w \in Values \ {r.target} : value'[w].owner = s => value[w].owner = s
      BY <2>3
    <3> QED
      BY <1>1, <3>1, <3>2, <3>3, EndsNow
  <2>5. \A x \in Storages \ {s}, w \in Values : value'[w].owner = x <=> value[w].owner = x
    BY <1>3, <2>3
  <2> QED
    BY <1>4, <2>1, <2>4, <2>5, ReuseFrame
<1>6. CASE ForgetMoveRef(s)
  <2>1. storage' = [storage EXCEPT ![s].handle = "none"] /\ UNCHANGED value
    BY <1>6 DEF ForgetMoveRef
  <2>2. /\ storage'[s] = [r EXCEPT !.handle = "none"]
        /\ \A x \in Storages \ {s} : storage'[x] = storage[x]
    BY <1>2, <2>1
  <2>3. Exact(s)'
    BY <1>2, <2>1, <2>2 DEF Exact, Reliable, RecordInv, NotGone, Pending, StorageRecord
  <2>4. HandleOK(s)'
    BY <1>2, <2>2 DEF HandleOK, StorageRecord
  <2> QED
    BY <2>1, <2>2, <2>3, <2>4, ReuseFrame
<1>7. CASE Release(s) \/ IntoInner(s)
  <2> DEFINE o == ReleaseOutcome(r.tracker)
             c == [r.tracker EXCEPT !.released = TRUE]
  <2>1. ~o.drops /\ o.cells = c /\ c.released /\ c.initialized = r.tracker.initialized
    BY <1>2, DropOfReleased DEF Tracker
  <2>2. PICK home \in {"raw", "client"} : ReleaseTo(s, home)
    BY <1>7 DEF Release, IntoInner
  <2>3. /\ storage' = [storage EXCEPT ![s].tracker = c, ![s].handle = "none"]
        /\ value' = [value EXCEPT ![v].owner = home]
    BY <2>1, <2>2 DEF ReleaseTo, ReadOut
  <2>4. Reliable(s) => r.tracker.initialized
    BY <1>1, MoveRefReliable
  <2> HIDE DEF o, c
  <2>5. /\ value'[v].owner = home
        /\ \A w \in Values \ {v} : value'[w] = value[w]
    BY <1>2, <1>3, <2>3 DEF ValueRecord
  <2>6. Exact(s)' /\ HandleOK(s)'
    <3>1. /\ storage'[s].life = r.life /\ storage'[s].origin = r.origin
          /\ storage'[s].memory = r.memory /\ storage'[s].handle = "none"
          /\ storage'[s].tracker = c
      BY <1>4, <2>3
    <3>2. Reliable(s) => /\ storage'[s].tracker.initialized
                         /\ storage'[s].tracker.released \/ storage'[s].tracker.references = 0
                         /\ value'[r.target].owner # s
      BY <1>3, <2>1, <2>4, <2>5, <3>1
    <3>3. \A w \in Values \ {r.target} : value'[w].owner = s => value[w].owner = s
      BY <2>5
    <3> QED
      BY <1>1, <3>1, <3>2, <3>3, EndsNow
  <2>7. \A x \in Storages \ {s}, w \in Values : value'[w].owner = x <=> value[w].owner = x
    BY <1>3, <2>5
  <2> QED
    BY <1>4, <2>3, <2>6, <2>7, ReuseFrame
<1> QED
  BY <1>5, <1>6, <1>7 DEF MoveRefStep

\* A value moves, or is replaced, from the MoveRef of t into the constructor of s: t keeps
\* nothing pending, if its tracker counts at all, and s now holds w, with a MoveRef unless
\* that panicked.
LEMMA ReuseMoveNew ==
  ASSUME ReuseInv, TypeOK', NEW s \in Storages, NEW t \in Storages, NEW w \in Values,
         storage[s].handle = "call", storage[t].handle = "moveref", NEW c,
         NEW h \in {"none", "moveref"},
         storage' = [storage EXCEPT
                       ![t].tracker = c, ![t].handle = "none",
                       ![s].memory = "T", ![s].target = w, ![s].handle = h],
         Reliable(t) => /\ c.initialized
                        /\ c.released \/ c.references = 0
                        /\ value'[storage[t].target].owner # t,
         value'[w].owner = s,
         value[w].owner \in Storages => value[w].owner = t,
         \A v \in Values \ {w} : \/ value'[v].owner = value[v].owner
                                 \/ value[v].owner = t /\ value'[v].owner \notin Storages
  PROVE  ReuseInv'
<1> DEFINE r == storage[s]
           q == storage[t]
<1>1. /\ storage \in [Storages -> StorageRecord]
      /\ r \in StorageRecord /\ q \in StorageRecord /\ Exact(s) /\ s # t
  BY ReuseFacts
<1>2. /\ storage'[t] = [q EXCEPT !.tracker = c, !.handle = "none"]
      /\ storage'[s] = [r EXCEPT !.memory = "T", !.target = w, !.handle = h]
      /\ \A x \in Storages \ {s, t} : storage'[x] = storage[x]
  BY <1>1
<1>3. Exact(s)' /\ HandleOK(s)'
  <2>1. /\ storage'[s].life = r.life /\ storage'[s].origin = r.origin
        /\ storage'[s].memory = "T" /\ storage'[s].target = w /\ storage'[s].handle = h
        /\ storage'[s].tracker = r.tracker
    BY <1>1, <1>2 DEF StorageRecord
  <2>2. Reliable(s) => /\ ~Pending(r) /\ r.tracker.initialized /\ ~r.tracker.released
                       /\ r.tracker.references = 1
    BY <1>1 DEF Exact, RecordInv, Pending
  <2>3. \A v \in Values \ {w} : value'[v].owner = s => value[v].owner = s
    OBVIOUS
  <2> QED
    BY <2>1, <2>2, <2>3, HoldsNow, ZenonT(60)
<1>4. Exact(t)' /\ HandleOK(t)'
  <2>1. /\ storage'[t].life = q.life /\ storage'[t].origin = q.origin
        /\ storage'[t].memory = q.memory /\ storage'[t].handle = "none"
        /\ storage'[t].tracker = c
    BY <1>1, <1>2 DEF StorageRecord
  <2>2. Reliable(t) => /\ storage'[t].tracker.initialized
                       /\ storage'[t].tracker.released \/ storage'[t].tracker.references = 0
                       /\ value'[q.target].owner # t
    BY <2>1
  <2>3. \A v \in Values \ {q.target} : value'[v].owner = t => value[v].owner = t
    BY <1>1
  <2> QED
    BY <2>1, <2>2, <2>3, EndsNow
<1>5. ASSUME NEW x \in Storages \ {s, t} PROVE Exact(x)' /\ HandleOK(x)'
  <2>1. \A v \in Values : value'[v].owner = x <=> value[v].owner = x
    BY <1>5
  <2> QED
    BY <1>2, <2>1, Untouched
<1>6. ASSUME NEW x \in Storages PROVE Exact(x)' /\ HandleOK(x)'
  <2>1. CASE x = s
    BY <1>3, <2>1
  <2>2. CASE x = t
    BY <1>4, <2>2
  <2>3. CASE x \notin {s, t}
    BY <1>5, <2>3
  <2> QED
    BY <2>1, <2>2, <2>3
<1> QED
  BY <1>6 DEF ReuseInv

LEMMA ReuseMoveStep ==
  ASSUME ReuseInv, TypeOK', NEW s \in Storages, MoveStep(s)
  PROVE  ReuseInv'
<1>1. storage \in [Storages -> StorageRecord] /\ value \in [Values -> ValueRecord]
  BY ReuseFacts DEF ReuseInv, TypeOK
<1>2. ASSUME NEW v \in Values, DerefMoveBox(s, v) \/ DerefMoveUniquePtr(s, v) PROVE ReuseInv'
  <2>1. PICK owner \in {"box", "uniqueptr"}, h \in {"freed", "live"} : MoveOut(s, v, owner, h)
    BY <1>2 DEF DerefMoveBox, DerefMoveUniquePtr
  <2>2. storage[s].handle = "slot" /\ value[v].owner = owner /\ owner \notin Storages
    BY <2>1, StoragesAssumption DEF MoveOut, CanUse, Homes
  <2>3. CASE /\ InitializeFails(s)
             /\ mode' = AfterPanic(mode)
             /\ value' = [value EXCEPT ![v].owner = "lost", ![v].heap = h]
    <3>1. \A w \in Values : value'[w].owner = IF w = v THEN "lost" ELSE value[w].owner
      BY <1>1, <2>3 DEF ValueRecord
    <3>2. \A x \in Storages, w \in Values : value'[w].owner = x <=> value[w].owner = x
      BY <2>2, <3>1, StoragesAssumption DEF Homes
    <3> QED
      BY <2>2, <2>3, <3>2, ReuseInitializeFails
  <2>4. CASE InitializeHolding(s, owner, v) /\ value' = [value EXCEPT ![v].owner = s]
    BY <2>2, <2>4, ReuseInitializeHolding DEF Memory
  <2> QED
    BY <2>1, <2>3, <2>4 DEF MoveOut
<1>3. ASSUME NEW t \in Storages, DerefMoveMoveRef(s, t) PROVE ReuseInv'
  <2> DEFINE r == storage[t]
  <2>1. storage' = [storage EXCEPT ![t].handle = "none"] /\ UNCHANGED value
    BY <1>3 DEF DerefMoveMoveRef
  <2>2. /\ storage'[t] = [r EXCEPT !.handle = "none"] /\ r \in StorageRecord
        /\ \A x \in Storages \ {t} : storage'[x] = storage[x]
        /\ Exact(t) /\ HandleOK(t)
    BY <1>1, <2>1, ReuseFacts
  <2>3. Exact(t)'
    BY <2>1, <2>2 DEF Exact, Reliable, RecordInv, NotGone, Pending, StorageRecord
  <2>4. HandleOK(t)'
    BY <2>1, <2>2 DEF HandleOK, StorageRecord
  <2> QED
    BY <2>1, <2>2, <2>3, <2>4, ReuseFrame
<1>4. ASSUME NEW t \in Storages, MoveNewTrivial(s, t) PROVE ReuseInv'
  <2> DEFINE o == ReleaseOutcome(storage[t].tracker)
             c == [storage[t].tracker EXCEPT !.released = TRUE]
             v == storage[t].target
  <2>1. storage[t].handle = "moveref" /\ storage[s].handle = "call"
    BY <1>4 DEF MoveNewTrivial, HasMoveRef, Innermost
  <2>2. /\ storage[t].tracker \in Tracker /\ v \in Values /\ value[v].owner = t
        /\ Reliable(t) => storage[t].tracker.initialized
    BY <2>1, MoveRefReliable
  <2>3. ~o.drops /\ o.cells = c /\ c.released /\ c.initialized = storage[t].tracker.initialized
    BY <2>2, DropOfReleased DEF Tracker
  <2>4. /\ storage' = [storage EXCEPT
                         ![t].tracker = c, ![t].handle = "none",
                         ![s].memory = "T", ![s].target = v, ![s].handle = "moveref"]
        /\ value' = [value EXCEPT ![v] = [@ EXCEPT !.owner = s]]
    BY <1>4, <2>3 DEF MoveNewTrivial, ReadOut
  <2>5. /\ value'[v].owner = s /\ s # t
        /\ \A x \in Values \ {v} : value'[x].owner = value[x].owner
    BY <1>1, <2>1, <2>2, <2>4 DEF ValueRecord
  <2>6. Reliable(t) => c.initialized /\ (c.released \/ c.references = 0) /\ value'[v].owner # t
    BY <2>2, <2>3, <2>5
  <2>7. storage' = [storage EXCEPT
                      ![t].tracker = c, ![t].handle = "none",
                      ![s].memory = "T", ![s].target = v, ![s].handle = "moveref"]
    BY <2>4
  <2>8. /\ value[v].owner \in Storages => value[v].owner = t
        /\ \A x \in Values \ {v} : \/ value'[x].owner = value[x].owner
                                   \/ value[x].owner = t /\ value'[x].owner \notin Storages
    BY <2>2, <2>5
  <2> HIDE DEF c, o
  <2> QED
    BY <2>1, <2>2, <2>5, <2>6, <2>7, <2>8, ReuseMoveNew, ZenonT(60)
<1>5. ASSUME NEW t \in Storages, NEW w \in Values, MoveNewCxx(s, t, w) PROVE ReuseInv'
  <2> DEFINE o == MoveRefDropOutcome(storage[t].tracker)
             v == storage[t].target
             d == Destroyed(value[v], t)
  <2>1. storage[t].handle = "moveref" /\ storage[s].handle = "call" /\ value[w].owner = "unborn"
    BY <1>5 DEF MoveNewCxx, HasMoveRef, Innermost
  <2>2. v \in Values /\ value[v].owner = t
    BY <2>1, MoveRefReliable
  <2>3. /\ Reliable(t) => o.drops /\ o.cells.initialized /\ o.cells.references = 0
        /\ d.owner = "gone"
    BY <2>1, DropEnds
  <2>4. w # v /\ "unborn" \notin Storages /\ "gone" \notin Storages
    BY <2>1, <2>2, StoragesAssumption DEF Homes
  <2>5. PICK h \in {"none", "moveref"} :
            /\ storage' = [storage EXCEPT
                             ![t].tracker = o.cells, ![t].handle = "none",
                             ![s].memory = "T", ![s].target = w, ![s].handle = h]
            /\ value' = [value EXCEPT ![w].owner = s, ![v] = IF o.drops THEN Destroyed(@, t) ELSE @]
    BY <1>5 DEF MoveNewCxx
  <2>6. /\ value'[w].owner = s
        /\ value'[v].owner = IF o.drops THEN "gone" ELSE value[v].owner
        /\ \A x \in Values \ {v, w} : value'[x].owner = value[x].owner
    BY <1>1, <2>2, <2>3, <2>4, <2>5 DEF ValueRecord
  <2> HIDE DEF o, d
  <2>7. Reliable(t) => /\ o.cells.initialized
                       /\ o.cells.released \/ o.cells.references = 0
                       /\ value'[v].owner # t
    BY <2>3, <2>4, <2>6
  <2>8. \A x \in Values \ {w} : \/ value'[x].owner = value[x].owner
                                \/ value[x].owner = t /\ value'[x].owner \notin Storages
    BY <2>2, <2>4, <2>6
  <2>9. value[w].owner \in Storages => value[w].owner = t
    BY <2>1, <2>4
  <2> QED
    BY <2>1, <2>5, <2>6, <2>7, <2>8, <2>9, ReuseMoveNew, ZenonT(60)
<1> QED
  BY <1>2, <1>3, <1>4, <1>5 DEF MoveStep

LEMMA ReuseClientStep ==
  ASSUME ReuseInv, TypeOK', ClientStep
  PROVE  ReuseInv'
<1>1. CASE ClientPanic \/ CatchUnwind
  BY <1>1, ReuseNoFrame DEF ClientPanic, CatchUnwind
<1>2. ASSUME NEW v \in Values, ClientDrop(v) PROVE ReuseInv'
  <2>1. value \in [Values -> ValueRecord]
    BY DEF ReuseInv, TypeOK
  <2>2. /\ UNCHANGED storage
        /\ value' = [value EXCEPT ![v] = DroppedByClient(@)]
        /\ value[v].owner \notin Storages
    BY <1>2, StoragesAssumption DEF ClientDrop, Homes
  <2>3. DroppedByClient(value[v]).owner = "gone"
    BY <2>1 DEF DroppedByClient, Destroyed, ValueRecord
  <2>4. \A w \in Values : value'[w].owner = IF w = v THEN "gone" ELSE value[w].owner
    BY <2>1, <2>2, <2>3
  <2>5. \A x \in Storages, w \in Values : value'[w].owner = x <=> value[w].owner = x
    BY <2>2, <2>4, StoragesAssumption DEF Homes
  <2> QED
    BY <2>2, <2>5, ReuseNoFrame
<1> QED
  BY <1>1, <1>2 DEF ClientStep

-----------------------------------------------------------------------------
(* The theorem. *)

\* The build of the unit tests alone lets a scope end around a value that leaked.
LEMMA ReuseInvReliable ==
  ASSUME ~CfgTest
  PROVE  ReuseInv => ReliableStoragesExact
<1> SUFFICES ASSUME ReuseInv, NEW s \in Storages, Reliable(s)
             PROVE  LeakCheckExactFor(s) /\ (storage[s].life = "dropped" => ~HoldsValue(s))
  BY DEF ReliableStoragesExact
<1>1. /\ RecordInv(storage[s])
      /\ \A v \in Values : value[v].owner = s <=> Pending(storage[s]) /\ storage[s].target = v
  BY DEF ReuseInv, Exact
<1>2. Pending(storage[s]) <=> HoldsValue(s)
  BY <1>1 DEF HoldsValue, RecordInv
<1>3. IsLeaking(storage[s].tracker) <=> Pending(storage[s]) \/ FailedConstruction(s)
  BY <1>1 DEF IsLeaking, ReferencesAreZeroed, Pending, FailedConstruction, RecordInv
<1>4. LeakCheckExactFor(s)
  BY <1>2, <1>3 DEF LeakCheckExactFor
<1>5. storage[s].life = "dropped" => ~HoldsValue(s)
  BY <1>1, <1>2 DEF RecordInv, NotGone
<1> QED
  BY <1>4, <1>5

LEMMA ReuseInductive == Spec => []ReuseInv
<1>1. Init => ReuseInv
  BY ReuseInit
<1>2. ReuseInv /\ TypeOK' /\ [Next]_vars => ReuseInv'
  <2> SUFFICES ASSUME ReuseInv, TypeOK', [Next]_vars PROVE ReuseInv'
    OBVIOUS
  <2>1. ASSUME NEW s \in Storages, StorageStep(s) PROVE ReuseInv'
    BY <2>1, ReuseStorageStep
  <2>2. ASSUME NEW s \in Storages, ConstructStep(s) PROVE ReuseInv'
    BY <2>2, ReuseConstructStep
  <2>3. ASSUME NEW s \in Storages, MoveRefStep(s) PROVE ReuseInv'
    BY <2>3, ReuseMoveRefStep
  <2>4. ASSUME NEW s \in Storages, MoveStep(s) PROVE ReuseInv'
    BY <2>4, ReuseMoveStep
  <2>5. CASE ClientStep
    BY <2>5, ReuseClientStep
  <2>6. CASE UNCHANGED vars
    BY <2>6, ReuseNoFrame DEF vars
  <2> QED
    BY <2>1, <2>2, <2>3, <2>4, <2>5, <2>6 DEF Next
<1> QED
  BY <1>1, <1>2, TypeCorrect, PTL DEF Spec

\* A storage that is reused without debug assertions keeps its trouble to itself: in any
\* program, in any build but that of the unit tests, every other storage's leak check is exact
\* and none of those goes with a value (Drop for SlotStorage, slot_storage.rs:121).
THEOREM ReliableStoragesExactHolds ==
  ASSUME ~CfgTest
  PROVE  Spec => []ReliableStoragesExact
  BY ReuseInductive, ReuseInvReliable, PTL

-----------------------------------------------------------------------------
(* What a reused storage owns, and what its counter counts. *)

Owned(s) == {v \in Values : value[v].owner = s}

\* A constructor at work in s has been counted already.
UnderConstruction(s) == IF storage[s].handle = "call" THEN 1 ELSE 0

Counted(s) ==
    LET r == storage[s]
        t == r.tracker
    IN  /\ r.life = "unborn" => t = NewTracker
        /\ r.handle = "slot" => CounterBound(s)
        /\ ~t.released =>
              /\ IsFiniteSet(Owned(s))
              /\ Cardinality(Owned(s)) + UnderConstruction(s) <= t.references
              /\ t.references # 0 => t.initialized
              /\ r.life = "dropped" => Owned(s) = {}

LossInv == \A s \in Storages : Counted(s)

-----------------------------------------------------------------------------
(* What a step can do to a storage. *)

LEMMA OwnedCount ==
  ASSUME NEW s \in Storages, IsFiniteSet(Owned(s))
  PROVE  Cardinality(Owned(s)) \in Nat
  BY FS_CardinalityType

\* It keeps its values and its tracker, and no constructor starts.
LEMMA KeepsCount ==
  ASSUME ReuseInv, NEW s \in Storages, Counted(s),
         storage'[s].tracker = storage[s].tracker, storage'[s].life = storage[s].life,
         storage'[s].handle = "slot" => CounterBound(s),
         storage'[s].handle = "call" => storage[s].handle = "call",
         \A v \in Values : value'[v].owner = s <=> value[v].owner = s
  PROVE  Counted(s)'
<1>1. Owned(s)' = Owned(s)
  BY DEF Owned
<1>2. CounterBound(s)' <=> CounterBound(s)
  BY DEF CounterBound
<1>3. storage[s].tracker.references \in Nat
  BY ReuseFacts DEF Tracker
<1>4. ASSUME ~storage[s].tracker.released
      PROVE  Cardinality(Owned(s)) + UnderConstruction(s)' <= storage[s].tracker.references
  <2>1. Cardinality(Owned(s)) \in Nat
    BY <1>4, OwnedCount DEF Counted
  <2> QED
    BY <1>3, <1>4, <2>1 DEF Counted, UnderConstruction
<1> QED
  BY <1>1, <1>2, <1>4 DEF Counted

\* A value was released from it: its counter no longer matters.
LEMMA ReleasedCount ==
  ASSUME NEW s \in Storages, storage'[s].tracker.released,
         storage'[s].life # "unborn", storage'[s].handle # "slot"
  PROVE  Counted(s)'
  BY DEF Counted

\* It is new.
LEMMA NewCount ==
  ASSUME ReuseInv, NEW s \in Storages, Counted(s), storage[s].life = "unborn",
         NEW k, NEW o, NEW h \in {"none", "slot"}, storage'[s] = NewStorage(k, o, h),
         \A v \in Values : value'[v].owner = s <=> value[v].owner = s
  PROVE  Counted(s)'
<1>1. /\ storage'[s].tracker = NewTracker /\ storage'[s].life = "live"
      /\ storage'[s].handle = h
  BY DEF NewStorage
<1>2. storage[s].tracker = storage'[s].tracker /\ CounterBound(s)
  BY <1>1, UsizeMaxAssumption DEF Counted, CounterBound, NewTracker
<1>3. Owned(s)' = Owned(s)
  BY DEF Owned
<1>4. ~NewTracker.released /\ NewTracker.references = 0
  BY DEF NewTracker
<1>5. IsFiniteSet(Owned(s)) /\ Cardinality(Owned(s)) + UnderConstruction(s)' <= 0
  <2>1. IsFiniteSet(Owned(s)) /\ Cardinality(Owned(s)) + UnderConstruction(s) <= 0
    BY <1>1, <1>2, <1>4 DEF Counted
  <2>2. Cardinality(Owned(s)) \in Nat
    BY <2>1, OwnedCount
  <2> QED
    BY <1>1, <2>1, <2>2 DEF UnderConstruction
<1>6. CounterBound(s)'
  BY <1>1, <1>2 DEF CounterBound
<1> QED
  BY <1>1, <1>3, <1>4, <1>5, <1>6 DEF Counted

\* It comes to own v, which initialize() has counted: just now, or before the constructor.
LEMMA GainsCount ==
  ASSUME ReuseInv, NEW s \in Storages, Counted(s), NEW v \in Values, value[v].owner # s,
         storage'[s].tracker.released = storage[s].tracker.released,
         storage'[s].life = "live", storage'[s].handle \in {"none", "moveref"},
         storage'[s].tracker.initialized,
         storage'[s].tracker.references + UnderConstruction(s)
            = storage[s].tracker.references + 1,
         storage'[s].tracker.references \in Nat,
         \A w \in Values : value'[w].owner = s <=> w = v \/ value[w].owner = s
  PROVE  Counted(s)'
<1>1. Owned(s)' = Owned(s) \cup {v} /\ v \notin Owned(s)
  BY DEF Owned
<1>2. UnderConstruction(s)' = 0 /\ UnderConstruction(s) \in {0, 1}
  BY DEF UnderConstruction
<1>3. SUFFICES ASSUME ~storage[s].tracker.released
               PROVE  /\ IsFiniteSet(Owned(s)')
                      /\ Cardinality(Owned(s)') <= storage'[s].tracker.references
  <2>1. ASSUME ~storage[s].tracker.released
        PROVE  Cardinality(Owned(s)') + UnderConstruction(s)' = Cardinality(Owned(s)')
    <3>1. Cardinality(Owned(s)') \in Nat
      BY <1>3, <2>1, FS_CardinalityType
    <3> QED
      BY <1>2, <3>1
  <2> QED
    BY <1>3, <2>1 DEF Counted
<1>4. /\ IsFiniteSet(Owned(s))
      /\ Cardinality(Owned(s)) + UnderConstruction(s) <= storage[s].tracker.references
  BY <1>3 DEF Counted
<1>5. IsFiniteSet(Owned(s)') /\ Cardinality(Owned(s)') = Cardinality(Owned(s)) + 1
  BY <1>1, <1>4, FS_AddElement
<1>6. Cardinality(Owned(s)) \in Nat /\ storage[s].tracker.references \in Nat
  BY <1>4, OwnedCount, ReuseFacts DEF Tracker
<1> QED
  BY <1>2, <1>4, <1>5, <1>6

\* Its MoveRef is dropped: the value goes, and with it one count.
LEMMA LosesCount ==
  ASSUME ReuseInv, NEW s \in Storages, Counted(s), NEW v \in Values, value[v].owner = s,
         storage[s].handle = "moveref", ~storage[s].tracker.released,
         storage'[s].tracker = [storage[s].tracker EXCEPT !.references = @ - 1],
         storage'[s].life = "live", storage'[s].handle = "none",
         \A w \in Values : value'[w].owner = s <=> w # v /\ value[w].owner = s
  PROVE  Counted(s)'
<1>1. Owned(s)' = Owned(s) \ {v} /\ v \in Owned(s)
  BY DEF Owned
<1>2. UnderConstruction(s)' = 0 /\ UnderConstruction(s) = 0
  BY DEF UnderConstruction
<1>3. /\ IsFiniteSet(Owned(s))
      /\ Cardinality(Owned(s)) + UnderConstruction(s) <= storage[s].tracker.references
      /\ storage[s].tracker.references # 0 => storage[s].tracker.initialized
  BY DEF Counted
<1>4. IsFiniteSet(Owned(s)') /\ Cardinality(Owned(s)') = Cardinality(Owned(s)) - 1
  BY <1>1, <1>3, FS_RemoveElement
<1>5. /\ Cardinality(Owned(s)) \in Nat /\ Cardinality(Owned(s)') \in Nat
      /\ storage[s].tracker \in Tracker /\ storage[s].tracker.references \in Nat
  BY <1>3, <1>4, FS_CardinalityType, ReuseFacts DEF Tracker
<1>6. /\ storage'[s].tracker.references = storage[s].tracker.references - 1
      /\ storage'[s].tracker.initialized = storage[s].tracker.initialized
      /\ storage'[s].tracker.released = storage[s].tracker.released
  BY <1>5 DEF Tracker
<1>7. storage[s].tracker.references # 0
  BY <1>2, <1>3, <1>4, <1>5
<1>8. Cardinality(Owned(s)') + UnderConstruction(s)' <= storage'[s].tracker.references
  BY <1>2, <1>3, <1>4, <1>5, <1>6
<1> QED
  BY <1>3, <1>4, <1>6, <1>7, <1>8 DEF Counted

\* A storage that a step does not mention.
LEMMA LossFrame ==
  ASSUME ReuseInv, LossInv, NEW S \in SUBSET Storages,
         \A x \in Storages \ S : storage'[x] = storage[x],
         \A x \in Storages \ S, v \in Values : value'[v].owner = x <=> value[v].owner = x,
         \A x \in S : Counted(x)'
  PROVE  LossInv'
<1>1. ASSUME NEW x \in Storages PROVE Counted(x)'
  <2>1. CASE x \in S
    BY <2>1
  <2>2. CASE x \notin S
    <3>1. Counted(x) /\ storage'[x] = storage[x]
      BY <2>2 DEF LossInv
    <3>2. storage'[x].handle = "slot" => CounterBound(x)
      BY <3>1 DEF Counted
    <3> QED
      BY <2>2, <3>1, <3>2, KeepsCount
  <2> QED
    BY <2>1, <2>2
<1> QED
  BY <1>1 DEF LossInv

LEMMA LossFrameOne ==
  ASSUME ReuseInv, LossInv, NEW s \in Storages,
         \A x \in Storages \ {s} : storage'[x] = storage[x],
         \A x \in Storages \ {s}, v \in Values : value'[v].owner = x <=> value[v].owner = x,
         Counted(s)'
  PROVE  LossInv'
<1>1. {s} \in SUBSET Storages /\ \A x \in {s} : Counted(x)'
  OBVIOUS
<1> QED
  BY <1>1, LossFrame

-----------------------------------------------------------------------------
(* The tracker without debug assertions. *)

LEMMA InitializeCounts ==
  ASSUME ~DebugAssertions, NEW t \in Tracker, t.references < UsizeMax
  PROVE  LET i == Initialize(t)
         IN  /\ i.failed = "none" /\ i.cells.initialized /\ i.cells.released = t.released
             /\ i.cells.references = t.references + 1
             /\ i.cells.references \in Nat /\ i.cells.references # 0
<1> DEFINE u == [t EXCEPT !.initialized = TRUE]
<1>1. u.initialized /\ u.released = t.released /\ u.references = t.references /\ u \in Tracker
  BY DEF Tracker
<1>2. Initialize(t) = Increment(u)
  BY DEF Initialize
<1> HIDE DEF u
<1>3. t.references \in Nat /\ t.references # UsizeMax
  BY UsizeMaxAssumption DEF Tracker
<1>4. Increment(u) = Ran([u EXCEPT !.references = t.references + 1])
  BY <1>1, <1>3 DEF Increment
<1>5. /\ Increment(u).failed = "none"
      /\ Increment(u).cells = [u EXCEPT !.references = t.references + 1]
  BY <1>4 DEF Ran
<1>6. t.references + 1 \in Nat /\ t.references + 1 # 0
  BY <1>3
<1> QED
  BY <1>1, <1>2, <1>5, <1>6 DEF Tracker

LEMMA DropCounts ==
  ASSUME ~DebugAssertions, NEW t \in Tracker
  PROVE  LET o == MoveRefDropOutcome(t)
         IN  /\ o.failed = "none"
             /\ t.released => ~o.drops /\ o.cells = t
             /\ ~t.released /\ t.references # 0 =>
                   o.drops /\ o.cells = [t EXCEPT !.references = @ - 1]
<1>1. CASE t.released
  BY <1>1 DEF MoveRefDropOutcome
<1>2. CASE ~t.released
  <2> DEFINE c == [t EXCEPT !.references = IF @ = 0 THEN UsizeMax ELSE @ - 1]
  <2>1. Terminate(t) = Ran(c)
    BY DEF Terminate, Decrement
  <2>2. t.references # 0 => c = [t EXCEPT !.references = @ - 1]
    BY DEF Tracker
  <2> HIDE DEF c
  <2>3. Terminate(t).failed = "none" /\ Terminate(t).cells = c
    BY <2>1 DEF Ran
  <2>4. (Terminate(t).failed = "none") = TRUE
    BY <2>3
  <2>5. MoveRefDropOutcome(t) = [cells |-> c, failed |-> "none", drops |-> TRUE]
    BY <1>2, <2>3, <2>4 DEF MoveRefDropOutcome
  <2> QED
    BY <1>2, <2>2, <2>5
<1> QED
  BY <1>1, <1>2

LEMMA SlotCount ==
  ASSUME ReuseInv, LossInv, NEW s \in Storages, storage[s].handle = "slot", ~DebugAssertions
  PROVE  LET i == Initialize(storage[s].tracker)
         IN  /\ i.failed = "none" /\ i.cells.initialized
             /\ i.cells.released = storage[s].tracker.released
             /\ i.cells.references = storage[s].tracker.references + 1
             /\ i.cells.references \in Nat /\ i.cells.references # 0
<1>1. storage[s].tracker \in Tracker /\ storage[s].tracker.references < UsizeMax
  BY ReuseFacts DEF LossInv, Counted, CounterBound
<1> QED
  BY <1>1, InitializeCounts

-----------------------------------------------------------------------------
(* The operations. *)

LEMMA LossStorageStep ==
  ASSUME ReuseInv, LossInv, ~CfgTest, ~DebugAssertions, NEW s \in Storages, StorageStep(s)
  PROVE  LossInv'
<1> DEFINE r == storage[s]
<1>1. /\ storage \in [Storages -> StorageRecord] /\ value \in [Values -> ValueRecord]
      /\ r \in StorageRecord /\ r.tracker \in Tracker /\ HandleOK(s) /\ Counted(s)
  BY ReuseFacts DEF LossInv
<1>2. ASSUME NEW k \in Kinds, NEW o \in Origins, NEW h \in {"none", "slot"}, r.life = "unborn",
             storage' = [storage EXCEPT ![s] = NewStorage(k, o, h)], UNCHANGED value
      PROVE  LossInv'
  <2>1. storage'[s] = NewStorage(k, o, h) /\ \A x \in Storages \ {s} : storage'[x] = storage[x]
    BY <1>1, <1>2
  <2>2. Counted(s)'
    BY <1>1, <1>2, <2>1, NewCount
  <2> QED
    BY <1>2, <2>1, <2>2, LossFrameOne
<1>3. ASSUME NEW k \in Kinds, SlotStorageNew(s, k) PROVE LossInv'
  BY <1>2, <1>3 DEF SlotStorageNew
<1>4. ASSUME NEW k \in Kinds, NEW o \in AllOrigins, LetCxxSlot(s, k, o) PROVE LossInv'
  BY <1>2, <1>4 DEF LetCxxSlot
<1>5. CASE SlotStorageSlot(s) \/ DropSlot(s) \/ DropLeaking(s)
  <2>1. /\ UNCHANGED value
        /\ \A x \in Storages \ {s} : storage'[x] = storage[x]
        /\ storage'[s].tracker = r.tracker /\ storage'[s].life = r.life
        /\ storage'[s].handle = "slot" => CounterBound(s)
        /\ storage'[s].handle = "call" => r.handle = "call"
    <3>1. CASE SlotStorageSlot(s)
      BY <1>1, <3>1 DEF SlotStorageSlot, StorageRecord
    <3>2. CASE DropSlot(s)
      BY <1>1, <3>2 DEF DropSlot, StorageRecord
    <3>3. CASE DropLeaking(s)
      BY <1>1, <3>3 DEF DropLeaking, DoublePanic, MayDrop, StorageRecord
    <3> QED
      BY <1>5, <3>1, <3>2, <3>3
  <2>2. Counted(s)'
    BY <1>1, <2>1, KeepsCount
  <2> QED
    BY <2>1, <2>2, LossFrameOne
<1>6. CASE DropUninitialized(s) \/ DropKeep(s) \/ DropInPlace(s)
  <2>1. /\ storage' = [storage EXCEPT ![s].life = "dropped"]
        /\ r.life = "live" /\ r.handle = "none"
        /\ IsUninitialized(r.tracker) \/ ~IsLeaking(r.tracker)
    BY <1>6 DEF DropUninitialized, DropKeep, DropInPlace, DropSound, MayDrop
  <2>2. /\ storage'[s] = [r EXCEPT !.life = "dropped"]
        /\ \A x \in Storages \ {s} : storage'[x] = storage[x]
    BY <1>1, <2>1
  <2>3. \A v \in Values :
            /\ \A x \in Storages \ {s} : value'[v].owner = x <=> value[v].owner = x
            /\ value'[v].owner = s => value[v].owner = s
    <3>1. CASE UNCHANGED value
      BY <3>1
    <3>2. CASE value' = [value EXCEPT ![r.target] = Destroyed(@, s)]
      BY <1>1, <3>2, StoragesAssumption DEF Destroyed, ValueRecord, Homes
    <3>3. CASE value' = [value EXCEPT ![r.target].heap = "freed"]
      BY <1>1, <3>3 DEF ValueRecord
    <3> QED
      BY <1>6, <3>1, <3>2, <3>3 DEF DropUninitialized, DropKeep, DropInPlace
  <2>4. /\ storage'[s].tracker = r.tracker /\ storage'[s].life = "dropped"
        /\ storage'[s].handle = "none"
    BY <1>1, <2>1, <2>2 DEF StorageRecord
  <2>5. ASSUME ~r.tracker.released PROVE Owned(s) = {} /\ r.tracker.references \in Nat
    <3>1. r.tracker.references = 0
      BY <1>1, <2>1, <2>5
         DEF Counted, IsUninitialized, IsLeaking, ReferencesAreZeroed
    <3>2. IsFiniteSet(Owned(s)) /\ Cardinality(Owned(s)) + UnderConstruction(s) <= 0
      BY <1>1, <2>5, <3>1 DEF Counted
    <3>3. UnderConstruction(s) = 0 /\ Cardinality(Owned(s)) \in Nat
      BY <2>1, <3>2, OwnedCount DEF UnderConstruction
    <3>4. Cardinality(Owned(s)) = 0
      BY <3>2, <3>3
    <3> QED
      BY <3>1, <3>2, <3>4, FS_EmptySet
  <2>6. Counted(s)'
    <3>1. CASE r.tracker.released
      BY <2>4, <3>1, ReleasedCount
    <3>2. CASE ~r.tracker.released
      <4>1. Owned(s)' = {} /\ UnderConstruction(s)' = 0
        BY <2>3, <2>4, <2>5, <3>2 DEF Owned, UnderConstruction
      <4>2. IsFiniteSet(Owned(s)') /\ Cardinality(Owned(s)') = 0
        BY <4>1, FS_EmptySet
      <4>3. Cardinality(Owned(s)') + UnderConstruction(s)' <= r.tracker.references
        BY <2>5, <3>2, <4>1, <4>2
      <4> QED
        BY <1>1, <2>4, <3>2, <4>1, <4>2, <4>3 DEF Counted
    <3> QED
      BY <3>1, <3>2
  <2> QED
    BY <2>2, <2>3, <2>6, LossFrameOne
<1> QED
  BY <1>3, <1>4, <1>5, <1>6, OriginsAssumption DEF StorageStep, StorageDrop

LEMMA LossInitializeHolding ==
  ASSUME ReuseInv, LossInv, ~DebugAssertions, NEW s \in Storages, storage[s].handle = "slot",
         NEW m, NEW v \in Values, InitializeHolding(s, m, v),
         value[v].owner \notin Storages, value' = [value EXCEPT ![v].owner = s]
  PROVE  LossInv'
<1> DEFINE r == storage[s]
           c == Initialize(r.tracker).cells
<1>1. /\ storage \in [Storages -> StorageRecord] /\ value \in [Values -> ValueRecord]
      /\ r.tracker \in Tracker /\ r \in StorageRecord /\ HandleOK(s) /\ Counted(s)
  BY ReuseFacts DEF LossInv
<1>2. storage' = [storage EXCEPT ![s].tracker = c, ![s].memory = m, ![s].target = v,
                                 ![s].handle = "moveref"]
  BY DEF InitializeHolding
<1>3. /\ c.initialized /\ c.released = r.tracker.released
      /\ c.references = r.tracker.references + 1 /\ c.references \in Nat
  BY SlotCount
<1> HIDE DEF c
<1>4. /\ storage'[s].tracker = c /\ storage'[s].life = "live" /\ storage'[s].handle = "moveref"
      /\ \A x \in Storages \ {s} : storage'[x] = storage[x]
  BY <1>1, <1>2 DEF HandleOK, StorageRecord
<1>5. \A w \in Values : value'[w].owner = IF w = v THEN s ELSE value[w].owner
  BY <1>1 DEF ValueRecord
<1>6. Counted(s)'
  <2>1. UnderConstruction(s) = 0
    BY DEF UnderConstruction
  <2>2. storage'[s].tracker.references + UnderConstruction(s) = r.tracker.references + 1
    BY <1>3, <1>4, <2>1
  <2>3. /\ storage'[s].tracker.released = r.tracker.released
        /\ storage'[s].tracker.initialized /\ storage'[s].tracker.references \in Nat
    BY <1>3, <1>4
  <2>4. \A w \in Values : value'[w].owner = s <=> w = v \/ value[w].owner = s
    BY <1>5
  <2> QED
    BY <1>1, <1>4, <2>2, <2>3, <2>4, GainsCount
<1>7. \A x \in Storages \ {s}, w \in Values : value'[w].owner = x <=> value[w].owner = x
  BY <1>5
<1> QED
  BY <1>4, <1>6, <1>7, LossFrameOne

LEMMA LossConstructStep ==
  ASSUME ReuseInv, LossInv, ~DebugAssertions, NEW s \in Storages, ConstructStep(s)
  PROVE  LossInv'
<1> DEFINE r == storage[s]
<1>1. /\ storage \in [Storages -> StorageRecord] /\ value \in [Values -> ValueRecord]
      /\ r \in StorageRecord /\ r.tracker \in Tracker /\ HandleOK(s) /\ Counted(s)
  BY ReuseFacts DEF LossInv
<1>2. r.handle = "slot" => Initialize(r.tracker).failed = "none"
  BY SlotCount
<1>3. CASE TryEmplace(s)
  <2> DEFINE c == Initialize(r.tracker).cells
  <2>1. /\ r.handle = "slot" /\ UNCHANGED value
        /\ storage' = [storage EXCEPT ![s].tracker = c, ![s].handle = "call"]
    BY <1>2, <1>3 DEF TryEmplace, CanUse, InitializeFails
  <2>2. /\ c.initialized /\ c.released = r.tracker.released
        /\ c.references = r.tracker.references + 1 /\ c.references \in Nat
    BY <2>1, SlotCount
  <2> HIDE DEF c
  <2>3. /\ storage'[s].tracker = c /\ storage'[s].life = "live" /\ storage'[s].handle = "call"
        /\ \A x \in Storages \ {s} : storage'[x] = storage[x]
    BY <1>1, <2>1 DEF HandleOK, StorageRecord
  <2>4. Counted(s)'
    <3>1. Owned(s)' = Owned(s) /\ UnderConstruction(s)' = 1 /\ UnderConstruction(s) = 0
      BY <2>1, <2>3 DEF Owned, UnderConstruction
    <3>2. ASSUME ~r.tracker.released
          PROVE  Cardinality(Owned(s)) + 1 <= c.references
      <4>1. /\ IsFiniteSet(Owned(s))
            /\ Cardinality(Owned(s)) + UnderConstruction(s) <= r.tracker.references
        BY <1>1, <3>2 DEF Counted
      <4>2. Cardinality(Owned(s)) \in Nat /\ r.tracker.references \in Nat
        BY <1>1, <4>1, OwnedCount DEF Tracker
      <4> QED
        BY <2>2, <3>1, <4>1, <4>2
    <3> QED
      BY <1>1, <2>2, <2>3, <3>1, <3>2 DEF Counted
  <2> QED
    BY <2>1, <2>3, <2>4, LossFrameOne
<1>4. CASE ConstructFails(s)
  <2>1. /\ UNCHANGED value
        /\ \A x \in Storages \ {s} : storage'[x] = storage[x]
        /\ storage'[s].tracker = r.tracker /\ storage'[s].life = r.life
        /\ storage'[s].handle = "none"
    BY <1>1, <1>4 DEF ConstructFails, StorageRecord
  <2>2. Counted(s)'
    BY <1>1, <2>1, KeepsCount
  <2> QED
    BY <2>1, <2>2, LossFrameOne
<1>5. ASSUME NEW v \in Values, ConstructOk(s, v) PROVE LossInv'
  <2>1. /\ storage' = [storage EXCEPT ![s].memory = "T", ![s].target = v, ![s].handle = "moveref"]
        /\ r.handle = "call"
        /\ value' = [value EXCEPT ![v].owner = s]
        /\ value[v].owner \notin Storages
    BY <1>5, StoragesAssumption DEF ConstructOk, Innermost, Homes
  <2>2. /\ storage'[s].tracker = r.tracker /\ storage'[s].life = "live"
        /\ storage'[s].handle = "moveref"
        /\ \A x \in Storages \ {s} : storage'[x] = storage[x]
    BY <1>1, <2>1 DEF HandleOK, StorageRecord
  <2>3. \A w \in Values : value'[w].owner = IF w = v THEN s ELSE value[w].owner
    BY <1>1, <2>1 DEF ValueRecord
  <2>4. Counted(s)'
    <3>1. CASE r.tracker.released
      BY <2>2, <3>1, ReleasedCount
    <3>2. CASE ~r.tracker.released
      <4>1. UnderConstruction(s) = 1 /\ r.tracker.references \in Nat
        BY <1>1, <2>1 DEF UnderConstruction, Tracker
      <4>2. r.tracker.initialized
        <5>1. IsFiniteSet(Owned(s)) /\ Cardinality(Owned(s)) + 1 <= r.tracker.references
          BY <1>1, <3>2, <4>1 DEF Counted
        <5>2. r.tracker.references # 0
          BY <4>1, <5>1, OwnedCount
        <5> QED
          BY <1>1, <3>2, <5>2 DEF Counted
      <4>3. storage'[s].tracker.references + UnderConstruction(s) = r.tracker.references + 1
        BY <2>2, <4>1
      <4>4. /\ storage'[s].tracker.released = r.tracker.released
            /\ storage'[s].tracker.initialized /\ storage'[s].tracker.references \in Nat
        BY <2>2, <4>1, <4>2
      <4>5. /\ value[v].owner # s
            /\ \A w \in Values : value'[w].owner = s <=> w = v \/ value[w].owner = s
        BY <2>1, <2>3
      <4> QED
        BY <1>1, <2>2, <4>3, <4>4, <4>5, GainsCount
    <3> QED
      BY <3>1, <3>2
  <2>5. \A x \in Storages \ {s}, w \in Values : value'[w].owner = x <=> value[w].owner = x
    BY <2>1, <2>3
  <2> QED
    BY <2>2, <2>4, <2>5, LossFrameOne
<1>6. ASSUME NEW v \in Values, Put(s, v) PROVE LossInv'
  <2>1. /\ r.handle = "slot" /\ value[v].owner \notin Storages
        /\ InitializeHolding(s, "T", v) /\ value' = [value EXCEPT ![v].owner = s]
    BY <1>2, <1>6, StoragesAssumption DEF Put, CanUse, Homes, InitializeFails
  <2> QED
    BY <2>1, LossInitializeHolding
<1> QED
  BY <1>3, <1>4, <1>5, <1>6 DEF ConstructStep

\* The MoveRef of s is dropped: the count of s is right if s loses what it pointed to, or
\* a value was released from s before.
LEMMA DropCount ==
  ASSUME ReuseInv, LossInv, ~DebugAssertions, NEW s \in Storages, storage[s].handle = "moveref",
         storage'[s].life = storage[s].life, storage'[s].handle = "none",
         storage'[s].tracker = MoveRefDropOutcome(storage[s].tracker).cells,
         \A w \in Values \ {storage[s].target} : value'[w].owner = s <=> value[w].owner = s,
         MoveRefDropOutcome(storage[s].tracker).drops => value'[storage[s].target].owner # s
  PROVE  Counted(s)'
<1> DEFINE t == storage[s].tracker
           v == storage[s].target
<1>1. /\ t \in Tracker /\ v \in Values /\ value[v].owner = s /\ storage[s].life = "live"
      /\ Counted(s)
  BY MoveRefReliable, ReuseFacts DEF HandleOK, LossInv
<1>2. CASE t.released
  <2>1. storage'[s].tracker = t
    BY <1>1, <1>2, DropCounts
  <2> QED
    BY <1>1, <1>2, <2>1, ReleasedCount
<1>3. CASE ~t.released
  <2>1. t.references # 0
    <3>1. /\ IsFiniteSet(Owned(s))
          /\ Cardinality(Owned(s)) + UnderConstruction(s) <= t.references
      BY <1>1, <1>3 DEF Counted
    <3>2. Cardinality(Owned(s)) \in Nat /\ UnderConstruction(s) = 0
      BY <3>1, OwnedCount DEF UnderConstruction
    <3>3. Cardinality(Owned(s)) # 0
      BY <1>1, <3>1, FS_EmptySet DEF Owned
    <3> QED
      BY <3>1, <3>2, <3>3
  <2>2. storage'[s].tracker = [t EXCEPT !.references = @ - 1] /\ value'[v].owner # s
    BY <1>1, <1>3, <2>1, DropCounts
  <2>3. \A w \in Values : value'[w].owner = s <=> w # v /\ value[w].owner = s
    BY <1>1, <2>2
  <2>4. storage'[s].life = "live"
    BY <1>1
  <2> QED
    BY <1>1, <1>3, <2>2, <2>3, <2>4, LosesCount
<1> QED
  BY <1>2, <1>3

LEMMA LossMoveRefStep ==
  ASSUME ReuseInv, LossInv, ~DebugAssertions, NEW s \in Storages, MoveRefStep(s)
  PROVE  LossInv'
<1> DEFINE r == storage[s]
           v == r.target
<1>1. r.handle = "moveref"
  BY DEF MoveRefStep, MoveRefDrop, ForgetMoveRef, Release, IntoInner, ReleaseTo, HasMoveRef
<1>2. /\ storage \in [Storages -> StorageRecord] /\ value \in [Values -> ValueRecord]
      /\ r \in StorageRecord /\ r.tracker \in Tracker /\ HandleOK(s) /\ Counted(s)
  BY ReuseFacts DEF LossInv
<1>3. /\ v \in Values /\ value[v].owner = s /\ "gone" \notin Storages /\ "raw" \notin Storages
      /\ "client" \notin Storages /\ r.life = "live"
  BY <1>1, <1>2, MoveRefReliable, StoragesAssumption DEF Homes, HandleOK
<1>4. ASSUME NEW c, storage' = [storage EXCEPT ![s].tracker = c, ![s].handle = "none"]
      PROVE  /\ \A x \in Storages \ {s} : storage'[x] = storage[x]
             /\ storage'[s].life = r.life /\ storage'[s].handle = "none"
             /\ storage'[s].tracker = c
  BY <1>2, <1>4 DEF StorageRecord
<1>5. CASE MoveRefDrop(s)
  <2> DEFINE o == MoveRefDropOutcome(r.tracker)
             d == Destroyed(value[v], s)
  <2>1. /\ storage' = [storage EXCEPT ![s].tracker = o.cells, ![s].handle = "none"]
        /\ value' = IF o.drops THEN [value EXCEPT ![v] = d] ELSE value
    BY <1>5 DEF MoveRefDrop
  <2>2. d.owner = "gone"
    BY <1>1, DropEnds
  <2> HIDE DEF d
  <2>3. /\ value'[v].owner = IF o.drops THEN "gone" ELSE s
        /\ \A w \in Values \ {v} : value'[w] = value[w]
    BY <1>2, <1>3, <2>1, <2>2
  <2>4. /\ storage'[s].life = r.life /\ storage'[s].handle = "none"
        /\ storage'[s].tracker = o.cells
        /\ \A x \in Storages \ {s} : storage'[x] = storage[x]
    BY <1>4, <2>1
  <2>5. \A w \in Values \ {v} : value'[w].owner = s <=> value[w].owner = s
    BY <2>3
  <2>6. o.drops => value'[v].owner # s
    BY <1>3, <2>3
  <2>7. Counted(s)'
    BY <1>1, <2>4, <2>5, <2>6, DropCount
  <2>8. \A x \in Storages \ {s}, w \in Values : value'[w].owner = x <=> value[w].owner = x
    BY <1>3, <2>3
  <2> QED
    BY <2>4, <2>7, <2>8, LossFrameOne
<1>6. CASE ForgetMoveRef(s)
  <2>1. /\ UNCHANGED value
        /\ \A x \in Storages \ {s} : storage'[x] = storage[x]
        /\ storage'[s].tracker = r.tracker /\ storage'[s].life = r.life
        /\ storage'[s].handle = "none"
    BY <1>2, <1>6 DEF ForgetMoveRef, StorageRecord
  <2>2. Counted(s)'
    BY <1>2, <2>1, KeepsCount
  <2> QED
    BY <2>1, <2>2, LossFrameOne
<1>7. CASE Release(s) \/ IntoInner(s)
  <2> DEFINE o == ReleaseOutcome(r.tracker)
             c == [r.tracker EXCEPT !.released = TRUE]
  <2>1. ~o.drops /\ o.cells = c /\ c.released
    BY <1>2, DropOfReleased DEF Tracker
  <2>2. PICK home \in {"raw", "client"} : ReleaseTo(s, home)
    BY <1>7 DEF Release, IntoInner
  <2>3. /\ storage' = [storage EXCEPT ![s].tracker = c, ![s].handle = "none"]
        /\ value' = [value EXCEPT ![v].owner = home]
    BY <2>1, <2>2 DEF ReleaseTo, ReadOut
  <2> HIDE DEF o, c
  <2>4. Counted(s)'
    <3>1. storage'[s].tracker.released /\ storage'[s].life = "live" /\ storage'[s].handle = "none"
      BY <1>3, <1>4, <2>1, <2>3
    <3> QED
      BY <3>1, ReleasedCount
  <2>5. \A x \in Storages \ {s}, w \in Values : value'[w].owner = x <=> value[w].owner = x
    BY <1>2, <1>3, <2>3 DEF ValueRecord
  <2> QED
    BY <1>4, <2>3, <2>4, <2>5, LossFrameOne
<1> QED
  BY <1>5, <1>6, <1>7 DEF MoveRefStep

\* The constructor of s ends with w in it, moved from the MoveRef of t or made from it.
LEMMA LossMoveNew ==
  ASSUME ReuseInv, LossInv, NEW s \in Storages, NEW t \in Storages,
         NEW w \in Values, storage[s].handle = "call", storage[t].handle = "moveref", NEW c,
         NEW h \in {"none", "moveref"},
         storage' = [storage EXCEPT
                       ![t].tracker = c, ![t].handle = "none",
                       ![s].memory = "T", ![s].target = w, ![s].handle = h],
         Counted(t)',
         value'[w].owner = s, value[w].owner # s,
         value[w].owner \in Storages => value[w].owner = t,
         \A v \in Values \ {w} : \/ value'[v].owner = value[v].owner
                                 \/ value[v].owner = t /\ value'[v].owner \notin Storages
  PROVE  LossInv'
<1> DEFINE r == storage[s]
<1>1. /\ storage \in [Storages -> StorageRecord]
      /\ r \in StorageRecord /\ storage[t] \in StorageRecord /\ r.tracker \in Tracker
      /\ HandleOK(s) /\ Counted(s) /\ s # t
  BY ReuseFacts DEF LossInv
<1>2. /\ storage'[s].tracker = r.tracker /\ storage'[s].life = "live"
      /\ storage'[s].handle = h
      /\ \A x \in Storages \ {s, t} : storage'[x] = storage[x]
  BY <1>1 DEF HandleOK, StorageRecord
<1>3. Counted(s)'
  <2>1. CASE r.tracker.released
    BY <1>2, <2>1, ReleasedCount
  <2>2. CASE ~r.tracker.released
    <3>1. UnderConstruction(s) = 1 /\ r.tracker.references \in Nat
      BY <1>1 DEF UnderConstruction, Tracker
    <3>2. r.tracker.initialized
      <4>1. IsFiniteSet(Owned(s)) /\ Cardinality(Owned(s)) + 1 <= r.tracker.references
        BY <1>1, <2>2, <3>1 DEF Counted
      <4>2. r.tracker.references # 0
        BY <3>1, <4>1, OwnedCount
      <4> QED
        BY <1>1, <2>2, <4>2 DEF Counted
    <3>3. storage'[s].tracker.references + UnderConstruction(s)
              = storage[s].tracker.references + 1
      BY <1>2, <3>1
    <3>4. /\ storage'[s].tracker.released = storage[s].tracker.released
          /\ storage'[s].tracker.initialized /\ storage'[s].tracker.references \in Nat
          /\ storage'[s].life = "live" /\ storage'[s].handle \in {"none", "moveref"}
      BY <1>2, <3>1, <3>2
    <3>5. \A v \in Values : value'[v].owner = s <=> v = w \/ value[v].owner = s
      BY <1>1
    <3>6. Counted(s) /\ value[w].owner # s
      BY <1>1
    <3> QED
      BY <3>3, <3>4, <3>5, <3>6, GainsCount, ZenonT(60)
  <2> QED
    BY <2>1, <2>2
<1> DEFINE S == {s, t}
<1>4. S \in SUBSET Storages /\ \A x \in S : Counted(x)'
  BY <1>3
<1>5. \A x \in Storages \ S : storage'[x] = storage[x]
  BY <1>2
<1>6. ASSUME NEW x \in Storages \ S, NEW v \in Values
      PROVE  value'[v].owner = x <=> value[v].owner = x
  <2>1. CASE v = w
    BY <2>1
  <2>2. CASE v # w
    BY <2>2
  <2> QED
    BY <2>1, <2>2
<1> HIDE DEF S
<1> QED
  BY <1>4, <1>5, <1>6, LossFrame

LEMMA LossMoveStep ==
  ASSUME ReuseInv, LossInv, ~DebugAssertions, NEW s \in Storages, MoveStep(s)
  PROVE  LossInv'
<1>1. storage \in [Storages -> StorageRecord] /\ value \in [Values -> ValueRecord]
  BY DEF ReuseInv, TypeOK
<1>2. ASSUME NEW v \in Values, DerefMoveBox(s, v) \/ DerefMoveUniquePtr(s, v) PROVE LossInv'
  <2>1. PICK owner \in {"box", "uniqueptr"}, h \in {"freed", "live"} : MoveOut(s, v, owner, h)
    BY <1>2 DEF DerefMoveBox, DerefMoveUniquePtr
  <2>2. storage[s].handle = "slot" /\ value[v].owner \notin Storages
    BY <2>1, StoragesAssumption DEF MoveOut, CanUse, Homes
  <2>3. InitializeHolding(s, owner, v) /\ value' = [value EXCEPT ![v].owner = s]
    BY <2>1, <2>2, SlotCount DEF MoveOut, InitializeFails
  <2> QED
    BY <2>2, <2>3, LossInitializeHolding
<1>3. ASSUME NEW t \in Storages, DerefMoveMoveRef(s, t) PROVE LossInv'
  <2>1. /\ UNCHANGED value
        /\ \A x \in Storages \ {t} : storage'[x] = storage[x]
        /\ storage'[t].tracker = storage[t].tracker /\ storage'[t].life = storage[t].life
        /\ storage'[t].handle = "none" /\ Counted(t)
    BY <1>1, <1>3 DEF DerefMoveMoveRef, StorageRecord, LossInv
  <2>2. Counted(t)'
    BY <2>1, KeepsCount
  <2> QED
    BY <2>1, <2>2, LossFrameOne
<1>4. ASSUME NEW t \in Storages, MoveNewTrivial(s, t) PROVE LossInv'
  <2> DEFINE o == ReleaseOutcome(storage[t].tracker)
             c == [storage[t].tracker EXCEPT !.released = TRUE]
             v == storage[t].target
  <2>1. storage[t].handle = "moveref" /\ storage[s].handle = "call" /\ s # t
    BY <1>4 DEF MoveNewTrivial, HasMoveRef, Innermost
  <2>2. /\ storage[t].tracker \in Tracker /\ v \in Values /\ value[v].owner = t
        /\ storage[t].life = "live"
    BY <2>1, MoveRefReliable, ReuseFacts DEF HandleOK
  <2>3. ~o.drops /\ o.cells = c /\ c.released
    BY <2>2, DropOfReleased DEF Tracker
  <2>4. /\ storage' = [storage EXCEPT
                         ![t].tracker = c, ![t].handle = "none",
                         ![s].memory = "T", ![s].target = v, ![s].handle = "moveref"]
        /\ value' = [value EXCEPT ![v] = [@ EXCEPT !.owner = s]]
    BY <1>4, <2>3 DEF MoveNewTrivial, ReadOut
  <2> HIDE DEF c, o
  <2>5. /\ value'[v].owner = s
        /\ \A x \in Values \ {v} : value'[x].owner = value[x].owner
    BY <1>1, <2>2, <2>4 DEF ValueRecord
  <2>6. Counted(t)'
    <3>1. storage'[t].tracker.released /\ storage'[t].life = "live" /\ storage'[t].handle = "none"
      BY <1>1, <2>1, <2>2, <2>3, <2>4 DEF StorageRecord
    <3> QED
      BY <3>1, ReleasedCount
  <2>7. /\ value[v].owner # s /\ value[v].owner = t
        /\ \A x \in Values \ {v} : \/ value'[x].owner = value[x].owner
                                   \/ value[x].owner = t /\ value'[x].owner \notin Storages
    BY <2>1, <2>2, <2>5
  <2>8. storage' = [storage EXCEPT
                      ![t].tracker = c, ![t].handle = "none",
                      ![s].memory = "T", ![s].target = v, ![s].handle = "moveref"]
    BY <2>4
  <2> QED
    BY <2>1, <2>2, <2>5, <2>6, <2>7, <2>8, LossMoveNew
<1>5. ASSUME NEW t \in Storages, NEW w \in Values, MoveNewCxx(s, t, w) PROVE LossInv'
  <2> DEFINE o == MoveRefDropOutcome(storage[t].tracker)
             v == storage[t].target
             d == Destroyed(value[v], t)
  <2>1. /\ storage[t].handle = "moveref" /\ storage[s].handle = "call" /\ s # t
        /\ value[w].owner = "unborn"
    BY <1>5 DEF MoveNewCxx, HasMoveRef, Innermost
  <2>2. v \in Values /\ value[v].owner = t /\ d.owner = "gone"
    BY <2>1, MoveRefReliable, DropEnds
  <2>3. w # v /\ "unborn" \notin Storages /\ "gone" \notin Storages
    BY <2>1, <2>2, StoragesAssumption DEF Homes
  <2>4. PICK h \in {"none", "moveref"} :
            /\ storage' = [storage EXCEPT
                             ![t].tracker = o.cells, ![t].handle = "none",
                             ![s].memory = "T", ![s].target = w, ![s].handle = h]
            /\ value' = [value EXCEPT ![w].owner = s, ![v] = IF o.drops THEN Destroyed(@, t) ELSE @]
    BY <1>5 DEF MoveNewCxx
  <2>5. /\ value'[w].owner = s
        /\ value'[v].owner = IF o.drops THEN "gone" ELSE value[v].owner
        /\ \A x \in Values \ {v, w} : value'[x].owner = value[x].owner
    BY <1>1, <2>2, <2>3, <2>4 DEF ValueRecord
  <2>6. /\ storage'[t].life = storage[t].life /\ storage'[t].handle = "none"
        /\ storage'[t].tracker = o.cells
    BY <1>1, <2>1, <2>4 DEF StorageRecord
  <2> HIDE DEF d
  <2>7. Counted(t)'
    <3>1. \A x \in Values \ {v} : value'[x].owner = t <=> value[x].owner = t
      BY <2>1, <2>3, <2>5
    <3>2. o.drops => value'[v].owner # t
      BY <2>3, <2>5
    <3> QED
      BY <2>1, <2>6, <3>1, <3>2, DropCount
  <2>8. /\ value[w].owner # s /\ value[w].owner \notin Storages
        /\ \A x \in Values \ {w} : \/ value'[x].owner = value[x].owner
                                   \/ value[x].owner = t /\ value'[x].owner \notin Storages
    BY <2>1, <2>2, <2>3, <2>5
  <2> HIDE DEF o
  <2> QED
    BY <2>1, <2>4, <2>5, <2>7, <2>8, LossMoveNew
<1> QED
  BY <1>2, <1>3, <1>4, <1>5 DEF MoveStep

LEMMA LossNoFrame ==
  ASSUME ReuseInv, LossInv, UNCHANGED storage,
         \A x \in Storages, v \in Values : value'[v].owner = x <=> value[v].owner = x
  PROVE  LossInv'
<1>1. \A x \in {} : Counted(x)'
  OBVIOUS
<1>2. {} \in SUBSET Storages
  OBVIOUS
<1> QED
  BY <1>1, <1>2, LossFrame

LEMMA LossClientStep ==
  ASSUME ReuseInv, LossInv, ClientStep
  PROVE  LossInv'
<1>1. CASE ClientPanic \/ CatchUnwind
  BY <1>1, LossNoFrame DEF ClientPanic, CatchUnwind
<1>2. ASSUME NEW v \in Values, ClientDrop(v) PROVE LossInv'
  <2>1. value \in [Values -> ValueRecord]
    BY DEF ReuseInv, TypeOK
  <2>2. /\ UNCHANGED storage
        /\ value' = [value EXCEPT ![v] = DroppedByClient(@)]
        /\ value[v].owner \notin Storages
    BY <1>2, StoragesAssumption DEF ClientDrop, Homes
  <2>3. DroppedByClient(value[v]).owner = "gone"
    BY <2>1 DEF DroppedByClient, Destroyed, ValueRecord
  <2>4. \A x \in Storages, w \in Values : value'[w].owner = x <=> value[w].owner = x
    BY <2>1, <2>2, <2>3, StoragesAssumption DEF Homes
  <2> QED
    BY <2>2, <2>4, LossNoFrame
<1> QED
  BY <1>1, <1>2 DEF ClientStep

-----------------------------------------------------------------------------
(* The theorem. *)

LEMMA LossInit == Init => LossInv
<1> SUFFICES ASSUME Init, NEW s \in Storages PROVE Counted(s)
  BY DEF LossInv
<1>1. /\ storage[s].life = "unborn" /\ storage[s].tracker = NewTracker
      /\ storage[s].handle = "none"
  BY DEF Init, SlotStorageInit, Unborn, NewStorage
<1>2. Owned(s) = {}
  <2>1. \A h \in {"unborn", "client", "box", "uniqueptr"} : InitialValue(h).owner # s
    BY StoragesAssumption DEF InitialValue, Homes
  <2> QED
    BY <2>1 DEF Init, SlotStorageInit, Owned
<1>3. IsFiniteSet(Owned(s)) /\ Cardinality(Owned(s)) + UnderConstruction(s) = 0
  BY <1>1, <1>2, FS_EmptySet DEF UnderConstruction
<1>4. NewTracker.references = 0
  BY DEF NewTracker
<1> QED
  BY <1>1, <1>2, <1>3, <1>4 DEF Counted

\* A reused storage can lose a value silently, but only after an earlier value was released
\* from it: until then its counter counts every value it owns.  With debug assertions it
\* loses none (Drop for SlotStorage, slot_storage.rs:121).
THEOREM SilentLossHolds ==
  ASSUME ~CfgTest
  PROVE  Spec => []SilentLossNeedsRelease
<1>1. CASE DebugAssertions
  <2>1. ReliableStoragesExact => SilentLossNeedsRelease
    BY <1>1 DEF ReliableStoragesExact, SilentLossNeedsRelease, Reliable
  <2> QED
    BY <2>1, ReliableStoragesExactHolds, PTL
<1>2. CASE ~DebugAssertions
  <2>1. Init => LossInv
    BY LossInit
  <2>2. ReuseInv /\ LossInv /\ [Next]_vars => LossInv'
    <3> SUFFICES ASSUME ReuseInv, LossInv, [Next]_vars PROVE LossInv'
      OBVIOUS
    <3>1. ASSUME NEW s \in Storages, StorageStep(s) PROVE LossInv'
      BY <1>2, <3>1, LossStorageStep
    <3>2. ASSUME NEW s \in Storages, ConstructStep(s) PROVE LossInv'
      BY <1>2, <3>2, LossConstructStep
    <3>3. ASSUME NEW s \in Storages, MoveRefStep(s) PROVE LossInv'
      BY <1>2, <3>3, LossMoveRefStep
    <3>4. ASSUME NEW s \in Storages, MoveStep(s) PROVE LossInv'
      BY <1>2, <3>4, LossMoveStep
    <3>5. CASE ClientStep
      BY <3>5, LossClientStep
    <3>6. CASE UNCHANGED vars
      BY <3>6, LossNoFrame DEF vars
    <3> QED
      BY <3>1, <3>2, <3>3, <3>4, <3>5, <3>6 DEF Next
  <2>3. LossInv => SilentLossNeedsRelease
    BY DEF LossInv, Counted, Owned, HoldsValue, SilentLossNeedsRelease
  <2> QED
    BY <2>1, <2>2, <2>3, ReuseInductive, PTL DEF Spec
<1> QED
  BY <1>1, <1>2

=============================================================================
