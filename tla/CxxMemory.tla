----------------------------- MODULE CxxMemory -----------------------------
(***************************************************************************)
(* A single-threaded program that uses crates/cxx-memory: any legal        *)
(* sequence of the operations of SlotStorage, MoveRef and IntoMove, with   *)
(* panics in client code, constructors and destructors.                    *)
(***************************************************************************)
EXTENDS IntoMove

Init == SlotStorageInit

StorageStep(s) ==
    \/ \E k \in Kinds : SlotStorageNew(s, k) \/ \E o \in AllOrigins : LetCxxSlot(s, k, o)
    \/ SlotStorageSlot(s)
    \/ DropSlot(s)
    \/ StorageDrop(s)

ConstructStep(s) ==
    \/ TryEmplace(s)
    \/ ConstructFails(s)
    \/ \E v \in Values : ConstructOk(s, v) \/ Put(s, v)

MoveRefStep(s) ==
    \/ MoveRefDrop(s)
    \/ ForgetMoveRef(s)
    \/ Release(s)
    \/ IntoInner(s)

MoveStep(s) ==
    \/ \E v \in Values : DerefMoveBox(s, v) \/ DerefMoveUniquePtr(s, v)
    \/ \E t \in Storages :
          \/ DerefMoveMoveRef(s, t)
          \/ MoveNewTrivial(s, t)
          \/ \E w \in Values : MoveNewCxx(s, t, w)

ClientStep == ClientPanic \/ CatchUnwind \/ \E v \in Values : ClientDrop(v)

Next ==
    \/ \E s \in Storages : StorageStep(s) \/ ConstructStep(s) \/ MoveRefStep(s) \/ MoveStep(s)
    \/ ClientStep

Spec == Init /\ [][Next]_vars

\* What the end of a scope does to one storage: constructors end, handles are dropped,
\* then the storage is.
ScopeStep(s) ==
    \/ DropSlot(s) \/ MoveRefDrop(s) \/ StorageDrop(s)
    \/ ConstructFails(s) \/ \E v \in Values : ConstructOk(s, v)

\* Scopes end, by return or by unwinding; nothing else has to happen.
FairSpec == Spec /\ \A s \in Storages : WF_vars(ScopeStep(s))

-----------------------------------------------------------------------------
(* State properties. *)

\* Every variable keeps its type; in particular the counter of a tracker stays
\* within a usize (SlotStorageStatus::increment and decrement).
TypeOK ==
    /\ storage \in [Storages -> StorageRecord]
    /\ value \in [Values -> ValueRecord]
    /\ calls \in Seq(Storages)
    /\ mode \in Modes
    /\ asserted \subseteq AssertionSites

HoldsValue(s) == \E v \in Values : value[v].owner = s

FailedConstruction(s) == storage[s].tracker.initialized /\ storage[s].memory = "uninit"

\* When a storage can be dropped, is_leaking says yes exactly if a value it was
\* given was neither destroyed nor handed on, or its constructor did not finish:
\* whatever forgets, releases, moves and panicking destructors came before.
LeakCheckExactFor(s) ==
    storage[s].life = "live" /\ storage[s].handle = "none" =>
        (IsLeaking(storage[s].tracker) <=> HoldsValue(s) \/ FailedConstruction(s))

LeakCheckExact == \A s \in Storages : LeakCheckExactFor(s)

\* The drop guarantee: a scope never ends around a value its storage still owns;
\* Drop for SlotStorage stops the process instead.
DropGuarantee ==
    \A s \in Storages : storage[s].life = "dropped" => ~HoldsValue(s)

\* A MoveRef points to a value that is alive, that no other MoveRef points to,
\* in memory that is still there: the storage's own, or the heap block behind it.
MoveRefTargetsLive ==
    \A s \in Storages :
        storage[s].handle = "moveref" =>
            LET v == storage[s].target
            IN  /\ storage[s].life = "live"
                /\ storage[s].memory # "uninit"
                /\ v \in Values
                /\ value[v].owner = s
                /\ value[v].destroyed = 0
                /\ storage[s].memory \in {"box", "uniqueptr"} => value[v].heap = "live"

\* A value is destroyed exactly once, when it is gone, and never while anyone
\* still owns it: MoveRef's drop, the storage's drop and the caller never both do it.
DestroyedOnce ==
    \A v \in Values : value[v].destroyed = IF value[v].owner = "gone" THEN 1 ELSE 0

\* A #[dropping] storage is for the emptied owner that deref_move leaves behind.
\* The types do not say so: a T can be put into one.
Matched == \A s \in Storages : ~(storage[s].kind = "Drop" /\ storage[s].memory = "T")

\* With slots chosen by hand, MoveRefs are valid and values are destroyed once as
\* long as no T was put into a dropping storage.
SoundIfMatched == Matched => MoveRefTargetsLive /\ DestroyedOnce

\* The heap block of a Box moved through let_cxx! is freed when the scope ends, wherever
\* the value has gone from there; that of a UniquePtr is not, CxxUniquePtrStorage having no
\* destructor (into_move.rs:58).
BlockFreedIffBox ==
    \A s \in Storages :
        storage[s].life = "dropped" /\ storage[s].memory \in {"box", "uniqueptr"} =>
            (value[storage[s].target].heap = "freed" <=> storage[s].memory = "box")

\* No debug_assert! of SlotStorageStatus ever fails (slot_storage.rs:54, 60, 67, 103).
AssertionsHold == asserted = {}

\* With storages reused through slot(), only the one in initialize() can fail.
OnlyInitializeAsserts == asserted \subseteq {"initialize"}

\* What may be relied on: any storage in a debug build, and one that a macro made.
Reliable(s) == DebugAssertions \/ storage[s].origin # "SlotStorage"

\* A storage that is reused without debug assertions keeps its trouble to itself: the leak
\* check of every other storage stays exact, and none of those goes with a value, whatever
\* moves between them and the reused one.
ReliableStoragesExact ==
    \A s \in Storages :
        Reliable(s) => LeakCheckExactFor(s) /\ (storage[s].life = "dropped" => ~HoldsValue(s))

\* Without debug assertions, a reused storage can lose a value silently, but only
\* after an earlier value was released from it.
SilentLossNeedsRelease ==
    \A s \in Storages :
        storage[s].life = "dropped" /\ HoldsValue(s) => storage[s].tracker.released

-----------------------------------------------------------------------------
(* The inductive invariant behind LeakCheckExact and DropGuarantee. *)

\* The storage holds a value that its tracker still accounts for.
Pending(r) ==
    /\ r.tracker.initialized
    /\ ~r.tracker.released
    /\ r.tracker.references # 0
    /\ r.memory # "uninit"

\* A storage only goes with something in it where a unit test survives the loss.
NotGone(r) == r.life = "live" \/ (CfgTest /\ r.life = "dropped")

\* How the tracker, the memory and the handle of one storage hang together.
RecordInv(r) ==
    /\ r.life # "unborn" => r.origin \in Origins
    /\ r.life = "unborn" => ~r.tracker.initialized
    /\ r.handle # "none" => r.life = "live"
    /\ ~r.tracker.initialized =>
          ~r.tracker.released /\ r.tracker.references = 0 /\ r.memory = "uninit"
    /\ r.tracker.initialized /\ r.memory = "uninit" =>
          ~r.tracker.released /\ r.tracker.references = 1 /\ NotGone(r)
    /\ r.handle = "slot" /\ r.tracker.initialized => DebugAssertions
    /\ r.handle = "call" => r.tracker.initialized /\ r.memory = "uninit"
    /\ r.handle = "moveref" => Pending(r)
    /\ Pending(r) => r.tracker.references = 1 /\ NotGone(r) /\ r.target \in Values

\* A storage owns exactly the value its tracker accounts for.
OwnerInv ==
    \A s \in Storages, v \in Values :
        value[v].owner = s <=> Pending(storage[s]) /\ storage[s].target = v

\* Inductive when a storage that is used again fails an assertion: every tracker
\* counts the value its storage owns, and nothing else.
IInv == TypeOK /\ (\A s \in Storages : RecordInv(storage[s])) /\ OwnerInv

-----------------------------------------------------------------------------
(* Step properties. *)

Dropping(s) == storage[s].life = "live" /\ storage'[s].life = "dropped"

\* assume_init_drop is only reached with memory that was initialised; a storage that is
\* reused without debug assertions may get there with what a failed constructor left, but
\* only if an earlier value was released from it.
AssumeInitIsInit ==
    [][\A s \in Storages :
          Dropping(s) /\ storage[s].kind = "Drop" /\ ~IsUninitialized(storage[s].tracker)
          /\ ~IsLeaking(storage[s].tracker) =>
              \/ storage[s].memory # "uninit"
              \/ ~Reliable(s) /\ storage[s].tracker.released]_vars

\* A process that is not unwinding, and in which no assertion has failed, aborts only because
\* some storage in it really lost a value or kept a half-built one.
AbortOnlyOnLeak ==
    [][mode = "running" /\ mode' = "aborted" /\ asserted' = {} =>
          \E s \in Storages : MayDrop(s) /\ (HoldsValue(s) \/ FailedConstruction(s))]_vars

\* In unit tests the loss is a panic a test can expect: a storage that lost a value
\* goes only by starting to unwind.
LeakPanics ==
    [][\A s \in Storages :
          Dropping(s) /\ (HoldsValue(s) \/ FailedConstruction(s)) =>
              mode = "running" /\ mode' = "unwinding"]_vars

\* A value that is put into a scope does not stay there: it is destroyed or handed on
\* before the scope ends, or the process aborts, or a unit test sees the scope's panic.
ValuesSettle ==
    \A s \in Storages, v \in Values :
        value[v].owner = s /\ storage[s].life = "live" ~>
            \/ value[v].owner # s
            \/ mode = "aborted"
            \/ CfgTest /\ storage[s].life = "dropped" /\ mode = "unwinding"

\* What the test at move_ref.rs:134 is named for: release inhibits drop.  The value
\* behind a released pointer is not destroyed by the library.
ReleaseInhibitsDrop ==
    [][\A v \in Values :
          value[v].owner = "raw" => value'[v].destroyed = value[v].destroyed]_vars

\* What the comment at slot_storage.rs:127 says: only a storage created outside the
\* macros is dropped uninitialised.
UninitializedDropIsManual ==
    [][\A s \in Storages :
          Dropping(s) /\ IsUninitialized(storage[s].tracker) =>
              storage[s].origin = "SlotStorage"]_vars

-----------------------------------------------------------------------------
(* The abstract specification: a value is held by the storage that owns it. *)

HolderOf(o) ==
    CASE o \in Storages \cup {"unborn", "gone"} -> o
      [] OTHER -> "outside"

Holder == [v \in Values |-> HolderOf(value[v].owner)]

Ended == {s \in Storages : storage[s].life = "dropped"}

Slots == INSTANCE PinnedSlots WITH holder <- Holder, ended <- Ended, halted <- (mode = "aborted")

\* The operations implement PinnedSlots.
ImplementsPinnedSlots == Slots!Spec

=============================================================================
