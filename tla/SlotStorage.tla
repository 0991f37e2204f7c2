---------------------------- MODULE SlotStorage ----------------------------
(***************************************************************************)
(* Slot storages and their scopes (crates/cxx-memory/src/slot_storage.rs   *)
(* and the slot macros of macros.rs).  A storage is a stack cell that may  *)
(* hold one value and carries the tracker of SlotTracker; its Drop either  *)
(* returns at once, detects a leak and panics twice, or drops the memory.  *)
(*                                                                         *)
(* This module also holds what every operation shares: the values, who is  *)
(* responsible for destroying each of them, and the panic machinery of the *)
(* Rust runtime (a panic during unwinding aborts the process).             *)
(***************************************************************************)
EXTENDS SlotTracker, Sequences

CONSTANTS
    Storages,  \* the slot storages a program creates
    Values,    \* the values that pass through them
    None,      \* the target of a storage that holds nothing
    Origins,   \* how storages are created: a subset of AllOrigins
    CfgTest    \* cfg(test): double_panic panics only once

Homes      == {"unborn", "client", "box", "uniqueptr", "raw", "lost", "gone"}
AllOrigins == {"let_cxx", "let_cxx_slot", "SlotStorage"}

ASSUME StoragesAssumption == Storages \cap Homes = {}
ASSUME NoneAssumption     == None \notin Values
ASSUME OriginsAssumption  == Origins \subseteq AllOrigins
ASSUME CfgTestAssumption  == CfgTest \in BOOLEAN

VARIABLES
    storage,   \* storage[s]: the storage, its memory and the handle that borrows it
    value,     \* value[v]: who must destroy v, how often it was destroyed, its heap block
    calls,     \* constructors running inside try_emplace, the innermost first
    mode,      \* is the thread running, unwinding, or has the process aborted?
    asserted   \* debug assertions that have failed, by the method that makes them

vars == <<storage, value, calls, mode, asserted>>

Lives   == {"unborn", "live", "dropped"}
Kinds   == {"Drop", "Keep"}
Modes   == {"running", "unwinding", "aborted"}
Memory  == {"uninit", "T", "box", "uniqueptr"}
Handles == {"none", "slot", "call", "moveref"}
Targets == Values \cup {None}

StorageRecord ==
    [life    : Lives,
     kind    : Kinds,
     origin  : AllOrigins,
     tracker : Tracker,
     memory  : Memory,               \* what MaybeUninit holds: a T, or the T's emptied owner
     target  : Targets,              \* the value a move reference into it points to
     handle  : Handles]              \* what borrows the storage now

ValueRecord ==
    [owner     : Homes \cup Storages,  \* a storage owns a value until its MoveRef drops it
     destroyed : 0 .. 2,               \* 2 stands for twice or more
     heap      : {"none", "live", "freed"}]

NewStorage(k, o, h) ==
    [life |-> "live", kind |-> k, origin |-> o, tracker |-> NewTracker,
     memory |-> "uninit", target |-> None, handle |-> h]

Unborn == [NewStorage("Keep", "let_cxx", "none") EXCEPT !.life = "unborn"]

\* The value after its destructor ran from the place "from".
Destroyed(r, from) ==
    [r EXCEPT !.destroyed = IF @ = 2 THEN 2 ELSE @ + 1,
              !.owner     = IF @ = from THEN "gone" ELSE @]

\* A client value comes by value, in a Box or in a UniquePtr, or is still to be constructed.
InitialValue(h) ==
    [owner |-> h, destroyed |-> 0,
     heap  |-> IF h \in {"box", "uniqueptr"} THEN "live" ELSE "none"]

SlotStorageInit ==
    /\ storage = [s \in Storages |-> Unborn]
    /\ \E home \in [Values -> {"unborn", "client", "box", "uniqueptr"}] :
          value = [v \in Values |-> InitialValue(home[v])]
    /\ calls = <<>>
    /\ mode = "running"
    /\ asserted = {}

-----------------------------------------------------------------------------
(* Panics. *)

AfterPanic(m) == IF m = "unwinding" THEN "aborted" ELSE "unwinding"

\* A mistake to detect: the guard object that panics again is missing.
SinglePanic(m) == AfterPanic(m)

\* Panic with a local whose Drop panics again, unless cfg(test).
DoublePanic(m) == IF CfgTest THEN AfterPanic(m) ELSE "aborted"

Live == mode \in {"running", "unwinding"}

\* The program's own code panics; a caller catches what unwinds.
ClientPanic ==
    /\ mode = "running"
    /\ mode' = AfterPanic(mode)
    /\ UNCHANGED <<storage, value, calls, asserted>>

CatchUnwind ==
    /\ mode = "unwinding"
    /\ mode' = "running"
    /\ UNCHANGED <<storage, value, calls, asserted>>

-----------------------------------------------------------------------------
(* Creation and use of a storage. *)

\* let_cxx_slot!, cxx_slot! and the first line of let_cxx!: a storage and its slot.
LetCxxSlot(s, k, o) ==
    /\ mode = "running"
    /\ storage[s].life = "unborn"
    /\ o \in Origins \ {"SlotStorage"}
    /\ storage' = [storage EXCEPT ![s] = NewStorage(k, o, "slot")]
    /\ UNCHANGED <<value, calls, mode, asserted>>

SlotStorageNew(s, k) ==
    /\ mode = "running"
    /\ storage[s].life = "unborn"
    /\ "SlotStorage" \in Origins
    /\ storage' = [storage EXCEPT ![s] = NewStorage(k, "SlotStorage", "none")]
    /\ UNCHANGED <<value, calls, mode, asserted>>

\* Bound of the models: a storage is not used so often that its counter wraps.
CounterBound(s) == storage[s].tracker.references < UsizeMax

\* The &mut borrow needs every earlier handle gone, nothing more.
SlotStorageSlot(s) ==
    /\ mode = "running"
    /\ storage[s].life = "live"
    /\ storage[s].origin = "SlotStorage"
    /\ storage[s].handle = "none"
    /\ CounterBound(s)
    /\ storage' = [storage EXCEPT ![s].handle = "slot"]
    /\ UNCHANGED <<value, calls, mode, asserted>>

\* Slot has no destructor: an unused one just ends its borrow.
DropSlot(s) ==
    /\ Live
    /\ storage[s].handle = "slot"
    /\ storage' = [storage EXCEPT ![s].handle = "none"]
    /\ UNCHANGED <<value, calls, mode, asserted>>

-----------------------------------------------------------------------------
(* Drop for SlotStorage.  The borrow checker lets a storage go only when   *)
(* no handle borrows it.                                                   *)

MayDrop(s) ==
    /\ Live
    /\ storage[s].life = "live"
    /\ storage[s].handle = "none"

DropUninitialized(s) ==
    /\ MayDrop(s)
    /\ IsUninitialized(storage[s].tracker)
    /\ storage' = [storage EXCEPT ![s].life = "dropped"]
    /\ UNCHANGED <<value, calls, mode, asserted>>

\* The drop of the storage completes only if the process survives.
DropLeaking(s) ==
    /\ MayDrop(s)
    /\ ~IsUninitialized(storage[s].tracker)
    /\ IsLeaking(storage[s].tracker)
    /\ mode' = DoublePanic(mode)
    /\ storage' = [storage EXCEPT ![s].life = IF mode' = "aborted" THEN "live" ELSE "dropped"]
    /\ UNCHANGED <<value, calls, asserted>>

DropSound(s) ==
    /\ MayDrop(s)
    /\ ~IsUninitialized(storage[s].tracker)
    /\ ~IsLeaking(storage[s].tracker)
    /\ storage' = [storage EXCEPT ![s].life = "dropped"]
    /\ UNCHANGED <<calls, asserted>>

\* A mistake to detect: a Keep storage for every use.
DropsMemoryNever(r) == FALSE

\* A mistake to detect: the kind is not consulted.
DropsMemoryAlways(r) == TRUE

DropsMemory(r) == r.kind = "Drop"

\* Keep: the memory is left alone.
DropKeep(s) ==
    /\ DropSound(s)
    /\ ~DropsMemory(storage[s])
    /\ UNCHANGED <<value, mode>>

\* Drop: assume_init_drop.  A Box frees its block, a CxxUniquePtrStorage has no
\* destructor, a T is destroyed and its destructor may panic.
DropInPlace(s) ==
    /\ DropSound(s)
    /\ DropsMemory(storage[s])
    /\ \/ /\ storage[s].memory = "T"
          /\ value' = [value EXCEPT ![storage[s].target] = Destroyed(@, s)]
          /\ mode' \in {mode, AfterPanic(mode)}
       \/ /\ storage[s].memory = "box"
          /\ value' = [value EXCEPT ![storage[s].target].heap = "freed"]
          /\ UNCHANGED mode
       \/ /\ storage[s].memory \in {"uninit", "uniqueptr"}
          /\ UNCHANGED <<value, mode>>

StorageDrop(s) == DropUninitialized(s) \/ DropLeaking(s) \/ DropKeep(s) \/ DropInPlace(s)

=============================================================================
