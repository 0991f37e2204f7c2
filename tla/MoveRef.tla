------------------------------ MODULE MoveRef ------------------------------
(***************************************************************************)
(* Slots and move references (crates/cxx-memory/src/slot.rs, move_ref.rs). *)
(* A slot is consumed by constructing a value in its storage, which yields *)
(* a MoveRef (pinned or not: pinning changes no state).  The MoveRef owns  *)
(* the value: dropping it destroys the value and zeroes the tracker,       *)
(* releasing it hands the value to the caller.                             *)
(***************************************************************************)
EXTENDS SlotStorage

\* A mistake to detect: let_cxx! picks a dropping slot for every form.
FitsAny(s, use) == TRUE

\* let_cxx! and cxx! pick the kind of the slot by the form of their argument;
\* whoever creates a slot of his own passes it to any of the operations.
Fits(s, use) ==
    storage[s].origin = "let_cxx" => (storage[s].kind = "Drop" <=> use = "deref_move")

CanUse(s, use) ==
    /\ mode = "running"
    /\ storage[s].handle = "slot"
    /\ Fits(s, use)

\* status.initialize() has failed an assertion: the slot is gone, the panic is the caller's.
InitializeFails(s) ==
    LET i == Initialize(storage[s].tracker)
    IN  /\ i.failed # "none"
        /\ storage' = [storage EXCEPT ![s].tracker = i.cells, ![s].handle = "none"]
        /\ asserted' = asserted \cup {i.failed}
        /\ UNCHANGED calls

\* status.initialize() has passed, and memory now holds m, with v behind it.
InitializeHolding(s, m, v) ==
    LET i == Initialize(storage[s].tracker)
    IN  /\ i.failed = "none"
        /\ storage' = [storage EXCEPT ![s].tracker = i.cells, ![s].memory = m,
                                      ![s].target = v, ![s].handle = "moveref"]
        /\ UNCHANGED <<calls, mode, asserted>>

-----------------------------------------------------------------------------
(* Slot::try_emplace and emplace: initialize first, then run the           *)
(* constructor, whose code may itself use slots, fail or panic.            *)

TryEmplace(s) ==
    /\ CanUse(s, "emplace")
    /\ UNCHANGED value
    /\ \/ InitializeFails(s) /\ mode' = AfterPanic(mode)
       \/ LET i == Initialize(storage[s].tracker)
          IN  /\ i.failed = "none"
              /\ storage' = [storage EXCEPT ![s].tracker = i.cells, ![s].handle = "call"]
              /\ calls' = <<s>> \o calls
              /\ UNCHANGED <<mode, asserted>>

Innermost(s) == calls # <<>> /\ Head(calls) = s /\ storage[s].handle = "call"

\* The constructor has written the new value v, and returns Ok.
ConstructOk(s, v) ==
    /\ mode = "running"
    /\ Innermost(s)
    /\ value[v].owner = "unborn"
    /\ storage' = [storage EXCEPT ![s].memory = "T", ![s].target = v, ![s].handle = "moveref"]
    /\ value' = [value EXCEPT ![v].owner = s]
    /\ calls' = Tail(calls)
    /\ UNCHANGED <<mode, asserted>>

\* It returns Err, or a panic unwinds through it.
ConstructFails(s) ==
    /\ Live
    /\ Innermost(s)
    /\ storage' = [storage EXCEPT ![s].memory = "uninit", ![s].target = None, ![s].handle = "none"]
    /\ calls' = Tail(calls)
    /\ UNCHANGED <<value, mode, asserted>>

\* Slot::pin and Slot::put: the constructor writes v, and cannot fail.  A failed
\* assertion drops the constructor, and v with it; should v's destructor panic too,
\* the process aborts.
Put(s, v) ==
    /\ CanUse(s, "emplace")
    /\ value[v].owner = "client"
    /\ \/ /\ InitializeFails(s)
          /\ value' = [value EXCEPT ![v] = Destroyed(@, "client")]
          /\ mode' \in {AfterPanic(mode), AfterPanic(AfterPanic(mode))}
       \/ InitializeHolding(s, "T", v) /\ value' = [value EXCEPT ![v].owner = s]

-----------------------------------------------------------------------------
(* Drop for MoveRef, and the ways to end one without it.                   *)

HasMoveRef(s) == Live /\ storage[s].handle = "moveref"

\* The tracker after the drop, the assertion that failed in it, and whether it
\* got to drop_in_place.
MoveRefDropOutcome(t) ==
    IF t.released
    THEN [cells |-> t, failed |-> "none", drops |-> FALSE]
    ELSE LET e == Terminate(t)
         IN  [cells |-> e.cells, failed |-> e.failed, drops |-> e.failed = "none"]

\* A mistake to detect: the destructor runs before terminate(), so its panic
\* leaves the counter set.
MoveRefDropDestructorFirst(s) ==
    LET o == MoveRefDropOutcome(storage[s].tracker)
    IN  /\ HasMoveRef(s)
        /\ UNCHANGED <<calls, asserted>>
        /\ value' = IF o.drops THEN [value EXCEPT ![storage[s].target] = Destroyed(@, s)] ELSE value
        /\ \/ /\ storage' = [storage EXCEPT ![s].tracker = o.cells, ![s].handle = "none"]
              /\ UNCHANGED mode
           \/ /\ o.drops
              /\ storage' = [storage EXCEPT ![s].handle = "none"]
              /\ mode' = AfterPanic(mode)

\* drop_in_place runs T's destructor, which may panic, as a failed assertion does.
MoveRefDrop(s) ==
    LET o == MoveRefDropOutcome(storage[s].tracker)
    IN  /\ HasMoveRef(s)
        /\ storage' = [storage EXCEPT ![s].tracker = o.cells, ![s].handle = "none"]
        /\ value' = IF o.drops THEN [value EXCEPT ![storage[s].target] = Destroyed(@, s)] ELSE value
        /\ asserted' = asserted \cup ({o.failed} \ {"none"})
        /\ \/ o.failed = "none" /\ UNCHANGED mode
           \/ (o.drops \/ o.failed # "none") /\ mode' = AfterPanic(mode)
        /\ UNCHANGED calls

\* core::mem::forget on a MoveRef: nothing runs, the value stays where it is.
ForgetMoveRef(s) ==
    /\ mode = "running"
    /\ HasMoveRef(s)
    /\ storage' = [storage EXCEPT ![s].handle = "none"]
    /\ UNCHANGED <<value, calls, mode, asserted>>

\* Setting the released flag, and the MoveRef's own drop right after it.
ReleaseOutcome(t) == MoveRefDropOutcome(SetReleased(t))

\* v after it is read out of the storage s, whose MoveRef was dropped with outcome o.
ReadOut(r, o, s, home) == [(IF o.drops THEN Destroyed(r, s) ELSE r) EXCEPT !.owner = home]

ReleaseTo(s, home) ==
    LET o == ReleaseOutcome(storage[s].tracker)
    IN  /\ mode = "running"
        /\ HasMoveRef(s)
        /\ storage' = [storage EXCEPT ![s].tracker = o.cells, ![s].handle = "none"]
        /\ value' = [value EXCEPT ![storage[s].target] = ReadOut(@, o, s, home)]
        /\ UNCHANGED <<calls, mode, asserted>>

\* MoveRef::release gives the caller a raw pointer.
Release(s) == ReleaseTo(s, "raw")

\* MoveRef::into_inner reads the value out.
IntoInner(s) == ReleaseTo(s, "client")

\* The program drops a value it holds itself; a Box or UniquePtr frees its block.
DroppedByClient(r) ==
    [Destroyed(r, r.owner) EXCEPT !.heap = IF r.owner = "client" THEN r.heap ELSE "freed"]

ClientDrop(v) ==
    /\ Live
    /\ value[v].owner \in {"client", "box", "uniqueptr"}
    /\ value' = [value EXCEPT ![v] = DroppedByClient(@)]
    /\ mode' \in {mode, AfterPanic(mode)}
    /\ UNCHANGED <<storage, calls, asserted>>

=============================================================================
