----------------------------- MODULE IntoMove ------------------------------
(***************************************************************************)
(* Moving a value out of its owner through a slot, and moving a value into *)
(* a new place (crates/cxx-memory/src/deref_move.rs, into_move.rs, new.rs, *)
(* and the MoveNew that crates/cxx-memory-abi generates).  deref_move and  *)
(* into_move differ only in the pin; Pin<P> does what P does.              *)
(***************************************************************************)
EXTENDS MoveRef

\* A failed assertion drops the emptied owner with the value still inside: a
\* Box<MaybeUninit<T>> frees the block, a CxxUniquePtrStorage does nothing.
MoveOut(s, v, owner, heapOnFailure) ==
    /\ CanUse(s, "deref_move")
    /\ value[v].owner = owner
    /\ \/ /\ InitializeFails(s)
          /\ mode' = AfterPanic(mode)
          /\ value' = [value EXCEPT ![v].owner = "lost", ![v].heap = heapOnFailure]
       \/ /\ InitializeHolding(s, owner, v)
          /\ value' = [value EXCEPT ![v].owner = s]

\* The Box, emptied, moves into the storage; the MoveRef points into its block.
DerefMoveBox(s, v) == MoveOut(s, v, "box", "freed")

DerefMoveUniquePtr(s, v) == MoveOut(s, v, "uniqueptr", "live")

\* A MoveRef moved through a slot is returned as it is; the slot is not used.
DerefMoveMoveRef(s, t) ==
    /\ CanUse(t, "deref_move")
    /\ HasMoveRef(s)
    /\ storage' = [storage EXCEPT ![t].handle = "none"]
    /\ UNCHANGED <<value, calls, mode, asserted>>

-----------------------------------------------------------------------------
(* new::mov inside the constructor of d, from the MoveRef of s. *)

\* A mistake to detect: the source is copied out but its MoveRef is forgotten,
\* not released.
MoveNewTrivialUnreleased(d, s) ==
    /\ mode = "running"
    /\ Innermost(d)
    /\ HasMoveRef(s)
    /\ storage' = [storage EXCEPT
                     ![s].handle = "none",
                     ![d].memory = "T", ![d].target = storage[s].target, ![d].handle = "moveref"]
    /\ value' = [value EXCEPT ![storage[s].target].owner = d]
    /\ calls' = Tail(calls)
    /\ UNCHANGED <<mode, asserted>>

\* trivial_move!: the value itself is read out with into_inner and written to d.
MoveNewTrivial(d, s) ==
    LET o == ReleaseOutcome(storage[s].tracker)
    IN  /\ mode = "running"
        /\ Innermost(d)
        /\ HasMoveRef(s)
        /\ storage' = [storage EXCEPT
                         ![s].tracker = o.cells, ![s].handle = "none",
                         ![d].memory = "T", ![d].target = storage[s].target, ![d].handle = "moveref"]
        /\ value' = [value EXCEPT ![storage[s].target] = ReadOut(@, o, s, d)]
        /\ calls' = Tail(calls)
        /\ UNCHANGED <<mode, asserted>>

\* The generated move_new: the C++ move constructor makes a new value w in d, then the
\* MoveRef of the source is dropped.  If that panics, w stays behind in d, which has no
\* MoveRef yet.
MoveNewCxx(d, s, w) ==
    LET o == MoveRefDropOutcome(storage[s].tracker)
        v == storage[s].target
        Made(h) == storage' = [storage EXCEPT
                                 ![s].tracker = o.cells, ![s].handle = "none",
                                 ![d].memory = "T", ![d].target = w, ![d].handle = h]
    IN  /\ mode = "running"
        /\ Innermost(d)
        /\ HasMoveRef(s)
        /\ value[w].owner = "unborn"
        /\ value' = [value EXCEPT ![w].owner = d,
                                  ![v] = IF o.drops THEN Destroyed(@, s) ELSE @]
        /\ asserted' = asserted \cup ({o.failed} \ {"none"})
        /\ calls' = Tail(calls)
        /\ \/ o.failed = "none" /\ Made("moveref") /\ UNCHANGED mode
           \/ (o.drops \/ o.failed # "none") /\ Made("none") /\ mode' = AfterPanic(mode)

=============================================================================
