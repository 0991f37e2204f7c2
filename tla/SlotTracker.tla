---------------------------- MODULE SlotTracker ----------------------------
(***************************************************************************)
(* The three cells a slot storage shares with its slot and its move        *)
(* reference (crates/cxx-memory/src/slot_storage.rs, SlotStorageTracker    *)
(* and SlotStorageStatus), as a record, and the status methods as          *)
(* functions of that record.  A method that can fail a debug_assert!       *)
(* returns an outcome: the cells it leaves behind and the name of the      *)
(* method whose assertion failed, "none" if it ran to its end.             *)
(***************************************************************************)
EXTENDS Naturals

CONSTANTS
    DebugAssertions,  \* is cfg(debug_assertions) on in this build?
    UsizeMax          \* usize::MAX

ASSUME DebugAssertionsAssumption == DebugAssertions \in BOOLEAN
ASSUME UsizeMaxAssumption == UsizeMax \in Nat \ {0}

Tracker == [initialized : BOOLEAN, released : BOOLEAN, references : 0 .. UsizeMax]

NewTracker == [initialized |-> FALSE, released |-> FALSE, references |-> 0]

AssertionSites == {"initialize", "increment", "decrement", "terminate"}

Ran(t)          == [cells |-> t, failed |-> "none"]
FailedAt(m, t)  == [cells |-> t, failed |-> m]

-----------------------------------------------------------------------------
(* Observers. *)

ReferencesAreZeroed(t) == t.references = 0

IsUninitialized(t) == ReferencesAreZeroed(t) /\ ~t.initialized

\* A mistake to detect: a released value still counts as leaked.
IsLeakingIgnoringRelease(t) == t.initialized /\ ~ReferencesAreZeroed(t)

\* A mistake to detect: the counter is never read.
IsLeakingNever(t) == t.released /\ t.initialized

IsLeaking(t) == ~t.released /\ t.initialized /\ ~ReferencesAreZeroed(t)

-----------------------------------------------------------------------------
(* Updates; usize arithmetic wraps where no assertion stops it. *)

\* A mistake to detect: the counter is left alone.
IncrementForgotten(t) == Ran(t)

\* A mistake to detect: the slot and the move reference are both counted.
IncrementTwice(t) == Ran([t EXCEPT !.references = @ + 2])

Increment(t) ==
    IF DebugAssertions /\ ~ReferencesAreZeroed(t)
    THEN FailedAt("increment", t)
    ELSE Ran([t EXCEPT !.references = IF @ = UsizeMax THEN 0 ELSE @ + 1])

\* A mistake to detect: the flag is not set.
InitializeUnflagged(t) == Increment(t)

Initialize(t) ==
    IF DebugAssertions /\ t.initialized
    THEN FailedAt("initialize", t)
    ELSE Increment([t EXCEPT !.initialized = TRUE])

Decrement(t) ==
    IF DebugAssertions /\ ReferencesAreZeroed(t)
    THEN FailedAt("decrement", t)
    ELSE Ran([t EXCEPT !.references = IF @ = 0 THEN UsizeMax ELSE @ - 1])

\* A mistake to detect: terminate asserts but does not decrement.
TerminateWithoutDecrement(t) ==
    IF DebugAssertions /\ ~ReferencesAreZeroed(t) THEN FailedAt("terminate", t) ELSE Ran(t)

Terminate(t) ==
    LET d == Decrement(t)
    IN  IF DebugAssertions /\ d.failed = "none" /\ ~ReferencesAreZeroed(d.cells)
        THEN FailedAt("terminate", d.cells)
        ELSE d

\* A mistake to detect: release forgets its flag.
SetReleasedForgotten(t) == t

SetReleased(t) == [t EXCEPT !.released = TRUE]

=============================================================================
