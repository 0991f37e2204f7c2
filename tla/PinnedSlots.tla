---------------------------- MODULE PinnedSlots ----------------------------
(***************************************************************************)
(* What slot storages promise, without trackers, handles or panics: a      *)
(* scope does not end around a value it still holds.  A value placed in a  *)
(* scope is moved on, taken out or destroyed before the scope ends, or the *)
(* process halts.  A destroyed value never comes back.                     *)
(***************************************************************************)
EXTENDS Naturals

CONSTANTS Storages, Values

VARIABLES
    holder,  \* holder[v]: a scope, or where else v is
    ended,   \* the scopes that have ended
    halted   \* has the process stopped?

Init ==
    /\ holder \in [Values -> {"unborn", "outside"}]
    /\ ended = {}
    /\ halted = FALSE

\* v, new or from anywhere, comes to rest in the open scope s.
Place(v, s) ==
    /\ holder[v] # "gone"
    /\ s \notin ended
    /\ holder' = [holder EXCEPT ![v] = s]
    /\ UNCHANGED <<ended, halted>>

\* A new value w replaces v, which is destroyed: a C++ move construction.
Replace(v, w, s) ==
    /\ v # w /\ holder[v] \in Storages /\ holder[w] = "unborn"
    /\ s \notin ended
    /\ holder' = [holder EXCEPT ![v] = "gone", ![w] = s]
    /\ UNCHANGED <<ended, halted>>

TakeOut(v) ==
    /\ holder[v] \in Storages
    /\ holder' = [holder EXCEPT ![v] = "outside"]
    /\ UNCHANGED <<ended, halted>>

\* A destructor that panics may stop the process.
Destroy(v) ==
    /\ holder[v] \in Storages \cup {"outside"}
    /\ holder' = [holder EXCEPT ![v] = "gone"]
    /\ halted' \in BOOLEAN
    /\ UNCHANGED ended

\* The promise: only an empty scope ends.
End(s) ==
    /\ s \notin ended
    /\ \A v \in Values : holder[v] # s
    /\ ended' = ended \cup {s}
    /\ halted' \in BOOLEAN
    /\ UNCHANGED holder

Halt ==
    /\ halted' = TRUE
    /\ UNCHANGED <<holder, ended>>

Next ==
    /\ ~halted
    /\ \/ \E v \in Values, s \in Storages : Place(v, s)
       \/ \E v, w \in Values, s \in Storages : Replace(v, w, s)
       \/ \E v \in Values : TakeOut(v) \/ Destroy(v)
       \/ \E s \in Storages : End(s)
       \/ Halt

Spec == Init /\ [][Next]_<<holder, ended, halted>>

=============================================================================
