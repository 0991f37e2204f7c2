---------------------------- MODULE SharedOwners ----------------------------
(***************************************************************************)
(* What Box, Rc and Arc promise of the values behind them, and in-place    *)
(* construction must not break: a value comes to life once, with one       *)
(* owner, and dies in the moment its last owner lets go of it.             *)
(***************************************************************************)
EXTENDS Naturals

CONSTANT Values

VARIABLES
    fate,   \* fate[v]: is v unborn, alive or dead?
    owners  \* owners[v]: how many pointers there are to v

Init ==
    /\ fate = [v \in Values |-> "unborn"]
    /\ owners = [v \in Values |-> 0]

Born(v) ==
    /\ fate[v] = "unborn"
    /\ fate' = [fate EXCEPT ![v] = "alive"]
    /\ owners' = [owners EXCEPT ![v] = 1]

Share(v) ==
    /\ owners[v] > 0
    /\ owners' = [owners EXCEPT ![v] = @ + 1]
    /\ UNCHANGED fate

LetGo(v) ==
    /\ owners[v] > 0
    /\ owners' = [owners EXCEPT ![v] = @ - 1]
    /\ fate' = IF owners[v] = 1 THEN [fate EXCEPT ![v] = "dead"] ELSE fate

Next == \E v \in Values : Born(v) \/ Share(v) \/ LetGo(v)

Spec == Init /\ [][Next]_<<fate, owners>>

=============================================================================
