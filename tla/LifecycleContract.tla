-------------------------- MODULE LifecycleContract --------------------------
(***************************************************************************)
(* What the rest of the program may rely on about the lifecycle, whoever   *)
(* drives it: it starts in a known state, moves along the table, never     *)
(* leaves a terminal state, and once it is stopping it is never active     *)
(* again.  ServiceLifecycle and Orchestrator are shown to implement it.    *)
(***************************************************************************)
EXTENDS Lifecycle

CONSTANT InitialStates

VARIABLE state

Init == state \in InitialStates
Move == \E to \in ValidTransitions[state] : state' = to
Spec == Init /\ [][Move]_state
=============================================================================
