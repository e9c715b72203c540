------------------------------ MODULE Lifecycle ------------------------------
(***************************************************************************)
(* The states of the bridge service and the table of legal transitions     *)
(* (core/lifecycle.py).  Only definitions: the machine itself, with its    *)
(* history and callbacks, is ServiceLifecycle; LifecycleContract is what   *)
(* any user of the machine may observe of it.                              *)
(***************************************************************************)

\* class LifecycleState
LifecycleStates ==
    {"CREATED", "STARTING", "RUNNING", "RECONNECTING",
     "STOPPING", "STOPPED", "FAILED"}

\* Mutant: a service that is stopping can be brought back.
ValidTransitionsRestart ==
    [s \in LifecycleStates |->
        CASE s = "CREATED"      -> {"STARTING", "STOPPING", "FAILED"}
          [] s = "STARTING"     -> {"RUNNING", "STOPPING", "FAILED"}
          [] s = "RUNNING"      -> {"RECONNECTING", "STOPPING", "FAILED"}
          [] s = "RECONNECTING" -> {"RUNNING", "STOPPING", "FAILED"}
          [] s = "STOPPING"     -> {"RUNNING", "STOPPED", "FAILED"}
          [] OTHER              -> {}]

\* _VALID_TRANSITIONS: the states each state may move to.
ValidTransitions ==
    [s \in LifecycleStates |->
        CASE s = "CREATED"      -> {"STARTING", "STOPPING", "FAILED"}
          [] s = "STARTING"     -> {"RUNNING", "STOPPING", "FAILED"}
          [] s = "RUNNING"      -> {"RECONNECTING", "STOPPING", "FAILED"}
          [] s = "RECONNECTING" -> {"RUNNING", "STOPPING", "FAILED"}
          [] s = "STOPPING"     -> {"STOPPED", "FAILED"}
          [] OTHER              -> {}]

\* can_transition()
CanTransition(from, to) == to \in ValidTransitions[from]

\* is_active(), is_stopping(), is_terminal()
IsActive(s)   == s \in {"RUNNING", "RECONNECTING"}
IsStopping(s) == s \in {"STOPPING", "STOPPED"}
IsTerminal(s) == s \in {"STOPPED", "FAILED"}

\* The idiom "if can_transition(to): await transition(to)" of the callers.
TransitionIfValid(from, to) == IF CanTransition(from, to) THEN to ELSE from
=============================================================================
