---------------------------- MODULE BridgeContract ----------------------------
(***************************************************************************)
(* What the bridge promises to whoever looks at it from Home Assistant:    *)
(* the lifecycle follows its table, the availability of a device is shown  *)
(* only between start and end of the service, an outage of the hub ends    *)
(* only after no device is shown online any more, and none becomes online  *)
(* while it lasts.                                                         *)
(***************************************************************************)
EXTENDS Lifecycle

CONSTANT Devices

VARIABLES
    state,              \* the lifecycle state
    shown               \* availability of each device, "unknown" if not known

Init ==
    /\ state = "CREATED"
    /\ shown = [d \in Devices |-> "unknown"]

\* The service moves along the table.
Move ==
    /\ state' \in ValidTransitions[state]
    /\ (state = "RECONNECTING" /\ state' = "RUNNING") =>
           \A d \in Devices : shown[d] # "online"
    /\ UNCHANGED shown

\* The availability of one device changes.
Show(d, value) ==
    /\ state \notin {"CREATED", "STOPPED"}
    /\ value = "online" => state # "RECONNECTING"
    /\ shown' = [shown EXCEPT ![d] = value]
    /\ UNCHANGED state

Next ==
    \/ Move
    \/ \E d \in Devices, value \in {"unknown", "online", "offline"} : Show(d, value)
Spec == Init /\ [][Next]_<<state, shown>>
=============================================================================
