----------------------------- MODULE MCDeviceSync -----------------------------
(* A light, whose attributes are published in one payload, and a speaker (of *)
(* its entities those for volume and reachability).                          *)
EXTENDS DeviceSync

CONSTANTS low, high

Light ==
    [attributes |-> <<"isOn", "lightLevel">>,
     entities |-> <<"light">>,
     entityOf |-> [a \in {"isOn", "lightLevel", "isReachable"} |->
                      IF a = "isReachable" THEN None ELSE "light"],
     snapshots |-> {"light"}]

Speaker ==
    [attributes |-> <<"volume">>,
     entities |-> <<"reachable", "volumeNumber">>,
     entityOf |-> [a \in {"volume", "isReachable"} |->
                      IF a = "isReachable" THEN "reachable" ELSE "volumeNumber"],
     snapshots |-> {}]

MCKinds == {Light, Speaker}
MCValues == {low, high}
=============================================================================
