------------------------- MODULE Orchestrator_proofs -------------------------
(***************************************************************************)
(* IInv is an invariant of the bridge, for every set of devices, every     *)
(* choice of faults and any number of them; the safety properties and the  *)
(* implementation of BridgeContract follow.                                *)
(***************************************************************************)
EXTENDS Orchestrator, TLAPS, SequenceTheorems

-----------------------------------------------------------------------------
(* Lemmas about the pieces of a step *)

LEMMA DisturbType == ASSUME TypeOK, Disturb PROVE disturbances' \in
     0..MaxDisturbances
  BY OrchestratorAssumption DEF TypeOK, Disturb

LEMMA TransitionType ==
  ASSUME NEW s \in LifecycleStates, NEW to \in LifecycleStates
  PROVE TransitionIfValid(s, to) \in LifecycleStates
  BY DEF TransitionIfValid

LEMMA SendType ==
  ASSUME TypeOK, NEW d \in Devices,
         NEW k \in {"reachable", "unreachable", "added", "removed"}, Send(k, d)
  PROVE wire' \in Seq(Message)
<1>1. [kind |-> k, dev |-> d] \in Message BY DEF Message
<1>2. wire \in Seq(Message) BY DEF TypeOK
<1> QED BY <1>1, <1>2, AppendProperties DEF Send

LEMMA SendHead ==
  ASSUME TypeOK, NEW d \in Devices,
         NEW k \in {"reachable", "unreachable", "added", "removed"}, Send(k, d),
         wire # <<>>
  PROVE wire' # <<>> /\ Head(wire') = Head(wire)
<1>1. [kind |-> k, dev |-> d] \in Message BY DEF Message
<1>2. wire \in Seq(Message) BY DEF TypeOK
<1> QED BY <1>1, <1>2, AppendProperties, HeadTailAppend DEF Send

LEMMA TailType == ASSUME TypeOK, wire # <<>>
                  PROVE Tail(wire) \in Seq(Message) /\ Head(wire) \in Message
<1>1. wire \in Seq(Message) BY DEF TypeOK
<1> QED BY <1>1

LEMMA BeginShutdownType ==
  ASSUME TypeOK, NEW from \in LifecycleStates, BeginShutdown(from)
  PROVE /\ state' \in LifecycleStates
        /\ pc' \in [Tasks -> MainPc \union WsPc]
        /\ pc'["main"] \in MainPc /\ pc'["ws"] \in WsPc
        /\ todo' \in [Tasks -> SUBSET Devices]
        /\ stopEvent' \in BOOLEAN
<1>1. state' \in LifecycleStates
  BY TransitionType DEF BeginShutdown, MarkAllOffline, LifecycleStates
<1>2. todo' \in [Tasks -> SUBSET Devices]
  BY DEF BeginShutdown, MarkAllOffline, TypeOK
<1>3. /\ pc' \in [Tasks -> MainPc \union WsPc]
      /\ pc'["main"] \in MainPc /\ pc'["ws"] \in WsPc
      /\ stopEvent' \in BOOLEAN
  BY DEF BeginShutdown, MarkAllOffline, CallStopWs, Goto, TypeOK, Tasks,
       MainPc, WsPc
<1> QED BY <1>1, <1>2, <1>3

LEMMA DisconnectedType ==
  ASSUME TypeOK, Disconnected
  PROVE /\ state' \in LifecycleStates
        /\ pc' \in [Tasks -> MainPc \union WsPc]
        /\ pc'["main"] \in MainPc /\ pc'["ws"] \in WsPc
        /\ todo' \in [Tasks -> SUBSET Devices]
        /\ link' \in BOOLEAN /\ wire' \in Seq(Message)
<1>1. state' \in LifecycleStates
  BY TransitionType DEF Disconnected, LifecycleStates, TypeOK
<1>2. todo' \in [Tasks -> SUBSET Devices]
  BY DEF Disconnected, TypeOK
<1>3. /\ pc' \in [Tasks -> MainPc \union WsPc]
      /\ pc'["main"] \in MainPc /\ pc'["ws"] \in WsPc
  BY DEF Disconnected, AfterOutage, Goto, TypeOK, Tasks, MainPc, WsPc
<1>4. link' = FALSE /\ wire' = <<>>
  BY DEF Disconnected
<1>5. <<>> \in Seq(Message)
  OBVIOUS
<1> QED BY <1>1, <1>2, <1>3, <1>4, <1>5


-----------------------------------------------------------------------------
(* Every step preserves each part of the invariant *)

LEMMA TypeStep == ASSUME IInv, [Next]_vars PROVE TypeOK'
<1> USE DEF IInv, TypeOK, InFlight, client, book, loop, ha, hub, Tasks,
     MainPc, WsPc
<1>1. ASSUME Startup PROVE TypeOK'
  BY <1>1 DEF LifecycleStates, Startup, Goto
<1>2. ASSUME MqttConnected PROVE TypeOK'
  BY <1>2 DEF MqttConnected, CallConnectWs
<1>3. ASSUME MqttConnectFails PROVE TypeOK'
  BY <1>3 DEF MqttConnectFails, Goto
<1>4. ASSUME MqttRetry PROVE TypeOK'
  BY <1>4 DEF MqttRetry, CallConnectWs, Goto
<1>5. ASSUME NEW t \in Tasks, Fetched(t) PROVE TypeOK'
  BY <1>5, TransitionType DEF LifecycleStates, Fetched, EndDiscovery,
       NextDevice, Goto
<1>6. ASSUME NEW t \in Tasks, FetchFails(t) PROVE TypeOK'
  BY <1>6, TransitionType, BeginShutdownType, DisturbType DEF LifecycleStates,
       FetchFails, Goto
<1>7. ASSUME NEW t \in Tasks, Registered(t) PROVE TypeOK'
  BY <1>7 DEF Registered, Goto
<1>8. ASSUME NEW t \in Tasks, RegisterFails(t) PROVE TypeOK'
  BY <1>8, DisturbType DEF RegisterFails, NextDevice, Goto
<1>9. ASSUME NEW t \in Tasks, InitialAvailability(t) PROVE TypeOK'
  BY <1>9, DisturbType DEF InitialAvailability, Availability, NextDevice, Goto
<1>10. ASSUME NEW t \in Tasks, InitialStatePublished(t) PROVE TypeOK'
  BY <1>10, TransitionType DEF LifecycleStates, InitialStatePublished,
       EndDiscovery, Goto
<1>11. ASSUME Poll PROVE TypeOK'
  BY <1>11, BeginShutdownType DEF Poll
<1>30. ASSUME MetricsEnded PROVE TypeOK'
  BY <1>30 DEF MetricsEnded, MarkAllOffline, CallStopWs, Goto
<1>12. ASSUME SocketClosed PROVE TypeOK'
  BY <1>12 DEF SocketClosed
<1>13. ASSUME WsStopped PROVE TypeOK'
  BY <1>13 DEF WsStopped
<1>14. ASSUME HaStopped PROVE TypeOK'
  BY <1>14, TransitionType DEF LifecycleStates, HaStopped, Goto
<1>15. ASSUME NEW t \in Tasks, NEW d \in Devices, Darken(t, d) PROVE TypeOK'
  BY <1>15, DisturbType, ZenonT(40) DEF Darken, Availability, CallStopWs, AfterOutage, Goto
<1>16. ASSUME WsAttempt PROVE TypeOK'
  BY <1>16 DEF WsAttempt, Goto
<1>17. ASSUME WsOpened PROVE TypeOK'
  BY <1>17 DEF LifecycleStates, WsOpened, Goto
<1>18. ASSUME WsOpenFails PROVE TypeOK'
  BY <1>18, DisconnectedType DEF WsOpenFails
<1>19. ASSUME WsListenEnds PROVE TypeOK'
  BY <1>19, DisconnectedType DEF WsListenEnds
<1>20. ASSUME WsMessage PROVE TypeOK'
  BY <1>20, TailType, ZenonT(40) DEF WsMessage, ToMark, Goto
<1>21. ASSUME WsMarked PROVE TypeOK'
  BY <1>21, DisturbType, TailType DEF WsMarked, Availability, Goto
<1>22. ASSUME Stop PROVE TypeOK'
  BY <1>22 DEF LifecycleStates, Stop
<1>23. ASSUME Cancel PROVE TypeOK'
  BY <1>23, BeginShutdownType DEF Cancel
<1>24. ASSUME NEW d \in Devices, HubReachability(d) PROVE TypeOK'
  BY <1>24, DisturbType, SendType DEF HubReachability
<1>25. ASSUME NEW d \in Devices, HubPairs(d) PROVE TypeOK'
  BY <1>25, DisturbType, SendType DEF HubPairs
<1>26. ASSUME NEW d \in Devices, HubUnpairs(d) PROVE TypeOK'
  BY <1>26, DisturbType, SendType DEF HubUnpairs
<1>27. ASSUME HubDrops PROVE TypeOK'
  BY <1>27, DisturbType, ZenonT(40) DEF HubDrops
<1>28. ASSUME Terminated PROVE TypeOK'
  BY <1>28 DEF Terminated, vars
<1>29. CASE UNCHANGED vars
  BY <1>29 DEF vars
<1> QED
  BY <1>1, <1>2, <1>3, <1>4, <1>5, <1>6, <1>7, <1>8, <1>9, <1>10, <1>11,
       <1>12, <1>13, <1>14, <1>15, <1>16, <1>17, <1>18, <1>19, <1>20, <1>21,
       <1>22, <1>23, <1>24, <1>25, <1>26, <1>27, <1>28, <1>29,
       <1>30 DEF Next, Main,
       Ws, Environment, Discovery, Tasks

LEMMA OwnershipStep == ASSUME IInv, [Next]_vars PROVE Ownership'
<1>0. pc \in [Tasks -> MainPc \union WsPc] /\ state \in LifecycleStates /\
     "main" \in Tasks /\ "ws" \in Tasks
  BY DEF IInv, TypeOK, Tasks
<1>a. Ownership /\ OutageExclusive /\ ShutdownComplete BY DEF IInv
<1> USE <1>0, <1>a DEF Ownership, OutageExclusive, ShutdownComplete, client,
     book, loop, ha, hub, Tasks, IsActive, Discovering, Connected
<1>1. ASSUME Startup PROVE Ownership'
  BY <1>1 DEF Startup, Goto
<1>2. ASSUME MqttConnected PROVE Ownership'
  BY <1>2 DEF MqttConnected, CallConnectWs
<1>3. ASSUME MqttConnectFails PROVE Ownership'
  BY <1>3 DEF MqttConnectFails, Goto
<1>4. ASSUME MqttRetry PROVE Ownership'
  BY <1>4 DEF MqttRetry, CallConnectWs, Goto
<1>5. ASSUME NEW t \in Tasks, Fetched(t) PROVE Ownership'
  BY <1>5 DEF TransitionIfValid, CanTransition, ValidTransitions,
       LifecycleStates, Fetched, EndDiscovery, NextDevice, Goto
<1>6. ASSUME NEW t \in Tasks, FetchFails(t) PROVE Ownership'
  BY <1>6 DEF TransitionIfValid, CanTransition, ValidTransitions,
       LifecycleStates, FetchFails, BeginShutdown, MarkAllOffline, CallStopWs,
       Goto
<1>7. ASSUME NEW t \in Tasks, Registered(t) PROVE Ownership'
  BY <1>7 DEF Registered, Goto
<1>8. ASSUME NEW t \in Tasks, RegisterFails(t) PROVE Ownership'
  BY <1>8 DEF RegisterFails, NextDevice, Goto, Disturb
<1>9. ASSUME NEW t \in Tasks, InitialAvailability(t) PROVE Ownership'
  BY <1>9 DEF InitialAvailability, Availability, NextDevice, Goto, Disturb
<1>10. ASSUME NEW t \in Tasks, InitialStatePublished(t) PROVE Ownership'
  BY <1>10 DEF TransitionIfValid, CanTransition, ValidTransitions,
       LifecycleStates, InitialStatePublished, EndDiscovery, Goto
<1>11. ASSUME Poll PROVE Ownership'
  BY <1>11 DEF TransitionIfValid, CanTransition, ValidTransitions,
       LifecycleStates, Poll, BeginShutdown, MarkAllOffline, CallStopWs, Goto
<1>30. ASSUME MetricsEnded PROVE Ownership'
  BY <1>30 DEF MetricsEnded, MarkAllOffline, CallStopWs, Goto
<1>12. ASSUME SocketClosed PROVE Ownership'
  BY <1>12 DEF SocketClosed
<1>13. ASSUME WsStopped PROVE Ownership'
  BY <1>13 DEF WsStopped
<1>14. ASSUME HaStopped PROVE Ownership'
  BY <1>14 DEF TransitionIfValid, CanTransition, ValidTransitions,
       LifecycleStates, HaStopped, Goto
<1>15. ASSUME NEW t \in Tasks, NEW d \in Devices, Darken(t, d) PROVE Ownership'
  BY <1>15 DEF Darken, Availability, CallStopWs, AfterOutage, Goto, Disturb
<1>16. ASSUME WsAttempt PROVE Ownership'
  BY <1>16 DEF WsAttempt, Goto
<1>17. ASSUME WsOpened PROVE Ownership'
  BY <1>17 DEF WsOpened, Goto
<1>18. ASSUME WsOpenFails PROVE Ownership'
  BY <1>18 DEF TransitionIfValid, CanTransition, ValidTransitions,
       LifecycleStates, WsOpenFails, Disconnected, AfterOutage, Goto
<1>19. ASSUME WsListenEnds PROVE Ownership'
  BY <1>19 DEF TransitionIfValid, CanTransition, ValidTransitions,
       LifecycleStates, WsListenEnds, Disconnected, AfterOutage, Goto
<1>20. ASSUME WsMessage PROVE Ownership'
  BY <1>20 DEF WsMessage, ToMark, Goto
<1>21. ASSUME WsMarked PROVE Ownership'
  BY <1>21 DEF WsMarked, Availability, Goto, Disturb
<1>22. ASSUME Stop PROVE Ownership'
  BY <1>22 DEF TransitionIfValid, CanTransition, ValidTransitions,
       LifecycleStates, Stop
<1>23. ASSUME Cancel PROVE Ownership'
  BY <1>23 DEF TransitionIfValid, CanTransition, ValidTransitions,
       LifecycleStates, Cancel, BeginShutdown, MarkAllOffline, CallStopWs, Goto
<1>24. ASSUME NEW d \in Devices, HubReachability(d) PROVE Ownership'
  BY <1>24 DEF HubReachability, Send, Disturb
<1>25. ASSUME NEW d \in Devices, HubPairs(d) PROVE Ownership'
  BY <1>25 DEF HubPairs, Send, Disturb
<1>26. ASSUME NEW d \in Devices, HubUnpairs(d) PROVE Ownership'
  BY <1>26 DEF HubUnpairs, Send, Disturb
<1>27. ASSUME HubDrops PROVE Ownership'
  BY <1>27 DEF HubDrops, Disturb
<1>28. ASSUME Terminated PROVE Ownership'
  BY <1>28 DEF Terminated, vars
<1>29. CASE UNCHANGED vars
  BY <1>29 DEF vars
<1> QED
  BY <1>1, <1>2, <1>3, <1>4, <1>5, <1>6, <1>7, <1>8, <1>9, <1>10, <1>11,
       <1>12, <1>13, <1>14, <1>15, <1>16, <1>17, <1>18, <1>19, <1>20, <1>21,
       <1>22, <1>23, <1>24, <1>25, <1>26, <1>27, <1>28, <1>29,
       <1>30 DEF Next, Main,
       Ws, Environment, Discovery, Tasks

LEMMA OutageStep == ASSUME IInv, [Next]_vars PROVE OutageExclusive'
<1>0. /\ pc \in [Tasks -> MainPc \union WsPc] /\ state \in LifecycleStates
      /\ "main" \in Tasks /\ "ws" \in Tasks
  BY DEF IInv, TypeOK, Tasks
<1>a. Ownership /\ OutageExclusive BY DEF IInv
<1> USE <1>0, <1>a DEF Ownership, OutageExclusive, client, book, loop, ha,
     hub, Tasks, IsActive, Discovering, Connected
<1>1. ASSUME Startup PROVE OutageExclusive'
  BY <1>1 DEF Startup, Goto
<1>2. ASSUME MqttConnected PROVE OutageExclusive'
  BY <1>2 DEF MqttConnected, CallConnectWs
<1>3. ASSUME MqttConnectFails PROVE OutageExclusive'
  BY <1>3 DEF MqttConnectFails, Goto
<1>4. ASSUME MqttRetry PROVE OutageExclusive'
  BY <1>4 DEF MqttRetry, CallConnectWs, Goto
<1>5. ASSUME NEW t \in Tasks, Fetched(t) PROVE OutageExclusive'
  BY <1>5 DEF TransitionIfValid, CanTransition, ValidTransitions,
       LifecycleStates, Fetched, EndDiscovery, NextDevice, Goto
<1>6. ASSUME NEW t \in Tasks, FetchFails(t) PROVE OutageExclusive'
  BY <1>6 DEF TransitionIfValid, CanTransition, ValidTransitions,
       LifecycleStates, FetchFails, BeginShutdown, MarkAllOffline, CallStopWs,
       Goto
<1>7. ASSUME NEW t \in Tasks, Registered(t) PROVE OutageExclusive'
  BY <1>7 DEF Registered, Goto
<1>8. ASSUME NEW t \in Tasks, RegisterFails(t) PROVE OutageExclusive'
  BY <1>8 DEF RegisterFails, NextDevice, Goto, Disturb
<1>9. ASSUME NEW t \in Tasks, InitialAvailability(t) PROVE OutageExclusive'
  BY <1>9 DEF InitialAvailability, Availability, NextDevice, Goto, Disturb
<1>10. ASSUME NEW t \in Tasks, InitialStatePublished(t) PROVE OutageExclusive'
  BY <1>10 DEF TransitionIfValid, CanTransition, ValidTransitions,
       LifecycleStates, InitialStatePublished, EndDiscovery, Goto
<1>11. ASSUME Poll PROVE OutageExclusive'
  BY <1>11 DEF TransitionIfValid, CanTransition, ValidTransitions,
       LifecycleStates, Poll, BeginShutdown, MarkAllOffline, CallStopWs, Goto
<1>30. ASSUME MetricsEnded PROVE OutageExclusive'
  BY <1>30 DEF MetricsEnded, MarkAllOffline, CallStopWs, Goto
<1>12. ASSUME SocketClosed PROVE OutageExclusive'
  BY <1>12 DEF SocketClosed
<1>13. ASSUME WsStopped PROVE OutageExclusive'
  BY <1>13 DEF WsStopped
<1>14. ASSUME HaStopped PROVE OutageExclusive'
  BY <1>14 DEF TransitionIfValid, CanTransition, ValidTransitions,
       LifecycleStates, HaStopped, Goto
<1>15. ASSUME NEW t \in Tasks, NEW d \in Devices, Darken(t, d)
       PROVE OutageExclusive'
  BY <1>15 DEF Darken, Availability, CallStopWs, AfterOutage, Goto, Disturb
<1>16. ASSUME WsAttempt PROVE OutageExclusive'
  BY <1>16 DEF IsStopping, WsAttempt, Goto
<1>17. ASSUME WsOpened PROVE OutageExclusive'
  BY <1>17 DEF WsOpened, Goto
<1>18. ASSUME WsOpenFails PROVE OutageExclusive'
  BY <1>18 DEF TransitionIfValid, CanTransition, ValidTransitions,
       LifecycleStates, WsOpenFails, Disconnected, AfterOutage, Goto
<1>19. ASSUME WsListenEnds PROVE OutageExclusive'
  BY <1>19 DEF TransitionIfValid, CanTransition, ValidTransitions,
       LifecycleStates, WsListenEnds, Disconnected, AfterOutage, Goto
<1>20. ASSUME WsMessage PROVE OutageExclusive'
  BY <1>20 DEF WsMessage, ToMark, Goto
<1>21. ASSUME WsMarked PROVE OutageExclusive'
  BY <1>21 DEF WsMarked, Availability, Goto, Disturb
<1>22. ASSUME Stop PROVE OutageExclusive'
  BY <1>22 DEF TransitionIfValid, CanTransition, ValidTransitions,
       LifecycleStates, Stop
<1>23. ASSUME Cancel PROVE OutageExclusive'
  BY <1>23 DEF TransitionIfValid, CanTransition, ValidTransitions,
       LifecycleStates, Cancel, BeginShutdown, MarkAllOffline, CallStopWs, Goto
<1>24. ASSUME NEW d \in Devices, HubReachability(d) PROVE OutageExclusive'
  BY <1>24 DEF HubReachability, Send, Disturb
<1>25. ASSUME NEW d \in Devices, HubPairs(d) PROVE OutageExclusive'
  BY <1>25 DEF HubPairs, Send, Disturb
<1>26. ASSUME NEW d \in Devices, HubUnpairs(d) PROVE OutageExclusive'
  BY <1>26 DEF HubUnpairs, Send, Disturb
<1>27. ASSUME HubDrops PROVE OutageExclusive'
  BY <1>27 DEF HubDrops, Disturb
<1>28. ASSUME Terminated PROVE OutageExclusive'
  BY <1>28 DEF Terminated, vars
<1>29. CASE UNCHANGED vars
  BY <1>29 DEF vars
<1> QED
  BY <1>1, <1>2, <1>3, <1>4, <1>5, <1>6, <1>7, <1>8, <1>9, <1>10, <1>11,
       <1>12, <1>13, <1>14, <1>15, <1>16, <1>17, <1>18, <1>19, <1>20, <1>21,
       <1>22, <1>23, <1>24, <1>25, <1>26, <1>27, <1>28, <1>29,
       <1>30 DEF Next, Main,
       Ws, Environment, Discovery, Tasks

LEMMA ShutdownStep == ASSUME IInv, [Next]_vars PROVE ShutdownComplete'
<1>0. /\ pc \in [Tasks -> MainPc \union WsPc] /\ state \in LifecycleStates
      /\ "main" \in Tasks /\ "ws" \in Tasks
  BY DEF IInv, TypeOK, Tasks
<1>a. Ownership /\ ShutdownComplete BY DEF IInv
<1> USE <1>0, <1>a DEF Ownership, ShutdownComplete, client, book, loop, ha,
     hub, Tasks, IsActive, Discovering, Connected
<1>1. ASSUME Startup PROVE ShutdownComplete'
  BY <1>1 DEF Startup, Goto
<1>2. ASSUME MqttConnected PROVE ShutdownComplete'
  BY <1>2 DEF MqttConnected, CallConnectWs
<1>3. ASSUME MqttConnectFails PROVE ShutdownComplete'
  BY <1>3 DEF MqttConnectFails, Goto
<1>4. ASSUME MqttRetry PROVE ShutdownComplete'
  BY <1>4 DEF MqttRetry, CallConnectWs, Goto
<1>5. ASSUME NEW t \in Tasks, Fetched(t) PROVE ShutdownComplete'
  BY <1>5 DEF TransitionIfValid, CanTransition, ValidTransitions,
       LifecycleStates, Fetched, EndDiscovery, NextDevice, Goto
<1>6. ASSUME NEW t \in Tasks, FetchFails(t) PROVE ShutdownComplete'
  BY <1>6 DEF TransitionIfValid, CanTransition, ValidTransitions,
       LifecycleStates, FetchFails, BeginShutdown, MarkAllOffline, CallStopWs,
       Goto
<1>7. ASSUME NEW t \in Tasks, Registered(t) PROVE ShutdownComplete'
  BY <1>7 DEF Registered, Goto
<1>8. ASSUME NEW t \in Tasks, RegisterFails(t) PROVE ShutdownComplete'
  BY <1>8 DEF RegisterFails, NextDevice, Goto, Disturb
<1>9. ASSUME NEW t \in Tasks, InitialAvailability(t) PROVE ShutdownComplete'
  BY <1>9 DEF InitialAvailability, Availability, NextDevice, Goto, Disturb
<1>10. ASSUME NEW t \in Tasks, InitialStatePublished(t) PROVE ShutdownComplete'
  BY <1>10 DEF TransitionIfValid, CanTransition, ValidTransitions,
       LifecycleStates, InitialStatePublished, EndDiscovery, Goto
<1>11. ASSUME Poll PROVE ShutdownComplete'
  BY <1>11 DEF TransitionIfValid, CanTransition, ValidTransitions,
       LifecycleStates, Poll, BeginShutdown, MarkAllOffline, CallStopWs, Goto
<1>30. ASSUME MetricsEnded PROVE ShutdownComplete'
  BY <1>30 DEF MetricsEnded, MarkAllOffline, CallStopWs, Goto
<1>12. ASSUME SocketClosed PROVE ShutdownComplete'
  BY <1>12 DEF SocketClosed
<1>13. ASSUME WsStopped PROVE ShutdownComplete'
  BY <1>13 DEF WsStopped
<1>14. ASSUME HaStopped PROVE ShutdownComplete'
  BY <1>14 DEF TransitionIfValid, CanTransition, ValidTransitions,
       LifecycleStates, HaStopped, Goto
<1>15. ASSUME NEW t \in Tasks, NEW d \in Devices, Darken(t, d)
       PROVE ShutdownComplete'
  BY <1>15 DEF Darken, Availability, CallStopWs, AfterOutage, Goto, Disturb
<1>16. ASSUME WsAttempt PROVE ShutdownComplete'
  BY <1>16 DEF WsAttempt, Goto
<1>17. ASSUME WsOpened PROVE ShutdownComplete'
  BY <1>17 DEF WsOpened, Goto
<1>18. ASSUME WsOpenFails PROVE ShutdownComplete'
  BY <1>18 DEF TransitionIfValid, CanTransition, ValidTransitions,
       LifecycleStates, WsOpenFails, Disconnected, AfterOutage, Goto
<1>19. ASSUME WsListenEnds PROVE ShutdownComplete'
  BY <1>19 DEF TransitionIfValid, CanTransition, ValidTransitions,
       LifecycleStates, WsListenEnds, Disconnected, AfterOutage, Goto
<1>20. ASSUME WsMessage PROVE ShutdownComplete'
  BY <1>20 DEF WsMessage, ToMark, Goto
<1>21. ASSUME WsMarked PROVE ShutdownComplete'
  BY <1>21 DEF WsMarked, Availability, Goto, Disturb
<1>22. ASSUME Stop PROVE ShutdownComplete'
  BY <1>22 DEF TransitionIfValid, CanTransition, ValidTransitions,
       LifecycleStates, Stop
<1>23. ASSUME Cancel PROVE ShutdownComplete'
  BY <1>23 DEF TransitionIfValid, CanTransition, ValidTransitions,
       LifecycleStates, Cancel, BeginShutdown, MarkAllOffline, CallStopWs, Goto
<1>24. ASSUME NEW d \in Devices, HubReachability(d) PROVE ShutdownComplete'
  BY <1>24 DEF HubReachability, Send, Disturb
<1>25. ASSUME NEW d \in Devices, HubPairs(d) PROVE ShutdownComplete'
  BY <1>25 DEF HubPairs, Send, Disturb
<1>26. ASSUME NEW d \in Devices, HubUnpairs(d) PROVE ShutdownComplete'
  BY <1>26 DEF HubUnpairs, Send, Disturb
<1>27. ASSUME HubDrops PROVE ShutdownComplete'
  BY <1>27 DEF HubDrops, Disturb
<1>28. ASSUME Terminated PROVE ShutdownComplete'
  BY <1>28 DEF Terminated, vars
<1>29. CASE UNCHANGED vars
  BY <1>29 DEF vars
<1> QED
  BY <1>1, <1>2, <1>3, <1>4, <1>5, <1>6, <1>7, <1>8, <1>9, <1>10, <1>11,
       <1>12, <1>13, <1>14, <1>15, <1>16, <1>17, <1>18, <1>19, <1>20, <1>21,
       <1>22, <1>23, <1>24, <1>25, <1>26, <1>27, <1>28, <1>29,
       <1>30 DEF Next, Main,
       Ws, Environment, Discovery, Tasks

LEMMA InFlightStep == ASSUME IInv, [Next]_vars PROVE InFlight'
<1>0. /\ pc \in [Tasks -> MainPc \union WsPc] /\ state \in LifecycleStates
      /\ "main" \in Tasks /\ "ws" \in Tasks
  BY DEF IInv, TypeOK, Tasks
<1>a. TypeOK /\ InFlight BY DEF IInv
<1> USE <1>0, <1>a DEF InFlight, TypeOK, client, book, loop, ha, hub, Tasks
<1>1. ASSUME Startup PROVE InFlight'
  BY <1>1 DEF Startup, Goto
<1>2. ASSUME MqttConnected PROVE InFlight'
  BY <1>2 DEF MqttConnected, CallConnectWs
<1>3. ASSUME MqttConnectFails PROVE InFlight'
  BY <1>3 DEF MqttConnectFails, Goto
<1>4. ASSUME MqttRetry PROVE InFlight'
  BY <1>4 DEF MqttRetry, CallConnectWs, Goto
<1>5. ASSUME NEW t \in Tasks, Fetched(t) PROVE InFlight'
  BY <1>5 DEF Fetched, EndDiscovery, NextDevice, Goto
<1>6. ASSUME NEW t \in Tasks, FetchFails(t) PROVE InFlight'
  BY <1>6 DEF FetchFails, BeginShutdown, MarkAllOffline, CallStopWs, Goto
<1>7. ASSUME NEW t \in Tasks, Registered(t) PROVE InFlight'
  BY <1>7 DEF Registered, Goto
<1>8. ASSUME NEW t \in Tasks, RegisterFails(t) PROVE InFlight'
  BY <1>8 DEF RegisterFails, NextDevice, Goto, Disturb
<1>9. ASSUME NEW t \in Tasks, InitialAvailability(t) PROVE InFlight'
  BY <1>9 DEF InitialAvailability, Availability, NextDevice, Goto, Disturb
<1>10. ASSUME NEW t \in Tasks, InitialStatePublished(t) PROVE InFlight'
  BY <1>10 DEF InitialStatePublished, EndDiscovery, Goto
<1>11. ASSUME Poll PROVE InFlight'
  BY <1>11 DEF Poll, BeginShutdown, MarkAllOffline, CallStopWs, Goto
<1>30. ASSUME MetricsEnded PROVE InFlight'
  BY <1>30 DEF MetricsEnded, MarkAllOffline, CallStopWs, Goto
<1>12. ASSUME SocketClosed PROVE InFlight'
  BY <1>12 DEF SocketClosed
<1>13. ASSUME WsStopped PROVE InFlight'
  BY <1>13 DEF WsStopped
<1>14. ASSUME HaStopped PROVE InFlight'
  BY <1>14 DEF HaStopped, Goto
<1>15. ASSUME NEW t \in Tasks, NEW d \in Devices, Darken(t, d) PROVE InFlight'
  BY <1>15 DEF Darken, Availability, CallStopWs, AfterOutage, Goto, Disturb
<1>16. ASSUME WsAttempt PROVE InFlight'
  BY <1>16 DEF WsAttempt, Goto
<1>17. ASSUME WsOpened PROVE InFlight'
  BY <1>17 DEF WsOpened, Goto
<1>18. ASSUME WsOpenFails PROVE InFlight'
  BY <1>18 DEF WsOpenFails, Disconnected, AfterOutage, Goto
<1>19. ASSUME WsListenEnds PROVE InFlight'
  BY <1>19 DEF WsListenEnds, Disconnected, AfterOutage, Goto
<1>20. ASSUME WsMessage PROVE InFlight'
  BY <1>20 DEF WsMessage, ToMark, Goto
<1>21. ASSUME WsMarked PROVE InFlight'
  BY <1>21 DEF WsMarked, Availability, Goto, Disturb
<1>22. ASSUME Stop PROVE InFlight'
  BY <1>22 DEF Stop
<1>23. ASSUME Cancel PROVE InFlight'
  BY <1>23 DEF Cancel, BeginShutdown, MarkAllOffline, CallStopWs, Goto
<1>24. ASSUME NEW d \in Devices, HubReachability(d) PROVE InFlight'
  BY <1>24, SendHead DEF HubReachability, Disturb
<1>25. ASSUME NEW d \in Devices, HubPairs(d) PROVE InFlight'
  BY <1>25, SendHead DEF HubPairs, Disturb
<1>26. ASSUME NEW d \in Devices, HubUnpairs(d) PROVE InFlight'
  BY <1>26, SendHead DEF HubUnpairs, Disturb
<1>27. ASSUME HubDrops PROVE InFlight'
  BY <1>27 DEF HubDrops, Disturb
<1>28. ASSUME Terminated PROVE InFlight'
  BY <1>28 DEF Terminated, vars
<1>29. CASE UNCHANGED vars
  BY <1>29 DEF vars
<1> QED
  BY <1>1, <1>2, <1>3, <1>4, <1>5, <1>6, <1>7, <1>8, <1>9, <1>10, <1>11,
       <1>12, <1>13, <1>14, <1>15, <1>16, <1>17, <1>18, <1>19, <1>20, <1>21,
       <1>22, <1>23, <1>24, <1>25, <1>26, <1>27, <1>28, <1>29,
       <1>30 DEF Next, Main,
       Ws, Environment, Discovery, Tasks

LEMMA OnlineStep == ASSUME IInv, [Next]_vars PROVE OnlineAccounted'
<1>0. /\ pc \in [Tasks -> MainPc \union WsPc] /\ state \in LifecycleStates
      /\ "main" \in Tasks /\ "ws" \in Tasks
  BY DEF IInv, TypeOK, Tasks
<1>a. TypeOK /\ Ownership /\ InFlight /\ OnlineAccounted /\ OutageExclusive BY
     DEF IInv
<1> USE <1>0, <1>a DEF TypeOK, Ownership, InFlight, OutageExclusive,
     OnlineAccounted, Shown, client, book, loop, ha, hub, Tasks, IsActive
<1>1. ASSUME Startup PROVE OnlineAccounted'
  BY <1>1 DEF Startup, Goto
<1>2. ASSUME MqttConnected PROVE OnlineAccounted'
  BY <1>2 DEF MqttConnected, CallConnectWs
<1>3. ASSUME MqttConnectFails PROVE OnlineAccounted'
  BY <1>3 DEF MqttConnectFails, Goto
<1>4. ASSUME MqttRetry PROVE OnlineAccounted'
  BY <1>4 DEF MqttRetry, CallConnectWs, Goto
<1>5. ASSUME NEW t \in Tasks, Fetched(t) PROVE OnlineAccounted'
  BY <1>5 DEF TransitionIfValid, CanTransition, ValidTransitions,
       LifecycleStates, Fetched, EndDiscovery, NextDevice, Goto
<1>6. ASSUME NEW t \in Tasks, FetchFails(t) PROVE OnlineAccounted'
  BY <1>6 DEF TransitionIfValid, CanTransition, ValidTransitions,
       LifecycleStates, FetchFails, BeginShutdown, MarkAllOffline, CallStopWs,
       Goto
<1>7. ASSUME NEW t \in Tasks, Registered(t) PROVE OnlineAccounted'
  BY <1>7 DEF Registered, Goto
<1>8. ASSUME NEW t \in Tasks, RegisterFails(t) PROVE OnlineAccounted'
  BY <1>8 DEF RegisterFails, NextDevice, Goto, Disturb
<1>9. ASSUME NEW t \in Tasks, InitialAvailability(t) PROVE OnlineAccounted'
  BY <1>9 DEF InitialAvailability, Availability, NextDevice, Goto, Disturb
<1>10. ASSUME NEW t \in Tasks, InitialStatePublished(t) PROVE OnlineAccounted'
  BY <1>10 DEF TransitionIfValid, CanTransition, ValidTransitions,
       LifecycleStates, InitialStatePublished, EndDiscovery, Goto
<1>11. ASSUME Poll PROVE OnlineAccounted'
  BY <1>11 DEF TransitionIfValid, CanTransition, ValidTransitions,
       LifecycleStates, Poll, BeginShutdown, MarkAllOffline, CallStopWs, Goto
<1>30. ASSUME MetricsEnded PROVE OnlineAccounted'
  BY <1>30 DEF MetricsEnded, MarkAllOffline, CallStopWs, Goto
<1>12. ASSUME SocketClosed PROVE OnlineAccounted'
  BY <1>12 DEF SocketClosed
<1>13. ASSUME WsStopped PROVE OnlineAccounted'
  BY <1>13 DEF WsStopped
<1>14. ASSUME HaStopped PROVE OnlineAccounted'
  BY <1>14 DEF TransitionIfValid, CanTransition, ValidTransitions,
       LifecycleStates, HaStopped, Goto
<1>15. ASSUME NEW t \in Tasks, NEW d \in Devices, Darken(t, d)
       PROVE OnlineAccounted'
  BY <1>15 DEF Darken, Availability, CallStopWs, AfterOutage, Goto, Disturb
<1>16. ASSUME WsAttempt PROVE OnlineAccounted'
  BY <1>16 DEF WsAttempt, Goto
<1>17. ASSUME WsOpened PROVE OnlineAccounted'
  BY <1>17 DEF WsOpened, Goto
<1>18. ASSUME WsOpenFails PROVE OnlineAccounted'
  BY <1>18 DEF TransitionIfValid, CanTransition, ValidTransitions,
       LifecycleStates, WsOpenFails, Disconnected, AfterOutage, Goto
<1>19. ASSUME WsListenEnds PROVE OnlineAccounted'
  BY <1>19 DEF TransitionIfValid, CanTransition, ValidTransitions,
       LifecycleStates, WsListenEnds, Disconnected, AfterOutage, Goto
<1>20. ASSUME WsMessage PROVE OnlineAccounted'
  BY <1>20 DEF WsMessage, ToMark, Goto
<1>21. ASSUME WsMarked PROVE OnlineAccounted'
  BY <1>21 DEF WsMarked, Availability, Goto, Disturb
<1>22. ASSUME Stop PROVE OnlineAccounted'
  BY <1>22 DEF TransitionIfValid, CanTransition, ValidTransitions,
       LifecycleStates, Stop
<1>23. ASSUME Cancel PROVE OnlineAccounted'
  BY <1>23 DEF TransitionIfValid, CanTransition, ValidTransitions,
       LifecycleStates, Cancel, BeginShutdown, MarkAllOffline, CallStopWs, Goto
<1>24. ASSUME NEW d \in Devices, HubReachability(d) PROVE OnlineAccounted'
  BY <1>24 DEF HubReachability, Send, Disturb
<1>25. ASSUME NEW d \in Devices, HubPairs(d) PROVE OnlineAccounted'
  BY <1>25 DEF HubPairs, Send, Disturb
<1>26. ASSUME NEW d \in Devices, HubUnpairs(d) PROVE OnlineAccounted'
  BY <1>26 DEF HubUnpairs, Send, Disturb
<1>27. ASSUME HubDrops PROVE OnlineAccounted'
  BY <1>27 DEF HubDrops, Disturb
<1>28. ASSUME Terminated PROVE OnlineAccounted'
  BY <1>28 DEF Terminated, vars
<1>29. CASE UNCHANGED vars
  BY <1>29 DEF vars
<1> QED
  BY <1>1, <1>2, <1>3, <1>4, <1>5, <1>6, <1>7, <1>8, <1>9, <1>10, <1>11,
       <1>12, <1>13, <1>14, <1>15, <1>16, <1>17, <1>18, <1>19, <1>20, <1>21,
       <1>22, <1>23, <1>24, <1>25, <1>26, <1>27, <1>28, <1>29,
       <1>30 DEF Next, Main,
       Ws, Environment, Discovery, Tasks

-----------------------------------------------------------------------------
(* The theorems *)

\* IInv, and with it type correctness, holds in every state of the bridge: what
\* _shutdown(), the event handlers and the connection loop leave behind between
\* two awaits.
THEOREM Invariance == Spec => []IInv
<1>1. Init => IInv
  <2> SUFFICES ASSUME Init PROVE IInv OBVIOUS
  <2>1. TypeOK
    <3>1. disturbances \in 0..MaxDisturbances BY OrchestratorAssumption DEF Init
    <3>2. wire \in Seq(Message) BY DEF Init
    <3> QED BY <3>1, <3>2 DEF Init, TypeOK, Tasks, MainPc, WsPc, LifecycleStates
  <2>2. Ownership /\ InFlight /\ OutageExclusive /\ ShutdownComplete
    BY DEF Init, Ownership, InFlight, OutageExclusive, ShutdownComplete, Tasks,
           IsActive
  <2>3. OnlineAccounted
    BY DEF Init, OnlineAccounted, Shown
  <2> QED BY <2>1, <2>2, <2>3 DEF IInv
<1>2. IInv /\ [Next]_vars => IInv'
  <2> SUFFICES ASSUME IInv, [Next]_vars PROVE IInv' OBVIOUS
  <2> QED BY TypeStep, OwnershipStep, InFlightStep, OnlineStep, OutageStep,
             ShutdownStep DEF IInv
<1> QED BY <1>1, <1>2, PTL DEF Spec

\* Every variable keeps its type.
THEOREM TypeCorrect == Spec => []TypeOK
<1>1. IInv => TypeOK BY DEF IInv
<1> QED BY <1>1, Invariance, PTL

\* While the hub is out of reach no event handler or startup step runs, and once
\* the disconnect was handled no device is shown online
\* (_on_dirigera_disconnected(), set_all_offline()).
THEOREM OutageSafety == Spec => [](OutageExclusive /\ OutageAllOffline)
<1>1. IInv => OutageExclusive /\ OutageAllOffline
  BY DEF IInv, OnlineAccounted, OutageAllOffline
<1> QED BY <1>1, Invariance, PTL

\* An outage is over before another handler or a startup step runs
\* (_on_dirigera_disconnected(), _on_dirigera_connected()).
THEOREM OutageExclusion == Spec => []OutageExclusive
<1>1. IInv => OutageExclusive BY DEF IInv
<1> QED BY <1>1, Invariance, PTL

\* run() never returns before both connections and the connection loop are gone
\* (_shutdown()).
THEOREM ShutdownSafety == Spec => []ShutdownComplete
<1>1. IInv => ShutdownComplete BY DEF IInv
<1> QED BY <1>1, Invariance, PTL

-----------------------------------------------------------------------------
(* The bridge implements BridgeContract *)

ContractStep == [Contract!Next]_<<state, Shown>>

LEMMA MoveStep ==
  ASSUME state' = state \/ state' \in ValidTransitions[state],
         UNCHANGED <<avail, missed>>,
         (state = "RECONNECTING" /\ state' = "RUNNING") =>
             \A d \in Devices : Shown[d] # "online"
  PROVE ContractStep
<1>1. UNCHANGED Shown BY DEF Shown
<1> QED BY <1>1 DEF ContractStep, Contract!Next, Contract!Move, ValidTransitions,
     Contract!ValidTransitions, LifecycleStates, Contract!LifecycleStates

LEMMA ShowStep ==
  ASSUME UNCHANGED state, state \notin {"CREATED", "STOPPED"},
         NEW d \in Devices, NEW value \in {"unknown", "online", "offline"},
         value = "online" => state # "RECONNECTING",
         Shown' = [Shown EXCEPT ![d] = value]
  PROVE ContractStep
<1>1. Contract!Show(d, value) BY DEF Contract!Show
<1> QED BY <1>1 DEF ContractStep, Contract!Next

LEMMA AvailabilityShows ==
  ASSUME TypeOK, NEW d \in Devices, NEW value \in {"online", "offline"},
         Availability(d, value)
  PROVE \E shown \in {value, "unknown"} : Shown' = [Shown EXCEPT ![d] = shown]
<1>1. CASE avail' = [avail EXCEPT ![d] = value] /\ missed' = missed \ {d}
  <2>1. Shown' = [Shown EXCEPT ![d] = value]
    BY <1>1 DEF Shown, TypeOK
  <2> QED BY <2>1
<1>2. CASE UNCHANGED avail /\ missed' = missed \union {d}
  <2>1. Shown' = [Shown EXCEPT ![d] = "unknown"]
    BY <1>2 DEF Shown, TypeOK
  <2> QED BY <2>1
<1> QED BY <1>1, <1>2 DEF Availability

LEMMA RefinementStep == ASSUME IInv, [Next]_vars PROVE ContractStep
<1> USE DEF IInv
<1>0. TypeOK /\ Ownership /\ InFlight /\ OnlineAccounted /\ OutageExclusive
     OBVIOUS
<1> USE <1>0
<1>1. ASSUME Startup PROVE ContractStep
  <2>1. state' = state \/ state' \in ValidTransitions[state]
    BY <1>1 DEF IInv, TypeOK, Startup, TransitionIfValid, CanTransition,
         ValidTransitions, LifecycleStates, Ownership, OutageExclusive, Tasks,
         IsActive
  <2>2. UNCHANGED <<avail, missed>>
    BY <1>1 DEF Startup, ha, vars
  <2>3. (state = "RECONNECTING" /\ state' = "RUNNING") => \A d \in Devices :
       Shown[d] # "online"
    BY <1>1 DEF IInv, TypeOK, Startup, TransitionIfValid, CanTransition,
         ValidTransitions, LifecycleStates, Ownership, OutageExclusive, Tasks,
         IsActive
  <2> QED BY <2>1, <2>2, <2>3, MoveStep
<1>2. ASSUME MqttConnected PROVE ContractStep
  BY <1>2 DEF MqttConnected, ha, Shown, ContractStep
<1>3. ASSUME MqttConnectFails PROVE ContractStep
  BY <1>3 DEF MqttConnectFails, ha, Shown, ContractStep
<1>4. ASSUME MqttRetry PROVE ContractStep
  BY <1>4 DEF MqttRetry, ha, Shown, ContractStep
<1>5. ASSUME NEW t \in Tasks, Fetched(t) PROVE ContractStep
  <2>1. state' = state \/ state' \in ValidTransitions[state]
    BY <1>5 DEF IInv, TypeOK, Fetched, EndDiscovery, TransitionIfValid,
         CanTransition, ValidTransitions, LifecycleStates, Ownership,
         OutageExclusive, Tasks, Discovering, IsActive
  <2>2. UNCHANGED <<avail, missed>>
    BY <1>5 DEF Fetched, EndDiscovery, ha, vars
  <2>3. (state = "RECONNECTING" /\ state' = "RUNNING") => \A d \in Devices :
       Shown[d] # "online"
    BY <1>5 DEF IInv, TypeOK, Fetched, EndDiscovery, TransitionIfValid,
         CanTransition, ValidTransitions, LifecycleStates, Ownership,
         OutageExclusive, Tasks, Discovering, IsActive
  <2> QED BY <2>1, <2>2, <2>3, MoveStep
<1>6. ASSUME NEW t \in Tasks, FetchFails(t) PROVE ContractStep
  <2>1. state' = state \/ state' \in ValidTransitions[state]
    BY <1>6 DEF IInv, TypeOK, FetchFails, BeginShutdown, MarkAllOffline,
         TransitionIfValid,
         CanTransition, ValidTransitions, LifecycleStates
  <2>2. UNCHANGED <<avail, missed>>
    BY <1>6 DEF FetchFails, BeginShutdown, MarkAllOffline, ha, vars
  <2>3. (state = "RECONNECTING" /\ state' = "RUNNING") => \A d \in Devices :
       Shown[d] # "online"
    BY <1>6 DEF IInv, TypeOK, FetchFails, BeginShutdown, MarkAllOffline,
         TransitionIfValid,
         CanTransition, ValidTransitions, LifecycleStates
  <2> QED BY <2>1, <2>2, <2>3, MoveStep
<1>7. ASSUME NEW t \in Tasks, Registered(t) PROVE ContractStep
  BY <1>7 DEF Registered, ha, Shown, ContractStep
<1>8. ASSUME NEW t \in Tasks, RegisterFails(t) PROVE ContractStep
  <2>1. cur[t] \in Devices /\ state \notin {"CREATED", "STOPPED"}
    BY <1>8 DEF RegisterFails, IInv, InFlight, Ownership, Tasks
  <2>2. Shown' = [Shown EXCEPT ![cur[t]] = "unknown"] /\ UNCHANGED state
    BY <1>8, <2>1 DEF RegisterFails, Shown
  <2> QED BY <2>1, <2>2, ShowStep
<1>9. ASSUME NEW t \in Tasks, InitialAvailability(t) PROVE ContractStep
  <2> DEFINE value == IF cur[t] \in snap[t] THEN "online" ELSE "offline"
  <2>1. /\ cur[t] \in Devices
        /\ state \notin {"CREATED", "STOPPED"} /\ state # "RECONNECTING"
    BY <1>9 DEF InitialAvailability, IInv, TypeOK, InFlight, Ownership,
         OutageExclusive, Tasks
  <2>2. Availability(cur[t], value) /\ UNCHANGED state
    BY <1>9 DEF InitialAvailability
  <2>3. PICK shown \in {value, "unknown"} : Shown' = [Shown EXCEPT ![cur[t]] =
       shown]
    BY <2>1, <2>2, AvailabilityShows
  <2> QED BY <2>1, <2>2, <2>3, ShowStep
<1>10. ASSUME NEW t \in Tasks, InitialStatePublished(t) PROVE ContractStep
  <2>1. state' = state \/ state' \in ValidTransitions[state]
    BY <1>10 DEF IInv, TypeOK, InitialStatePublished, EndDiscovery,
         TransitionIfValid, CanTransition, ValidTransitions, LifecycleStates,
         Ownership, OutageExclusive, Tasks, Discovering, IsActive
  <2>2. UNCHANGED <<avail, missed>>
    BY <1>10 DEF InitialStatePublished, EndDiscovery, ha, vars
  <2>3. (state = "RECONNECTING" /\ state' = "RUNNING") => \A d \in Devices :
       Shown[d] # "online"
    BY <1>10 DEF IInv, TypeOK, InitialStatePublished, EndDiscovery,
         TransitionIfValid, CanTransition, ValidTransitions, LifecycleStates,
         Ownership, OutageExclusive, Tasks, Discovering, IsActive
  <2> QED BY <2>1, <2>2, <2>3, MoveStep
<1>11. ASSUME Poll PROVE ContractStep
  <2>1. state' = state \/ state' \in ValidTransitions[state]
    BY <1>11 DEF IInv, TypeOK, Poll, BeginShutdown, MarkAllOffline,
         TransitionIfValid,
         CanTransition, ValidTransitions, LifecycleStates
  <2>2. UNCHANGED <<avail, missed>>
    BY <1>11 DEF Poll, BeginShutdown, MarkAllOffline, ha, vars
  <2>3. (state = "RECONNECTING" /\ state' = "RUNNING") => \A d \in Devices :
       Shown[d] # "online"
    BY <1>11 DEF IInv, TypeOK, Poll, BeginShutdown, MarkAllOffline,
         TransitionIfValid,
         CanTransition, ValidTransitions, LifecycleStates
  <2> QED BY <2>1, <2>2, <2>3, MoveStep
<1>30. ASSUME MetricsEnded PROVE ContractStep
  BY <1>30 DEF MetricsEnded, ha, Shown, ContractStep
<1>12. ASSUME SocketClosed PROVE ContractStep
  BY <1>12 DEF SocketClosed, ha, Shown, ContractStep
<1>13. ASSUME WsStopped PROVE ContractStep
  BY <1>13 DEF WsStopped, ha, Shown, ContractStep
<1>14. ASSUME HaStopped PROVE ContractStep
  <2>1. state' = state \/ state' \in ValidTransitions[state]
    BY <1>14 DEF IInv, TypeOK, HaStopped, TransitionIfValid, CanTransition,
         ValidTransitions, LifecycleStates
  <2>2. UNCHANGED <<avail, missed>>
    BY <1>14 DEF HaStopped, ha, vars
  <2>3. (state = "RECONNECTING" /\ state' = "RUNNING") => \A d \in Devices :
       Shown[d] # "online"
    BY <1>14 DEF IInv, TypeOK, HaStopped, TransitionIfValid, CanTransition,
         ValidTransitions, LifecycleStates
  <2> QED BY <2>1, <2>2, <2>3, MoveStep
<1>15. ASSUME NEW t \in Tasks, NEW d \in Devices, Darken(t, d) PROVE ContractStep
  <2> DEFINE value == "offline"
  <2>1. /\ d \in Devices
        /\ state \notin {"CREATED", "STOPPED"}
    BY <1>15 DEF Darken, IInv, TypeOK, InFlight, Ownership, OutageExclusive,
         Tasks
  <2>2. Availability(d, value) /\ UNCHANGED state
    BY <1>15 DEF Darken
  <2>3. PICK shown \in {value, "unknown"} : Shown' = [Shown EXCEPT ![d] = shown]
    BY <2>1, <2>2, AvailabilityShows
  <2> QED BY <2>1, <2>2, <2>3, ShowStep
<1>16. ASSUME WsAttempt PROVE ContractStep
  BY <1>16 DEF WsAttempt, ha, Shown, ContractStep
<1>17. ASSUME WsOpened PROVE ContractStep
  <2>1. state' = state \/ state' \in ValidTransitions[state]
    BY <1>17 DEF IInv, TypeOK, WsOpened, TransitionIfValid, CanTransition,
         ValidTransitions, LifecycleStates, Ownership, OutageExclusive, Tasks,
         OnlineAccounted
  <2>2. UNCHANGED <<avail, missed>>
    BY <1>17 DEF WsOpened, ha, vars
  <2>3. (state = "RECONNECTING" /\ state' = "RUNNING") => \A d \in Devices :
       Shown[d] # "online"
    BY <1>17 DEF IInv, TypeOK, WsOpened, TransitionIfValid, CanTransition,
         ValidTransitions, LifecycleStates, Ownership, OutageExclusive, Tasks,
         OnlineAccounted
  <2> QED BY <2>1, <2>2, <2>3, MoveStep
<1>18. ASSUME WsOpenFails PROVE ContractStep
  <2>1. state' = state \/ state' \in ValidTransitions[state]
    BY <1>18 DEF IInv, TypeOK, WsOpenFails, Disconnected, TransitionIfValid,
         CanTransition, ValidTransitions, LifecycleStates
  <2>2. UNCHANGED <<avail, missed>>
    BY <1>18 DEF WsOpenFails, Disconnected, ha, vars
  <2>3. (state = "RECONNECTING" /\ state' = "RUNNING") => \A d \in Devices :
       Shown[d] # "online"
    BY <1>18 DEF IInv, TypeOK, WsOpenFails, Disconnected, TransitionIfValid,
         CanTransition, ValidTransitions, LifecycleStates
  <2> QED BY <2>1, <2>2, <2>3, MoveStep
<1>19. ASSUME WsListenEnds PROVE ContractStep
  <2>1. state' = state \/ state' \in ValidTransitions[state]
    BY <1>19 DEF IInv, TypeOK, WsListenEnds, Disconnected, TransitionIfValid,
         CanTransition, ValidTransitions, LifecycleStates
  <2>2. UNCHANGED <<avail, missed>>
    BY <1>19 DEF WsListenEnds, Disconnected, ha, vars
  <2>3. (state = "RECONNECTING" /\ state' = "RUNNING") => \A d \in Devices :
       Shown[d] # "online"
    BY <1>19 DEF IInv, TypeOK, WsListenEnds, Disconnected, TransitionIfValid,
         CanTransition, ValidTransitions, LifecycleStates
  <2> QED BY <2>1, <2>2, <2>3, MoveStep
<1>20. ASSUME WsMessage PROVE ContractStep
  BY <1>20 DEF WsMessage, ha, Shown, ContractStep
<1>21. ASSUME WsMarked PROVE ContractStep
  <2> DEFINE value == IF Head(wire).kind = "reachable" THEN "online" ELSE
       "offline"
  <2>1. /\ Head(wire).dev \in Devices
        /\ state \notin {"CREATED", "STOPPED"} /\ state # "RECONNECTING"
    BY <1>21 DEF WsMarked, IInv, TypeOK, InFlight, Ownership, OutageExclusive,
         Tasks
  <2>2. Availability(Head(wire).dev, value) /\ UNCHANGED state
    BY <1>21 DEF WsMarked
  <2>3. PICK shown \in {value, "unknown"} : Shown' = [Shown EXCEPT
       ![Head(wire).dev] = shown]
    BY <2>1, <2>2, AvailabilityShows
  <2> QED BY <2>1, <2>2, <2>3, ShowStep
<1>22. ASSUME Stop PROVE ContractStep
  <2>1. state' = state \/ state' \in ValidTransitions[state]
    BY <1>22 DEF IInv, TypeOK, Stop, TransitionIfValid, CanTransition,
         ValidTransitions, LifecycleStates
  <2>2. UNCHANGED <<avail, missed>>
    BY <1>22 DEF Stop, ha, vars
  <2>3. (state = "RECONNECTING" /\ state' = "RUNNING") => \A d \in Devices :
       Shown[d] # "online"
    BY <1>22 DEF IInv, TypeOK, Stop, TransitionIfValid, CanTransition,
         ValidTransitions, LifecycleStates
  <2> QED BY <2>1, <2>2, <2>3, MoveStep
<1>23. ASSUME Cancel PROVE ContractStep
  <2>1. state' = state \/ state' \in ValidTransitions[state]
    BY <1>23 DEF IInv, TypeOK, Cancel, BeginShutdown, MarkAllOffline,
         TransitionIfValid,
         CanTransition, ValidTransitions, LifecycleStates
  <2>2. UNCHANGED <<avail, missed>>
    BY <1>23 DEF Cancel, BeginShutdown, MarkAllOffline, ha, vars
  <2>3. (state = "RECONNECTING" /\ state' = "RUNNING") => \A d \in Devices :
       Shown[d] # "online"
    BY <1>23 DEF IInv, TypeOK, Cancel, BeginShutdown, MarkAllOffline,
         TransitionIfValid,
         CanTransition, ValidTransitions, LifecycleStates
  <2> QED BY <2>1, <2>2, <2>3, MoveStep
<1>24. ASSUME NEW d \in Devices, HubReachability(d) PROVE ContractStep
  BY <1>24 DEF HubReachability, ha, Shown, ContractStep
<1>25. ASSUME NEW d \in Devices, HubPairs(d) PROVE ContractStep
  BY <1>25 DEF HubPairs, ha, Shown, ContractStep
<1>26. ASSUME NEW d \in Devices, HubUnpairs(d) PROVE ContractStep
  BY <1>26 DEF HubUnpairs, ha, Shown, ContractStep
<1>27. ASSUME HubDrops PROVE ContractStep
  BY <1>27 DEF HubDrops, ha, Shown, ContractStep
<1>28. ASSUME Terminated PROVE ContractStep
  BY <1>28 DEF Terminated, vars, ha, Shown, ContractStep
<1>29. CASE UNCHANGED vars
  BY <1>29 DEF vars, ha, Shown, ContractStep
<1> QED
  BY <1>1, <1>2, <1>3, <1>4, <1>5, <1>6, <1>7, <1>8, <1>9, <1>10, <1>11,
       <1>12, <1>13, <1>14, <1>15, <1>16, <1>17, <1>18, <1>19, <1>20, <1>21,
       <1>22, <1>23, <1>24, <1>25, <1>26, <1>27, <1>28, <1>29,
       <1>30 DEF Next, Main,
       Ws, Environment, Discovery, Tasks

\* Every behaviour of the bridge is one of the contract: the lifecycle follows
\* its table, and no device comes online during an outage or before it ends.
THEOREM ContractImplemented == Spec => ImplementsContract
<1>1. Init => Contract!Init
  BY DEF Init, Contract!Init, Shown
<1>2. IInv /\ [Next]_vars => ContractStep
  BY RefinementStep
<1> QED
  BY <1>1, <1>2, Invariance, PTL
     DEF Spec, ImplementsContract, Contract!Spec, ContractStep

-----------------------------------------------------------------------------
(* The invariant behind CalmIsAccurate *)

\* What a step leaves alone.
LEMMA SettledKept ==
  ASSUME NEW t \in Tasks, NEW d, Settled(t, d),
         pc'[t] = pc[t], todo'[t] = todo[t], cur'[t] = cur[t],
         snap'[t] = snap[t],
         UNCHANGED <<entities, avail, missed, reach>>
  PROVE Settled(t, d)'
  BY DEF Settled, BeingTold, Told

\* A discovery tells the devices it fetched one after the other.
LEMMA FetchedSettles ==
  ASSUME IInv, NEW t \in Tasks, Fetched(t), NEW d \in paired
  PROVE Settled(t, d)' /\ BeingTold(t, d)'
<1>1. NextDevice(t, paired, entities, registered) /\ paired # {}
  BY DEF Fetched
<1>2. PICK e \in paired : /\ todo' = [todo EXCEPT ![t] = paired \ {e}]
                          /\ cur' = [cur EXCEPT ![t] = e]
                          /\ Goto(t, IF e \in registered THEN "setting"
                                 ELSE "registering")
  BY <1>1 DEF NextDevice
<1>3. pc'[t] \in {"registering", "setting"} BY <1>2 DEF Goto, IInv, TypeOK
<1>4. d \in todo'[t] \/ cur'[t] = d BY <1>2 DEF IInv, TypeOK
<1>5. snap'[t] = reach /\ reach' = reach BY DEF Fetched, hub, IInv, TypeOK
<1> QED BY <1>3, <1>4, <1>5 DEF Settled, BeingTold

LEMMA RegistrationSettles ==
  ASSUME IInv, NEW t \in Tasks, NEW d \in Devices,
         Registered(t) \/ RegisterFails(t) \/ InitialAvailability(t)
  PROVE /\ Settled(t, d) => Settled(t, d)'
        /\ (d \in entities \/ d \in missed \/ BeingTold(t, d)) => 
                 (d \in entities \/ d \in missed \/ BeingTold(t, d))'
<1> USE DEF IInv, TypeOK, InFlight, Settled, BeingTold, Told, NextDevice, Goto
<1>1. CASE Registered(t) BY <1>1 DEF Registered, book, loop, ha, hub
<1>2. CASE RegisterFails(t) BY <1>2 DEF RegisterFails, hub
<1>3. CASE InitialAvailability(t) BY <1>3 DEF InitialAvailability, Availability,
       hub
<1> QED BY <1>1, <1>2, <1>3

LEMMA PublishedSettles ==
  ASSUME IInv, NEW t \in Tasks, InitialStatePublished(t), NEW d,
         Settled(t, d)
  PROVE Told(d)'
  BY DEF InitialStatePublished, Settled, BeingTold, Told, book, loop, ha, hub

LEMMA QuietStep ==
  ASSUME IInv, CalmInv, Faults \cap Unrepaired = {}, [Next]_vars
  PROVE StartupQuiet'
<1>0. /\ pc \in [Tasks -> MainPc \union WsPc] /\ state \in LifecycleStates
      /\ "main" \in Tasks /\ "ws" \in Tasks
  BY DEF IInv, TypeOK, Tasks
<1>a. Ownership /\ OutageExclusive /\ StartupQuiet /\ Unconnected
  BY DEF IInv, CalmInv
<1>b. {"rest", "startup_drop", "startup_event"} \cap Faults = {}
  BY DEF Unrepaired
<1> USE <1>0, <1>a, <1>b DEF Ownership, OutageExclusive, Live, InStartup,
     Starting, client, book, loop, ha, hub, Tasks, IsActive, IsStopping,
     IsTerminal, Discovering, Connected
<1>1. ASSUME Startup PROVE StartupQuiet'
  BY <1>1 DEF StartupQuiet, Settled, BeingTold, Told, Startup, Goto
<1>2. ASSUME MqttConnected PROVE StartupQuiet'
  BY <1>2 DEF StartupQuiet, Settled, BeingTold, Told, MqttConnected,
         CallConnectWs
<1>3. ASSUME MqttConnectFails PROVE StartupQuiet'
  BY <1>3 DEF StartupQuiet, Settled, BeingTold, Told, MqttConnectFails, Goto
<1>4. ASSUME MqttRetry PROVE StartupQuiet'
  BY <1>4 DEF StartupQuiet, Settled, BeingTold, Told, MqttRetry, CallConnectWs,
         Goto
<1>5. ASSUME NEW t \in Tasks, Fetched(t) PROVE StartupQuiet'
  <2>1. CASE t = "main"
    <3>1. \A d \in paired : Settled("main", d)' BY <1>5, <2>1, FetchedSettles
    <3> QED BY <1>5, <2>1, <3>1 DEF Fetched, EndDiscovery, NextDevice, Goto,
           StartupQuiet
  <2>2. CASE t = "ws"
    BY <1>5, <2>2 DEF Fetched, EndDiscovery, NextDevice, Goto, StartupQuiet
  <2> QED BY <2>1, <2>2
<1>6. ASSUME NEW t \in Tasks, FetchFails(t) PROVE StartupQuiet'
  BY <1>6 DEF StartupQuiet, Settled, BeingTold, Told, FetchFails
<1>7. ASSUME NEW t \in Tasks, Registered(t) PROVE StartupQuiet'
  <2>1. CASE t = "main"
    <3>1. \A d \in paired : Settled("main", d) => Settled("main", d)'
      BY <1>7, <2>1, RegistrationSettles DEF IInv, TypeOK
    <3> QED BY <1>7, <2>1, <3>1 DEF Registered, Goto, StartupQuiet
  <2>2. CASE t = "ws"
    BY <1>7, <2>2 DEF Registered, Goto, StartupQuiet
  <2> QED BY <2>1, <2>2
<1>8. ASSUME NEW t \in Tasks, RegisterFails(t) PROVE StartupQuiet'
  <2>1. CASE t = "main"
    <3>1. \A d \in paired : Settled("main", d) => Settled("main", d)'
      BY <1>8, <2>1, RegistrationSettles DEF IInv, TypeOK
    <3> QED BY <1>8, <2>1, <3>1 DEF RegisterFails, NextDevice, Goto, Disturb,
           StartupQuiet
  <2>2. CASE t = "ws"
    BY <1>8, <2>2 DEF RegisterFails, NextDevice, Goto, Disturb, StartupQuiet
  <2> QED BY <2>1, <2>2
<1>9. ASSUME NEW t \in Tasks, InitialAvailability(t) PROVE StartupQuiet'
  <2>1. CASE t = "main"
    <3>1. \A d \in paired : Settled("main", d) => Settled("main", d)'
      BY <1>9, <2>1, RegistrationSettles DEF IInv, TypeOK
    <3> QED BY <1>9, <2>1, <3>1 DEF InitialAvailability, Availability,
           NextDevice, Goto, Disturb, StartupQuiet
  <2>2. CASE t = "ws"
    BY <1>9, <2>2 DEF InitialAvailability, Availability, NextDevice, Goto,
           Disturb, StartupQuiet
  <2> QED BY <2>1, <2>2
<1>10. ASSUME NEW t \in Tasks, InitialStatePublished(t) PROVE StartupQuiet'
  <2>1. CASE t = "main"
    BY <1>10, <2>1 DEF InitialStatePublished, EndDiscovery, Goto, StartupQuiet
  <2>2. CASE t = "ws"
    BY <1>10, <2>2 DEF InitialStatePublished, EndDiscovery, Goto, StartupQuiet
  <2> QED BY <2>1, <2>2
<1>11. ASSUME Poll PROVE StartupQuiet'
  BY <1>11 DEF StartupQuiet, Settled, BeingTold, Told, TransitionIfValid,
         CanTransition, ValidTransitions, LifecycleStates, Poll,
         BeginShutdown, MarkAllOffline,
         CallStopWs, Goto
<1>30. ASSUME MetricsEnded PROVE StartupQuiet'
  BY <1>30 DEF StartupQuiet, Settled, BeingTold, Told, MetricsEnded,
         MarkAllOffline, CallStopWs, Goto
<1>12. ASSUME SocketClosed PROVE StartupQuiet'
  BY <1>12 DEF StartupQuiet, Settled, BeingTold, Told, SocketClosed
<1>13. ASSUME WsStopped PROVE StartupQuiet'
  BY <1>13 DEF StartupQuiet, Settled, BeingTold, Told, WsStopped
<1>14. ASSUME HaStopped PROVE StartupQuiet'
  BY <1>14 DEF StartupQuiet, Settled, BeingTold, Told, TransitionIfValid,
         CanTransition, ValidTransitions, LifecycleStates, HaStopped, Goto
<1>15. ASSUME NEW t \in Tasks, NEW d \in Devices, Darken(t, d)
           PROVE StartupQuiet'
  BY <1>15 DEF StartupQuiet, Settled, BeingTold, Told, Darken, Availability,
         CallStopWs, AfterOutage, Goto, Disturb
<1>16. ASSUME WsAttempt PROVE StartupQuiet'
  BY <1>16 DEF StartupQuiet, Settled, BeingTold, Told, WsAttempt, Goto
<1>17. ASSUME WsOpened PROVE StartupQuiet'
  BY <1>17 DEF StartupQuiet, Settled, BeingTold, Told, WsOpened, Goto
<1>18. ASSUME WsOpenFails PROVE StartupQuiet'
  BY <1>18 DEF StartupQuiet, Settled, BeingTold, Told, TransitionIfValid,
         CanTransition, ValidTransitions, LifecycleStates, WsOpenFails,
         Disconnected, AfterOutage, Goto
<1>19. ASSUME WsListenEnds PROVE StartupQuiet'
  BY <1>19 DEF StartupQuiet, Settled, BeingTold, Told, TransitionIfValid,
         CanTransition, ValidTransitions, LifecycleStates, WsListenEnds,
         Disconnected, AfterOutage, Goto
<1>20. ASSUME WsMessage PROVE StartupQuiet'
  BY <1>20 DEF StartupQuiet, Settled, BeingTold, Told, WsMessage, ToMark, Goto
<1>21. ASSUME WsMarked PROVE StartupQuiet'
  BY <1>21 DEF StartupQuiet, Settled, BeingTold, Told, WsMarked, Availability,
         Goto, Disturb
<1>22. ASSUME Stop PROVE StartupQuiet'
  BY <1>22 DEF StartupQuiet, Settled, BeingTold, Told, TransitionIfValid,
         CanTransition, ValidTransitions, LifecycleStates, Stop
<1>23. ASSUME Cancel PROVE StartupQuiet'
  BY <1>23 DEF StartupQuiet, Settled, BeingTold, Told, TransitionIfValid,
         CanTransition, ValidTransitions, LifecycleStates, Cancel,
         BeginShutdown, MarkAllOffline, CallStopWs, Goto
<1>24. ASSUME NEW d \in Devices, HubReachability(d) PROVE StartupQuiet'
  BY <1>24 DEF StartupQuiet, Settled, BeingTold, Told, HubReachability, Send,
         Disturb
<1>25. ASSUME NEW d \in Devices, HubPairs(d) PROVE StartupQuiet'
  BY <1>25 DEF StartupQuiet, Settled, BeingTold, Told, HubPairs, Send, Disturb
<1>26. ASSUME NEW d \in Devices, HubUnpairs(d) PROVE StartupQuiet'
  BY <1>26 DEF StartupQuiet, Settled, BeingTold, Told, HubUnpairs, Send, Disturb
<1>27. ASSUME HubDrops PROVE StartupQuiet'
  BY <1>27 DEF StartupQuiet, Settled, BeingTold, Told, HubDrops, Disturb
<1>28. ASSUME Terminated PROVE StartupQuiet'
  BY <1>28 DEF StartupQuiet, Settled, BeingTold, Told, Terminated, vars
<1>29. CASE UNCHANGED vars
  BY <1>29 DEF StartupQuiet, Settled, BeingTold, Told, vars
<1> QED
  BY <1>1, <1>2, <1>3, <1>4, <1>5, <1>6, <1>7, <1>8, <1>9, <1>10, <1>11,
       <1>12, <1>13, <1>14, <1>15, <1>16, <1>17, <1>18, <1>19, <1>20, <1>21,
       <1>22, <1>23, <1>24, <1>25, <1>26, <1>27, <1>28, <1>29,
       <1>30 DEF Next, Main,
       Ws, Environment, Discovery, Tasks
LEMMA UnconnectedStep ==
  ASSUME IInv, CalmInv, Faults \cap Unrepaired = {}, [Next]_vars
  PROVE Unconnected'
<1>0. /\ pc \in [Tasks -> MainPc \union WsPc] /\ state \in LifecycleStates
      /\ "main" \in Tasks /\ "ws" \in Tasks
  BY DEF IInv, TypeOK, Tasks
<1>a. Ownership /\ OutageExclusive /\ StartupQuiet /\ Unconnected
  BY DEF IInv, CalmInv
<1>b. {"rest", "startup_drop", "startup_event"} \cap Faults = {}
  BY DEF Unrepaired
<1> USE <1>0, <1>a, <1>b DEF Ownership, OutageExclusive, Live, InStartup,
     Starting, client, book, loop, ha, hub, Tasks, IsActive, IsStopping,
     IsTerminal, Discovering, Connected
<1>1. ASSUME Startup PROVE Unconnected'
  BY <1>1 DEF StartupQuiet, Unconnected, Told, Startup, Goto
<1>2. ASSUME MqttConnected PROVE Unconnected'
  BY <1>2 DEF StartupQuiet, Unconnected, Told, MqttConnected, CallConnectWs
<1>3. ASSUME MqttConnectFails PROVE Unconnected'
  BY <1>3 DEF StartupQuiet, Unconnected, Told, MqttConnectFails, Goto
<1>4. ASSUME MqttRetry PROVE Unconnected'
  BY <1>4 DEF StartupQuiet, Unconnected, Told, MqttRetry, CallConnectWs, Goto
<1>5. ASSUME NEW t \in Tasks, Fetched(t) PROVE Unconnected'
  BY <1>5 DEF StartupQuiet, Unconnected, Told, TransitionIfValid, CanTransition,
         ValidTransitions, LifecycleStates, Fetched, EndDiscovery, NextDevice,
         Goto
<1>6. ASSUME NEW t \in Tasks, FetchFails(t) PROVE Unconnected'
  BY <1>6 DEF StartupQuiet, Unconnected, Told, FetchFails
<1>7. ASSUME NEW t \in Tasks, Registered(t) PROVE Unconnected'
  BY <1>7 DEF StartupQuiet, Unconnected, Told, Registered, Goto
<1>8. ASSUME NEW t \in Tasks, RegisterFails(t) PROVE Unconnected'
  BY <1>8 DEF StartupQuiet, Unconnected, Told, RegisterFails, NextDevice, Goto,
         Disturb
<1>9. ASSUME NEW t \in Tasks, InitialAvailability(t) PROVE Unconnected'
  BY <1>9 DEF StartupQuiet, Unconnected, Told, InitialAvailability,
         Availability, NextDevice, Goto, Disturb
<1>10. ASSUME NEW t \in Tasks, InitialStatePublished(t) PROVE Unconnected'
  <2>1. CASE t = "main"
    <3>1. \A d \in paired : Settled("main", d) => Told(d)'
      BY <1>10, <2>1, PublishedSettles
    <3> QED BY <1>10, <2>1, <3>1 DEF InitialStatePublished, EndDiscovery, Goto,
           TransitionIfValid, CanTransition, ValidTransitions, LifecycleStates,
           StartupQuiet, Unconnected
  <2>2. CASE t = "ws"
    BY <1>10, <2>2 DEF InitialStatePublished, EndDiscovery, Goto, Unconnected
  <2> QED BY <2>1, <2>2
<1>11. ASSUME Poll PROVE Unconnected'
  BY <1>11 DEF StartupQuiet, Unconnected, Told, TransitionIfValid,
         CanTransition, ValidTransitions, LifecycleStates, Poll,
         BeginShutdown, MarkAllOffline,
         CallStopWs, Goto
<1>30. ASSUME MetricsEnded PROVE Unconnected'
  BY <1>30 DEF StartupQuiet, Unconnected, Told, MetricsEnded,
         MarkAllOffline, CallStopWs, Goto
<1>12. ASSUME SocketClosed PROVE Unconnected'
  BY <1>12 DEF StartupQuiet, Unconnected, Told, SocketClosed
<1>13. ASSUME WsStopped PROVE Unconnected'
  BY <1>13 DEF StartupQuiet, Unconnected, Told, WsStopped
<1>14. ASSUME HaStopped PROVE Unconnected'
  BY <1>14 DEF StartupQuiet, Unconnected, Told, TransitionIfValid,
         CanTransition, ValidTransitions, LifecycleStates, HaStopped, Goto
<1>15. ASSUME NEW t \in Tasks, NEW d \in Devices, Darken(t, d)
           PROVE Unconnected'
  BY <1>15 DEF StartupQuiet, Unconnected, Told, Darken, Availability,
         CallStopWs, AfterOutage, Goto, Disturb
<1>16. ASSUME WsAttempt PROVE Unconnected'
  BY <1>16 DEF StartupQuiet, Unconnected, Told, WsAttempt, Goto
<1>17. ASSUME WsOpened PROVE Unconnected'
  BY <1>17 DEF StartupQuiet, Unconnected, Told, WsOpened, Goto
<1>18. ASSUME WsOpenFails PROVE Unconnected'
  BY <1>18 DEF StartupQuiet, Unconnected, Told, TransitionIfValid,
         CanTransition, ValidTransitions, LifecycleStates, WsOpenFails,
         Disconnected, AfterOutage, Goto
<1>19. ASSUME WsListenEnds PROVE Unconnected'
  BY <1>19 DEF StartupQuiet, Unconnected, Told, TransitionIfValid,
         CanTransition, ValidTransitions, LifecycleStates, WsListenEnds,
         Disconnected, AfterOutage, Goto
<1>20. ASSUME WsMessage PROVE Unconnected'
  BY <1>20 DEF StartupQuiet, Unconnected, Told, WsMessage, ToMark, Goto
<1>21. ASSUME WsMarked PROVE Unconnected'
  BY <1>21 DEF StartupQuiet, Unconnected, Told, WsMarked, Availability, Goto,
         Disturb
<1>22. ASSUME Stop PROVE Unconnected'
  BY <1>22 DEF StartupQuiet, Unconnected, Told, TransitionIfValid,
         CanTransition, ValidTransitions, LifecycleStates, Stop
<1>23. ASSUME Cancel PROVE Unconnected'
  BY <1>23 DEF StartupQuiet, Unconnected, Told, TransitionIfValid,
         CanTransition, ValidTransitions, LifecycleStates, Cancel,
         BeginShutdown, MarkAllOffline, CallStopWs, Goto
<1>24. ASSUME NEW d \in Devices, HubReachability(d) PROVE Unconnected'
  BY <1>24 DEF StartupQuiet, Unconnected, Told, HubReachability, Send, Disturb
<1>25. ASSUME NEW d \in Devices, HubPairs(d) PROVE Unconnected'
  BY <1>25 DEF StartupQuiet, Unconnected, Told, HubPairs, Send, Disturb
<1>26. ASSUME NEW d \in Devices, HubUnpairs(d) PROVE Unconnected'
  BY <1>26 DEF StartupQuiet, Unconnected, Told, HubUnpairs, Send, Disturb
<1>27. ASSUME HubDrops PROVE Unconnected'
  BY <1>27 DEF StartupQuiet, Unconnected, Told, HubDrops, Disturb
<1>28. ASSUME Terminated PROVE Unconnected'
  BY <1>28 DEF StartupQuiet, Unconnected, Told, Terminated, vars
<1>29. CASE UNCHANGED vars
  BY <1>29 DEF StartupQuiet, Unconnected, Told, vars
<1> QED
  BY <1>1, <1>2, <1>3, <1>4, <1>5, <1>6, <1>7, <1>8, <1>9, <1>10, <1>11,
       <1>12, <1>13, <1>14, <1>15, <1>16, <1>17, <1>18, <1>19, <1>20, <1>21,
       <1>22, <1>23, <1>24, <1>25, <1>26, <1>27, <1>28, <1>29,
       <1>30 DEF Next, Main,
       Ws, Environment, Discovery, Tasks

\* Taking the first message from the wire, and appending one to it.
LEMMA TakenWord ==
  ASSUME TypeOK, wire # <<>>, wire' = Tail(wire), NEW d, UNCHANGED reach
  PROVE /\ LastWord(d) => LastWord(d)'
        /\ Mentioned(d) => \/ Mentioned(d)'
                           \/ /\ Head(wire).dev = d
                              /\ LastWord(d) => Head(wire).kind \in Word(d)
        /\ (Head(wire).kind # "added" /\ \E k
               \in 1..Len(wire) : wire[k].kind = "added")
              => \E k \in 1..Len(wire') : wire'[k].kind = "added"
<1> DEFINE n == Len(wire)
<1>0. wire \in Seq(Message) /\ n \in Nat /\ n > 0 /\ Head(wire) = wire[1] BY
       DEF TypeOK
<1>1. Len(wire') = n - 1 /\ \A k \in 1..(n - 1) : wire'[k] = wire[k + 1]
  BY <1>0
<1> HIDE DEF n
<1>2. ASSUME LastWord(d) PROVE LastWord(d)'
  <2> SUFFICES ASSUME NEW k \in 1..(n - 1), wire'[k].dev = d,
                      \A j \in (k + 1)..(n - 1) : wire'[j].dev # d
               PROVE wire'[k].kind \in Word(d)
    BY <1>1 DEF LastWord, Word
  <2>1. \A j \in (k + 2)..n : wire[j].dev # d
    <3> SUFFICES ASSUME NEW j \in (k + 2)..n PROVE wire[j].dev # d OBVIOUS
    <3>1. /\ j - 1 \in (k + 1)..(n - 1) /\ j - 1 \in 1..(n - 1)
          /\ (j - 1) + 1 = j
      BY <1>0
    <3> QED BY <3>1, <1>1
  <2>2. k + 1 \in 1..n /\ wire'[k] = wire[k + 1] /\ (k + 1) + 1 = k + 2 BY <1>0,
         <1>1
  <2> QED BY <1>2, <2>1, <2>2 DEF LastWord, Word, n
<1>3. ASSUME Mentioned(d), ~ Mentioned(d)'
      PROVE /\ Head(wire).dev = d
            /\ LastWord(d) => Head(wire).kind \in Word(d)
  <2>1. \A j \in 2..n : wire[j].dev # d
    <3> SUFFICES ASSUME NEW j \in 2..n PROVE wire[j].dev # d OBVIOUS
    <3>1. j - 1 \in 1..(n - 1) /\ (j - 1) + 1 = j BY <1>0
    <3> QED BY <3>1, <1>1, <1>3 DEF Mentioned
  <2>2. PICK k \in 1..n : wire[k].dev = d BY <1>3 DEF Mentioned, n
  <2>3. k = 1 BY <2>1, <2>2, <1>0
  <2> QED BY <1>0, <2>1, <2>2, <2>3 DEF LastWord, Word, n
<1>4. ASSUME Head(wire).kind # "added", NEW k \in 1..n, wire[k].kind = "added"
      PROVE \E i \in 1..Len(wire') : wire'[i].kind = "added"
  <2>1. k # 1 BY <1>0, <1>4
  <2>2. k - 1 \in 1..(n - 1) /\ (k - 1) + 1 = k BY <1>0, <2>1
  <2> QED BY <1>1, <1>4, <2>2
<1> QED BY <1>2, <1>3, <1>4 DEF n

LEMMA SentWord ==
  ASSUME TypeOK, link, NEW e \in Devices,
         NEW kind \in {"reachable", "unreachable", "added", "removed"},
         Send(kind, e), NEW d, d # e => (d \in reach' <=> d \in reach)
  PROVE /\ d # e /\ LastWord(d) => LastWord(d)'
        /\ d # e /\ Mentioned(d) => Mentioned(d)'
        /\ Mentioned(e)'
        /\ (d = e /\ kind \in Word(e)') => LastWord(d)'
        /\ ((\E k \in 1..Len(wire) : wire[k].kind = "added") \/ kind = "added")
              => \E k \in 1..Len(wire') : wire'[k].kind = "added"
<1> DEFINE n == Len(wire)
<1>m. [kind |-> kind, dev |-> e] \in Message BY DEF Message
<1>0. wire \in Seq(Message) /\ n \in Nat BY DEF TypeOK
<1>1. Len(wire') = n + 1 /\ wire'[n + 1] = [kind |-> kind, dev |-> e] /\
      \A k \in 1..n : wire'[k] = wire[k]
  BY <1>0, <1>m, AppendProperties DEF Send
<1> HIDE DEF n
<1>n. n + 1 \in 1..(n + 1) /\ \A k \in 1..n : k \in 1..(n + 1) BY <1>0
<1>2. ASSUME LastWord(d), d # e PROVE LastWord(d)'
  <2> SUFFICES ASSUME NEW k \in 1..(n + 1), wire'[k].dev = d,
                      \A j \in (k + 1)..(n + 1) : wire'[j].dev # d
               PROVE wire'[k].kind \in Word(d)
    BY <1>1, <1>2 DEF LastWord, Word
  <2>1. k \in 1..n BY <1>0, <1>1, <1>2
  <2>2. \A j \in (k + 1)..n : wire[j].dev # d
    <3> SUFFICES ASSUME NEW j \in (k + 1)..n PROVE wire[j].dev # d OBVIOUS
    <3>1. j \in (k + 1)..(n + 1) /\ j \in 1..n BY <1>0
    <3> QED BY <3>1, <1>1
  <2> QED BY <1>1, <1>2, <2>1, <2>2 DEF LastWord, Word, n
<1>3. Mentioned(d) => Mentioned(d)' BY <1>1, <1>n DEF Mentioned, n
<1>4. Mentioned(e)' BY <1>1, <1>n DEF Mentioned
<1>5. ASSUME d = e, kind \in Word(e)'
      PROVE LastWord(d)'
  <2> SUFFICES ASSUME NEW k \in 1..(n + 1), wire'[k].dev = d,
                      \A j \in (k + 1)..(n + 1) : wire'[j].dev # d
               PROVE wire'[k].kind \in Word(d)'
    BY <1>1 DEF LastWord, Word
  <2>1. k = n + 1
    <3> SUFFICES ASSUME k # n + 1 PROVE FALSE OBVIOUS
    <3>1. n + 1 \in (k + 1)..(n + 1) BY <1>0
    <3> QED BY <3>1, <1>1, <1>5
  <2> QED BY <1>1, <1>5, <2>1
<1>6. ASSUME (\E k \in 1..n : wire[k].kind = "added") \/ kind = "added"
      PROVE \E k \in 1..Len(wire') : wire'[k].kind = "added"
  BY <1>1, <1>n, <1>6
<1> QED BY <1>2, <1>3, <1>4, <1>5, <1>6 DEF n

LEMMA OnItsWayStep ==
  ASSUME IInv, CalmInv, Faults \cap Unrepaired = {}, [Next]_vars
  PROVE OnItsWay'
<1>0. /\ pc \in [Tasks -> MainPc \union WsPc] /\ state \in LifecycleStates
      /\ "main" \in Tasks /\ "ws" \in Tasks
  BY DEF IInv, TypeOK, Tasks
<1>a. Ownership /\ OutageExclusive /\ StartupQuiet /\ Unconnected /\ OnItsWay
          /\ InFlight /\ TypeOK
  BY DEF IInv, CalmInv
<1>b. {"rest", "startup_drop", "startup_event"} \cap Faults = {}
  BY DEF Unrepaired
<1> USE <1>0, <1>a, <1>b DEF Ownership, OutageExclusive, Live, InStartup,
     Starting, client, book, loop, ha, hub, Tasks, IsActive, IsStopping,
     IsTerminal, Discovering, Connected
<1>1. ASSUME Startup PROVE OnItsWay'
  BY <1>1 DEF OnItsWay, LastWord, Word, Due, Mentioned, Known, Settled,
         BeingTold, Told, Startup, Goto
<1>2. ASSUME MqttConnected PROVE OnItsWay'
  BY <1>2 DEF OnItsWay, LastWord, Word, Due, Mentioned, Known, Settled,
         BeingTold, Told, MqttConnected, CallConnectWs
<1>3. ASSUME MqttConnectFails PROVE OnItsWay'
  BY <1>3 DEF OnItsWay, LastWord, Word, Due, Mentioned, Known, Settled,
         BeingTold, Told, MqttConnectFails, Goto
<1>4. ASSUME MqttRetry PROVE OnItsWay'
  BY <1>4 DEF OnItsWay, LastWord, Word, Due, Mentioned, Known, Settled,
         BeingTold, Told, MqttRetry, CallConnectWs, Goto
<1>5. ASSUME NEW t \in Tasks, Fetched(t) PROVE OnItsWay'
  <2>1. CASE t = "main"
    BY <1>5, <2>1 DEF Fetched, EndDiscovery, NextDevice, Goto, OnItsWay,
           TransitionIfValid, CanTransition, ValidTransitions, LifecycleStates
  <2>2. CASE t = "ws"
    <3>1. \A d \in paired : Settled("ws", d)'
      BY <1>5, <2>2, FetchedSettles
    <3>2. \A d \in paired : LastWord(d)' <=> LastWord(d)
      BY <1>5 DEF Fetched, LastWord, Word
    <3>3. UNCHANGED <<state, link, paired>> /\ pc'["ws"] # "marking"
      BY <1>5, <2>2 DEF Fetched, EndDiscovery, NextDevice, Goto
    <3> QED BY <3>1, <3>2, <3>3 DEF OnItsWay
  <2> QED BY <2>1, <2>2
<1>6. ASSUME NEW t \in Tasks, FetchFails(t) PROVE OnItsWay'
  BY <1>6 DEF OnItsWay, LastWord, Word, Due, Mentioned, Known, Settled,
         BeingTold, Told, FetchFails
<1>7. ASSUME NEW t \in Tasks, Registered(t) PROVE OnItsWay'
  <2>1. CASE t = "main"
    BY <1>7, <2>1 DEF Registered, Goto, OnItsWay
  <2>2. CASE t = "ws"
    <3>1. \A d \in paired : /\ Settled("ws", d) => Settled("ws", d)'
                            /\ Known(d) => Known(d)'
      BY <1>7, <2>2, RegistrationSettles DEF Known, TypeOK
    <3>2. \A d \in paired : /\ Mentioned(d)' <=> Mentioned(d)
                            /\ LastWord(d)' <=> LastWord(d)
      BY <1>7 DEF Registered, Goto, Mentioned, LastWord, Word
    <3>3. (Due => Due') /\ UNCHANGED <<state, link, paired>>
              /\ pc'["ws"] # "marking"
      BY <1>7, <2>2 DEF Registered, Goto, Due
    <3> QED BY <3>1, <3>2, <3>3 DEF OnItsWay
  <2> QED BY <2>1, <2>2
<1>8. ASSUME NEW t \in Tasks, RegisterFails(t) PROVE OnItsWay'
  <2>1. CASE t = "main"
    BY <1>8, <2>1 DEF RegisterFails, NextDevice, Goto, Disturb, OnItsWay
  <2>2. CASE t = "ws"
    <3>1. \A d \in paired : /\ Settled("ws", d) => Settled("ws", d)'
                            /\ Known(d) => Known(d)'
      BY <1>8, <2>2, RegistrationSettles DEF Known, TypeOK
    <3>2. \A d \in paired : /\ Mentioned(d)' <=> Mentioned(d)
                            /\ LastWord(d)' <=> LastWord(d)
      BY <1>8 DEF RegisterFails, NextDevice, Goto, Disturb, Mentioned, LastWord,
             Word
    <3>3. (Due => Due') /\ UNCHANGED <<state, link, paired>>
              /\ pc'["ws"] # "marking"
      BY <1>8, <2>2 DEF RegisterFails, NextDevice, Goto, Disturb, Due
    <3> QED BY <3>1, <3>2, <3>3 DEF OnItsWay
  <2> QED BY <2>1, <2>2
<1>9. ASSUME NEW t \in Tasks, InitialAvailability(t) PROVE OnItsWay'
  <2>1. CASE t = "main"
    BY <1>9, <2>1 DEF InitialAvailability, Availability, NextDevice, Goto,
           Disturb, OnItsWay
  <2>2. CASE t = "ws"
    <3>1. \A d \in paired : /\ Settled("ws", d) => Settled("ws", d)'
                            /\ Known(d) => Known(d)'
      BY <1>9, <2>2, RegistrationSettles DEF Known, TypeOK
    <3>2. \A d \in paired : /\ Mentioned(d)' <=> Mentioned(d)
                            /\ LastWord(d)' <=> LastWord(d)
      BY <1>9 DEF InitialAvailability, Availability, NextDevice, Goto, Disturb,
             Mentioned, LastWord, Word
    <3>3. (Due => Due') /\ UNCHANGED <<state, link, paired>>
              /\ pc'["ws"] # "marking"
      BY <1>9, <2>2 DEF InitialAvailability, Availability, NextDevice, Goto,
             Disturb, Due
    <3> QED BY <3>1, <3>2, <3>3 DEF OnItsWay
  <2> QED BY <2>1, <2>2
<1>10. ASSUME NEW t \in Tasks, InitialStatePublished(t) PROVE OnItsWay'
  <2>1. CASE t = "main"
    <3>1. \A d \in paired : Settled("main", d) => Told(d)'
      BY <1>10, <2>1, PublishedSettles
    <3>2. CASE state = "STARTING" /\ link
      <4>1. \A d \in paired : Told(d)'
        BY <1>10, <2>1, <3>1, <3>2 DEF InitialStatePublished, StartupQuiet
      <4>2. UNCHANGED <<paired, wire>> /\ wire = <<>> /\ pc'["ws"] = pc["ws"]
                /\ pc'["ws"] = "listening"
        BY <1>10, <2>1, <3>2 DEF InitialStatePublished, EndDiscovery, Goto,
               StartupQuiet
      <4> QED BY <4>1, <4>2 DEF OnItsWay, LastWord, Word, Settled, BeingTold
    <3>3. CASE ~(state = "STARTING" /\ link)
      BY <1>10, <2>1, <3>3 DEF InitialStatePublished, EndDiscovery, Goto,
             OnItsWay, TransitionIfValid,
         CanTransition, ValidTransitions, LifecycleStates
    <3> QED BY <3>2, <3>3
  <2>2. CASE t = "ws"
    <3>1. \A d \in paired : /\ Settled("ws", d) => Settled("ws", d)'
                            /\ Known(d) => Known(d)'
      BY <1>10, <2>2 DEF InitialStatePublished, EndDiscovery, Goto, Known,
             Settled, BeingTold, Told
    <3>2. \A d \in paired : /\ Mentioned(d)' <=> Mentioned(d)
                            /\ LastWord(d)' <=> LastWord(d)
      BY <1>10 DEF InitialStatePublished, Mentioned, LastWord, Word
    <3>3. (Due => Due') /\ UNCHANGED <<state, link, paired>>
              /\ pc'["ws"] # "marking"
      BY <1>10, <2>2 DEF InitialStatePublished, EndDiscovery, Goto, Due
    <3> QED BY <3>1, <3>2, <3>3 DEF OnItsWay
  <2> QED BY <2>1, <2>2
<1>11. ASSUME Poll PROVE OnItsWay'
  BY <1>11 DEF OnItsWay, LastWord, Word, Due, Mentioned, Known, Settled,
         BeingTold, Told, TransitionIfValid, CanTransition, ValidTransitions,
         LifecycleStates, Poll, BeginShutdown, MarkAllOffline, CallStopWs, Goto
<1>30. ASSUME MetricsEnded PROVE OnItsWay'
  BY <1>30 DEF OnItsWay, LastWord, Word, Due, Mentioned, Known, Settled,
         BeingTold, Told, MetricsEnded, MarkAllOffline, CallStopWs, Goto
<1>12. ASSUME SocketClosed PROVE OnItsWay'
  BY <1>12 DEF OnItsWay, LastWord, Word, Due, Mentioned, Known, Settled,
         BeingTold, Told, SocketClosed
<1>13. ASSUME WsStopped PROVE OnItsWay'
  BY <1>13 DEF OnItsWay, LastWord, Word, Due, Mentioned, Known, Settled,
         BeingTold, Told, WsStopped
<1>14. ASSUME HaStopped PROVE OnItsWay'
  BY <1>14 DEF OnItsWay, LastWord, Word, Due, Mentioned, Known, Settled,
         BeingTold, Told, TransitionIfValid, CanTransition, ValidTransitions,
         LifecycleStates, HaStopped, Goto
<1>15. ASSUME NEW t \in Tasks, NEW d \in Devices, Darken(t, d) PROVE OnItsWay'
  BY <1>15 DEF OnItsWay, LastWord, Word, Due, Mentioned, Known, Settled,
         BeingTold, Told, Darken, Availability, CallStopWs, AfterOutage, Goto,
         Disturb
<1>16. ASSUME WsAttempt PROVE OnItsWay'
  BY <1>16 DEF OnItsWay, LastWord, Word, Due, Mentioned, Known, Settled,
         BeingTold, Told, WsAttempt, Goto
<1>17. ASSUME WsOpened PROVE OnItsWay'
  <2>1. wire' = wire /\ paired' = paired /\ pc'["ws"] # "marking" BY <1>17
         DEF WsOpened, Goto
  <2>2. CASE state = "RECONNECTING"
    <3>1. wire' = <<>> /\ pc'["ws"] = "fetching" BY <1>17, <2>2 DEF WsOpened,
           Goto, Unconnected
    <3> QED BY <2>1, <3>1 DEF OnItsWay, Due, LastWord, Word
  <2>3. CASE state = "RUNNING"
    <3>1. wire = <<>> /\ pc'["ws"] = "listening" /\ \A d \in paired : Told(d)
      BY <1>17, <2>3 DEF WsOpened, Goto, Unconnected
    <3>2. \A d \in paired : Settled("ws", d)'
      BY <1>17, <3>1 DEF WsOpened, Settled, BeingTold, Told
    <3> QED BY <2>1, <3>1, <3>2 DEF OnItsWay, LastWord, Word
  <2>4. CASE state \notin {"RUNNING", "RECONNECTING"}
    BY <1>17, <2>1, <2>4 DEF WsOpened, OnItsWay
  <2> QED BY <2>2, <2>3, <2>4
<1>18. ASSUME WsOpenFails PROVE OnItsWay'
  BY <1>18 DEF OnItsWay, LastWord, Word, Due, Mentioned, Known, Settled,
         BeingTold, Told, TransitionIfValid, CanTransition, ValidTransitions,
         LifecycleStates, WsOpenFails, Disconnected, AfterOutage, Goto
<1>19. ASSUME WsListenEnds PROVE OnItsWay'
  BY <1>19 DEF OnItsWay, LastWord, Word, Due, Mentioned, Known, Settled,
         BeingTold, Told, TransitionIfValid, CanTransition, ValidTransitions,
         LifecycleStates, WsListenEnds, Disconnected, AfterOutage, Goto
<1>20. ASSUME WsMessage PROVE OnItsWay'
  <2>1. UNCHANGED <<state, link, paired, reach, entities, missed, avail>>
            /\ wire # <<>>
    BY <1>20 DEF WsMessage
  <2>2. CASE Head(wire).kind = "added"
    <3>1. wire' = Tail(wire) /\ pc'["ws"] = "fetching" BY <1>20,
           <2>2 DEF WsMessage, Goto
    <3>2. \A d \in paired : LastWord(d) => LastWord(d)' BY <2>1, <3>1, TakenWord
    <3> QED BY <2>1, <3>1, <3>2 DEF OnItsWay, Due
  <2>3. CASE Head(wire).kind # "added" /\ wire' = wire
    <3>1. \A d \in paired : /\ LastWord(d) => LastWord(d)'
                            /\ Settled("ws", d) => Settled("ws", d)'
                            /\ Mentioned(d) /\ Known(d) => Mentioned(d)'
                                   /\ Known(d)'
      BY <1>20, <2>1, <2>3 DEF WsMessage, Goto, LastWord, Word, Mentioned,
             Known, Settled, BeingTold, Told
    <3>2. Due => Due' BY <1>20, <2>3 DEF WsMessage, Due
    <3>3. Head(wire').kind # "added" BY <2>3
    <3> QED BY <2>1, <3>1, <3>2, <3>3 DEF OnItsWay
  <2>4. CASE Head(wire).kind # "added" /\ wire' # wire
    <3>1. /\ wire' = Tail(wire) /\ pc' = pc /\ pc["ws"] = "listening"
                 /\ todo' = todo /\ cur' = cur /\ snap' = snap
          /\ Head(wire).dev \notin ToMark(Head(wire))
      BY <1>20, <2>4 DEF WsMessage, Goto
    <3>2. Due => Due' BY <2>1, <2>4, <3>1, TakenWord DEF Due
    <3>3. ASSUME NEW d \in paired, LastWord(d), Mentioned(d) /\ Known(d)
          PROVE (Mentioned(d)' /\ Known(d)') \/ Settled("ws", d)'
      <4>1. CASE Mentioned(d)'
        BY <4>1, <2>1, <3>1, <3>3 DEF Known, BeingTold
      <4>2. CASE ~ Mentioned(d)'
        <5>1. Head(wire).dev = d /\ Head(wire).kind # "removed"
          BY <4>2, <2>1, <3>1, <3>3, TakenWord DEF Word
        <5>2. d \in missed BY <5>1, <3>1, <3>3 DEF ToMark, Known, BeingTold
        <5> QED BY <5>2, <2>1, <3>1 DEF Settled, BeingTold, Told
      <4> QED BY <4>1, <4>2
    <3>4. \A d \in paired : /\ LastWord(d) => LastWord(d)'
                            /\ Settled("ws", d) => Settled("ws", d)'
      BY <2>1, <3>1, TakenWord DEF Settled, BeingTold, Told
    <3> QED BY <2>1, <3>1, <3>2, <3>3, <3>4 DEF OnItsWay
  <2> QED BY <2>2, <2>3, <2>4
<1>21. ASSUME WsMarked PROVE OnItsWay'
  <2> DEFINE e == Head(wire).dev
             up == Head(wire).kind = "reachable"
  <2>1. /\ UNCHANGED <<state, link, paired, reach, entities, todo, snap, cur>>
               /\ wire # <<>> /\ wire' = Tail(wire)
        /\ pc["ws"] = "marking" /\ pc'["ws"] = "listening"
        /\ e \in entities
    BY <1>21 DEF WsMarked, Goto, InFlight
  <2>2. /\ \A d \in Devices : d # e => (d \in missed' <=> d \in missed)
               /\ avail'[d] = avail[d]
        /\ e \in missed' \/ avail'[e] = IF up THEN "online" ELSE "offline"
    BY <1>21, <2>1 DEF WsMarked, Availability, TypeOK
  <2> HIDE DEF e, up
  <2>3. Due => Due' BY <2>1, TakenWord DEF Due, OnItsWay
  <2>4. ASSUME NEW d \in paired, LastWord(d), (Mentioned(d) /\ Known(d))
            \/ Settled("ws", d)
        PROVE (Mentioned(d)' /\ Known(d)') \/ Settled("ws", d)'
    <3>0. d \in Devices BY DEF TypeOK
    <3>1. CASE Mentioned(d)
      <4>1. Known(d)'
        BY <2>1, <2>2, <2>4, <3>0, <3>1 DEF Known, Settled, BeingTold, Told
      <4>2. CASE ~ Mentioned(d)'
        <5>1. d = e /\ Head(wire).kind \in Word(d)
          BY <2>1, <2>4, <3>1, <4>2, TakenWord DEF e
        <5>2. up <=> d \in reach BY <5>1, <2>1 DEF up, OnItsWay, Word
        <5> QED BY <5>1, <5>2, <2>1, <2>2 DEF Settled, BeingTold, Told
      <4> QED BY <4>1, <4>2
    <3>2. CASE ~ Mentioned(d)
      <4>1. d # e BY <3>2, <2>1 DEF e, Mentioned, TypeOK
      <4> QED BY <2>1, <2>2, <2>4, <3>0, <3>2, <4>1 DEF Settled, BeingTold, Told
    <3> QED BY <3>1, <3>2
  <2>5. \A d \in paired : LastWord(d) => LastWord(d)' BY <2>1, TakenWord
  <2> QED BY <2>1, <2>3, <2>4, <2>5 DEF OnItsWay
<1>22. ASSUME Stop PROVE OnItsWay'
  BY <1>22 DEF OnItsWay, LastWord, Word, Due, Mentioned, Known, Settled,
         BeingTold, Told, TransitionIfValid, CanTransition, ValidTransitions,
         LifecycleStates, Stop
<1>23. ASSUME Cancel PROVE OnItsWay'
  BY <1>23 DEF OnItsWay, LastWord, Word, Due, Mentioned, Known, Settled,
         BeingTold, Told, TransitionIfValid, CanTransition, ValidTransitions,
         LifecycleStates, Cancel, BeginShutdown, MarkAllOffline, CallStopWs,
         Goto
<1>24. ASSUME NEW d \in Devices, HubReachability(d) PROVE OnItsWay'
  <2> DEFINE kind == IF d \in reach THEN "unreachable" ELSE "reachable"
  <2>1. /\ UNCHANGED <<state, link, paired, entities, missed, avail>>
        /\ UNCHANGED <<pc, todo, snap, cur>> /\ d \in paired
        /\ Send(kind, d)
        /\ \A e : e # d => (e \in reach' <=> e \in reach)
        /\ d \in reach' <=> d \notin reach
    BY <1>24 DEF HubReachability
  <2>2. kind \in {"reachable", "unreachable", "added", "removed"}
        /\ kind \in Word(d)'
    BY <2>1 DEF Word
  <2> HIDE DEF kind
  <2>3. CASE ~link
    BY <2>1, <2>3 DEF Send, OnItsWay
  <2>4. CASE link /\ state # "RUNNING"
    BY <2>1, <2>2, <2>4, SendHead DEF OnItsWay, InFlight
  <2>5. CASE link /\ state = "RUNNING"
    <3>1. pc["ws"] = "marking" => Head(wire').kind # "added"
      BY <2>1, <2>2, SendHead DEF OnItsWay, InFlight
    <3>2. Due => Due' BY <2>1, <2>2, <2>5, SentWord DEF Due
    <3>3. \A e \in paired : LastWord(e) => LastWord(e)'
      BY <2>1, <2>2, <2>5, SentWord
    <3>4. \A e \in paired : e # d /\ Mentioned(e) /\ Known(e) => Mentioned(e)'
              /\ Known(e)'
      BY <2>1, <2>2, <2>5, SentWord DEF Known, BeingTold
    <3>5. \A e \in paired : e # d /\ Settled("ws", e) => Settled("ws", e)'
      BY <2>1 DEF Settled, BeingTold, Told
    <3>6. Mentioned(d)' /\ ((Known(d) \/ Settled("ws", d)) => Known(d)')
      BY <2>1, <2>2, <2>5, SentWord DEF Settled, BeingTold, Told, Known
    <3> QED BY <2>1, <2>5, <3>1, <3>2, <3>3, <3>4, <3>5, <3>6 DEF OnItsWay
  <2> QED BY <2>3, <2>4, <2>5
<1>25. ASSUME NEW d \in Devices, HubPairs(d) PROVE OnItsWay'
  <2>1. /\ UNCHANGED <<state, link, pc>> /\ d \notin paired
        /\ Send("added", d) /\ paired' = paired \union {d}
        /\ \A e : e # d => (e \in reach' <=> e \in reach)
        /\ d \in reach'
    BY <1>25 DEF HubPairs
  <2>3. CASE ~link
    BY <2>1, <2>3 DEF Send, OnItsWay
  <2>4. CASE link
    <3>1. pc["ws"] = "marking" => Head(wire').kind # "added"
      BY <2>1, SendHead DEF OnItsWay, InFlight
    <3>2. Due' BY <2>1, <2>4, SentWord DEF Due
    <3>3. \A e \in paired : LastWord(e) => LastWord(e)' BY <2>1, <2>4, SentWord
    <3>4. LastWord(d)' BY <2>1, <2>4, SentWord DEF Word
    <3> QED BY <2>1, <2>4, <3>1, <3>2, <3>3, <3>4 DEF OnItsWay
  <2> QED BY <2>3, <2>4
<1>26. ASSUME NEW d \in Devices, HubUnpairs(d) PROVE OnItsWay'
  <2>1. /\ UNCHANGED <<state, link, pc, entities, missed, avail>>
        /\ UNCHANGED <<todo, snap, cur>>
        /\ Send("removed", d) /\ paired' = paired \ {d}
        /\ \A e : e # d => (e \in reach' <=> e \in reach)
    BY <1>26 DEF HubUnpairs
  <2>3. CASE ~link
    BY <2>1, <2>3 DEF Send, OnItsWay
  <2>4. CASE link
    <3>1. pc["ws"] = "marking" => Head(wire').kind # "added"
      BY <2>1, SendHead DEF OnItsWay, InFlight
    <3>2. Due => Due' BY <2>1, <2>4, SentWord DEF Due
    <3>3. \A e \in paired' : LastWord(e) => LastWord(e)' BY <2>1, <2>4, SentWord
    <3>4. \A e \in paired' : Mentioned(e) /\ Known(e) => Mentioned(e)'
              /\ Known(e)'
      BY <2>1, <2>4, SentWord DEF Known, BeingTold
    <3>5. \A e \in paired' : Settled("ws", e) => Settled("ws", e)'
      BY <2>1 DEF Settled, BeingTold, Told
    <3> QED BY <2>1, <2>4, <3>1, <3>2, <3>3, <3>4, <3>5 DEF OnItsWay
  <2> QED BY <2>3, <2>4
<1>27. ASSUME HubDrops PROVE OnItsWay'
  BY <1>27 DEF OnItsWay, LastWord, Word, Due, Mentioned, Known, Settled,
         BeingTold, Told, HubDrops, Disturb
<1>28. ASSUME Terminated PROVE OnItsWay'
  BY <1>28 DEF OnItsWay, LastWord, Word, Due, Mentioned, Known, Settled,
         BeingTold, Told, Terminated, vars
<1>29. CASE UNCHANGED vars
  BY <1>29 DEF OnItsWay, LastWord, Word, Due, Mentioned, Known, Settled,
         BeingTold, Told, vars
<1> QED
  BY <1>1, <1>2, <1>3, <1>4, <1>5, <1>6, <1>7, <1>8, <1>9, <1>10, <1>11,
       <1>12, <1>13, <1>14, <1>15, <1>16, <1>17, <1>18, <1>19, <1>20, <1>21,
       <1>22, <1>23, <1>24, <1>25, <1>26, <1>27, <1>28, <1>29,
       <1>30 DEF Next, Main,
       Ws, Environment, Discovery, Tasks

LEMMA CalmInvariance ==
  ASSUME Faults \cap Unrepaired = {} PROVE Spec => []CalmInv
<1>1. Init => CalmInv
  <2> SUFFICES ASSUME Init PROVE CalmInv OBVIOUS
  <2>1. StartupQuiet
    BY DEF Init, StartupQuiet, Discovering, Tasks
  <2>2. Unconnected /\ OnItsWay
    BY DEF Init, Unconnected, OnItsWay, Tasks
  <2> QED BY <2>1, <2>2 DEF CalmInv
<1>2. IInv /\ CalmInv /\ [Next]_vars => CalmInv'
  BY QuietStep, UnconnectedStep, OnItsWayStep DEF CalmInv
<1> QED BY <1>1, <1>2, Invariance, PTL DEF Spec

\* While nothing happens before the connection is up and every discovery gets its
\* answer, calm means accurate: after any number of outages, pairings, failed
\* publishes and changes of reachability that overtake each other, Home Assistant
\* shows every paired device as it is (_on_dirigera_connected(),
\* _on_device_added(), _set_device_availability()).
THEOREM CalmCorrect ==
  ASSUME Faults \cap Unrepaired = {} PROVE Spec => []CalmIsAccurate
<1>1. IInv /\ CalmInv => CalmIsAccurate
  <2> SUFFICES ASSUME IInv, CalmInv, Calm, missed = {}, NEW d \in paired
               PROVE avail[d] = IF d \in reach THEN "online" ELSE "offline"
    BY DEF CalmIsAccurate, Accurate
  <2>1. Settled("ws", d) \/ Due \/ Mentioned(d)
    BY DEF CalmInv, OnItsWay, Calm
  <2>2. ~ Due /\ ~ Mentioned(d) /\ ~ BeingTold("ws", d)
    BY DEF Due, Mentioned, BeingTold, Calm
  <2> QED BY <2>1, <2>2 DEF Settled, Told
<1> QED BY <1>1, Invariance, CalmInvariance, PTL
=============================================================================
