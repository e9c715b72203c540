----------------------------- MODULE Orchestrator -----------------------------
(***************************************************************************)
(* The bridge as a whole: class Orchestrator driving the lifecycle, the    *)
(* MQTT client, the WebSocket connection loop and the discovery of         *)
(* devices, between a Dirigera hub and Home Assistant.                     *)
(*                                                                         *)
(* Two coroutines of the single-threaded event loop share the state:       *)
(*   main  Orchestrator.run(): startup, the wait loop, shutdown;           *)
(*   ws    DirigeraWebSocketClient._connection_loop(), inside which every  *)
(*         event handler of the orchestrator runs to its end, because      *)
(*         AsyncEventBus.publish() is awaited.                             *)
(* A third one is a signal handler that runs stop().  They interleave only *)
(* where a coroutine awaits I/O, so an action is the code between two such *)
(* awaits: it begins with the outcome of the call that was awaited and     *)
(* ends by issuing the next one.                                           *)
(*                                                                         *)
(* What a device reports is abstracted to its reachability, which is what  *)
(* availability in Home Assistant is made of; attribute values and their   *)
(* cache are the subject of DeviceSync.  A device has one entity.          *)
(***************************************************************************)
EXTENDS Lifecycle, Naturals, Sequences

CONSTANTS
    Devices,            \* devices the hub may know
    NoDevice,           \* "no device": a loop between two devices
    Dashed,             \* devices whose logical id contains a dash
    Faults,             \* which kinds of trouble the environment may cause
    MaxDisturbances     \* bound on the number of hub changes and faults

\* rest           a REST request fails
\* mqtt           a publish fails although the broker connection is up
\* startup_drop   the WebSocket is refused or lost while the bridge starts
\* startup_event  the hub changes while the bridge starts
\* cancel         the caller of run() cancels it
FaultKinds == {"rest", "mqtt", "startup_drop", "startup_event", "cancel"}

ASSUME OrchestratorAssumption ==
    /\ NoDevice \notin Devices
    /\ Dashed \subseteq Devices
    /\ Faults \subseteq FaultKinds
    /\ MaxDisturbances \in Nat

VARIABLES
    state,              \* lifecycle.current_state
    pc,                 \* where each coroutine is suspended
    mqtt,               \* HAClient: objects absent, built, or connected
    stopEvent,          \* DirigeraWebSocketClient._stop_event
    entities,           \* Orchestrator._entities
    registered,         \* DiscoveryCache
    todo,               \* devices left in the loop a coroutine is running
    snap,               \* devices reachable in the device list it fetched
    cur,                \* device whose entity it is registering
    avail,              \* Home Assistant: retained availability
    missed,             \* entities whose latest availability publish failed
    link,               \* the WebSocket is open
    wire,               \* messages of the hub not yet handled
    paired, reach,      \* the hub: devices paired with it and reachable
    disturbances        \* hub changes and faults so far

hub == <<link, wire, paired, reach>>
ha == <<avail, missed>>
loop == <<todo, snap, cur>>
client == <<mqtt, stopEvent>>
book == <<entities, registered>>
vars == <<state, pc, client, book, loop, ha, hub, disturbances>>

Tasks == {"main", "ws"}
Message == [kind : {"reachable", "unreachable", "added", "removed"}, dev : Devices]
MainPc == {"created", "connecting", "mqttBackoff", "fetching", "registering",
           "setting", "publishing", "waiting", "endingMetrics", "darkening",
           "stoppingWs", "stoppingHa", "done"}
WsPc == {"idle", "backoff", "opening", "listening", "marking", "fetching",
         "registering", "setting", "publishing", "darkening", "done"}

Discovering == {"fetching", "registering", "setting", "publishing"}
Connected == {"listening", "marking"} \union Discovering

Init ==
    /\ state = "CREATED"
    /\ pc = [t \in Tasks |-> IF t = "main" THEN "created" ELSE "idle"]
    /\ mqtt = "absent" /\ stopEvent = FALSE
    /\ entities = {} /\ registered = {}
    /\ todo = [t \in Tasks |-> {}]
    /\ snap = [t \in Tasks |-> {}]
    /\ cur = [t \in Tasks |-> NoDevice]
    /\ avail = [d \in Devices |-> "unknown"] /\ missed = {}
    /\ link = FALSE /\ wire = <<>>
    /\ paired \in SUBSET Devices
    /\ reach \in SUBSET paired
    /\ disturbances = 0

-----------------------------------------------------------------------------
(***************************************************************************)
(* Pieces of a step                                                        *)
(***************************************************************************)

Goto(t, label) == pc' = [pc EXCEPT ![t] = label]

Disturb ==
    /\ disturbances < MaxDisturbances
    /\ disturbances' = disturbances + 1

\* HAClient.update_availability(): lands, is refused by the broker, or raises
\* because the client is not connected.  The callers log the error and go on.
Availability(d, value) ==
    \/ /\ mqtt = "connected"
       /\ avail' = [avail EXCEPT ![d] = value]
       /\ missed' = missed \ {d}
       /\ UNCHANGED disturbances
    \/ /\ mqtt = "connected" /\ "mqtt" \in Faults /\ Disturb
       /\ missed' = missed \union {d}
       /\ UNCHANGED avail
    \/ /\ mqtt # "connected"
       /\ missed' = missed \union {d}
       /\ UNCHANGED <<avail, disturbances>>

\* The registration loop goes to its next device.  HAClient.register_entity()
\* returns at once for an entity in the discovery cache; the entity is stored
\* and its availability is set next.  After the last device the initial state
\* is published.
NextDevice(t, rest, stored, cached) ==
    \/ /\ rest = {}
       /\ Goto(t, "publishing")
       /\ todo' = [todo EXCEPT ![t] = {}]
       /\ cur' = [cur EXCEPT ![t] = NoDevice]
       /\ entities' = stored
    \/ \E d \in rest :
         /\ todo' = [todo EXCEPT ![t] = rest \ {d}]
         /\ cur' = [cur EXCEPT ![t] = d]
         /\ Goto(t, IF d \in cached THEN "setting" ELSE "registering")
         /\ entities' = IF d \in cached THEN stored \union {d} ELSE stored

\* Mutant: a handler ends its discovery as startup does.
EndDiscoveryAsStartup(t) ==
    /\ state' = TransitionIfValid(state, "RUNNING")
    /\ Goto(t, "waiting")

\* Discovery is over: startup ends by entering RUNNING if that is still
\* legal; a handler returns to the listen loop.
EndDiscovery(t) ==
    /\ state' = IF t = "main" THEN TransitionIfValid(state, "RUNNING") ELSE state
    /\ Goto(t, IF t = "main" THEN "waiting" ELSE "listening")

\* DirigeraWebSocketClient.stop() is called: a socket that is open is closed
\* first, otherwise the connection loop is cancelled where it is.
CallStopWs ==
    /\ stopEvent' = TRUE
    /\ pc' = [pc EXCEPT !["main"] = "stoppingWs",
                        !["ws"] = IF link \/ @ = "idle" THEN @ ELSE "done"]

\* The entities there are now go offline, one publish after the other.
MarkAllOffline ==
    /\ todo' = [todo EXCEPT !["main"] = entities]
    /\ IF entities = {}
       THEN CallStopWs
       ELSE Goto("main", "darkening") /\ UNCHANGED stopEvent

\* _shutdown() begins: STOPPING if legal, then the end of the metrics task is
\* awaited.  That task is created at the end of startup, so it is there when
\* the wait loop is left.
BeginShutdown(from) ==
    /\ state' = TransitionIfValid(from, "STOPPING")
    /\ IF pc["main"] = "waiting"
       THEN Goto("main", "endingMetrics") /\ UNCHANGED <<stopEvent, todo>>
       ELSE MarkAllOffline

\* Mutant: the connection loop returns after the first outage.
AfterOutageGivesUp == "done"

\* After a disconnect was handled the connection loop sleeps and retries,
\* unless the client was told to stop.
AfterOutage == IF stopEvent THEN "done" ELSE "backoff"

\* Mutant: the entities are not marked offline.
DisconnectedLeavesOnline ==
    /\ state' = TransitionIfValid(state, "RECONNECTING")
    /\ Goto("ws", AfterOutage)
    /\ link' = FALSE /\ wire' = <<>>
    /\ UNCHANGED todo

\* Mutant: the transition is forced, whatever the table says.
DisconnectedForced ==
    /\ state' = "RECONNECTING"
    /\ todo' = [todo EXCEPT !["ws"] = entities]
    /\ Goto("ws", IF entities = {} THEN AfterOutage ELSE "darkening")
    /\ link' = FALSE /\ wire' = <<>>

\* DIRIGERA_DISCONNECTED and _on_dirigera_disconnected().
Disconnected ==
    /\ state' = TransitionIfValid(state, "RECONNECTING")
    /\ todo' = [todo EXCEPT !["ws"] = entities]
    /\ Goto("ws", IF entities = {} THEN AfterOutage ELSE "darkening")
    /\ link' = FALSE /\ wire' = <<>>

-----------------------------------------------------------------------------
(***************************************************************************)
(* main: startup                                                           *)
(***************************************************************************)

\* run() up to the first await: CREATED -> STARTING, the handlers are
\* subscribed, and HAClient.connect() builds its objects and dials the broker.
Startup ==
    /\ pc["main"] = "created"
    /\ state' = "STARTING"
    /\ mqtt' = "built"
    /\ Goto("main", "connecting")
    /\ UNCHANGED <<stopEvent, book, loop, ha, hub, disturbances>>

\* HAClient.connect() returned: start the connection loop, ask for the devices.
CallConnectWs == pc' = [pc EXCEPT !["main"] = "fetching", !["ws"] = "backoff"]

MqttConnected ==
    /\ pc["main"] = "connecting"
    /\ mqtt' = "connected"
    /\ CallConnectWs
    /\ UNCHANGED <<state, stopEvent, book, loop, ha, hub, disturbances>>

MqttConnectFails ==
    /\ pc["main"] = "connecting"
    /\ Goto("main", "mqttBackoff")
    /\ UNCHANGED <<state, client, book, loop, ha, hub, disturbances>>

\* Mutant: a stop request ends the attempts without connect() returning.
MqttRetryStops ==
    /\ pc["main"] = "mqttBackoff"
    /\ ~IsStopping(state)
    /\ Goto("main", "connecting")
    /\ UNCHANGED <<state, client, book, loop, ha, hub, disturbances>>

\* The next attempt.  If a stop was requested connect() gives up by returning
\* normally, and startup goes on with a client that is not connected.
MqttRetry ==
    /\ pc["main"] = "mqttBackoff"
    /\ IF IsStopping(state) THEN CallConnectWs ELSE Goto("main", "connecting")
    /\ UNCHANGED <<state, client, book, loop, ha, hub, disturbances>>

(***************************************************************************)
(* either task: _discover_and_register_devices()                           *)
(***************************************************************************)

\* get_devices() answers; registration begins.  No device, nothing to await.
Fetched(t) ==
    /\ pc[t] = "fetching"
    /\ snap' = [snap EXCEPT ![t] = reach]
    /\ IF paired = {}
       THEN EndDiscovery(t) /\ UNCHANGED <<todo, cur, entities>>
       ELSE NextDevice(t, paired, entities, registered) /\ UNCHANGED state
    /\ UNCHANGED <<client, registered, ha, hub, disturbances>>

\* get_devices() fails: fatal for startup, logged by a handler.
FetchFails(t) ==
    /\ pc[t] = "fetching"
    /\ "rest" \in Faults /\ Disturb
    /\ IF t = "main"
       THEN BeginShutdown(TransitionIfValid(state, "FAILED"))
       ELSE Goto("ws", "listening") /\ UNCHANGED <<state, stopEvent, todo>>
    /\ UNCHANGED <<mqtt, book, snap, cur, ha, hub>>

\* sdk.register() succeeded: the entity enters the discovery cache and the
\* orchestrator's table, and its availability is sent.
Registered(t) ==
    /\ pc[t] = "registering"
    /\ mqtt = "connected"
    /\ registered' = registered \union {cur[t]}
    /\ entities' = entities \union {cur[t]}
    /\ Goto(t, "setting")
    /\ UNCHANGED <<state, client, loop, ha, hub, disturbances>>

\* sdk.register() raised: not connected, refused, or already registered by
\* the other task.  The error is logged and the loop goes on.
RegisterFails(t) ==
    /\ pc[t] = "registering"
    /\ \/ cur[t] \in registered /\ UNCHANGED disturbances
       \/ mqtt # "connected" /\ UNCHANGED disturbances
       \/ mqtt = "connected" /\ "mqtt" \in Faults /\ Disturb
    /\ NextDevice(t, todo[t], entities, registered)
    /\ missed' = missed \union {cur[t]}
    /\ UNCHANGED <<state, client, registered, snap, avail, hub>>

\* update_availability(online = is_reachable of the fetched device).
InitialAvailability(t) ==
    /\ pc[t] = "setting"
    /\ Availability(cur[t], IF cur[t] \in snap[t] THEN "online" ELSE "offline")
    /\ NextDevice(t, todo[t], entities, registered)
    /\ UNCHANGED <<state, client, registered, snap, hub>>

\* _publish_initial_state() is done.
InitialStatePublished(t) ==
    /\ pc[t] = "publishing"
    /\ EndDiscovery(t)
    /\ UNCHANGED <<client, book, loop, ha, hub, disturbances>>

(***************************************************************************)
(* main: the wait loop, stop(), cancellation and shutdown                  *)
(***************************************************************************)

\* One turn of _run_until_stopped().
Poll ==
    /\ pc["main"] = "waiting"
    /\ IF IsTerminal(state)
       THEN BeginShutdown(state)
       ELSE UNCHANGED <<state, pc, stopEvent, todo>>
    /\ UNCHANGED <<mqtt, book, snap, cur, ha, hub, disturbances>>

\* The cancelled metrics task is gone.
MetricsEnded ==
    /\ pc["main"] = "endingMetrics"
    /\ MarkAllOffline
    /\ UNCHANGED <<state, mqtt, book, snap, cur, ha, hub, disturbances>>

\* SIGINT or SIGTERM: Orchestrator.stop().  The handlers are installed before
\* run() and can only run once main is suspended for the first time.
Stop ==
    /\ pc["main"] # "created"
    /\ CanTransition(state, "STOPPING")
    /\ state' = "STOPPING"
    /\ UNCHANGED <<pc, client, book, loop, ha, hub, disturbances>>

\* The caller of run() cancels it: run() logs it and shuts down.
Cancel ==
    /\ "cancel" \in Faults
    /\ pc["main"] \in {"connecting", "mqttBackoff", "waiting"} \union Discovering
    /\ BeginShutdown(state)
    /\ UNCHANGED <<mqtt, book, snap, cur, ha, hub, disturbances>>

\* ws.close() returns.
SocketClosed ==
    /\ pc["main"] = "stoppingWs"
    /\ link
    /\ link' = FALSE
    /\ UNCHANGED <<state, pc, client, book, loop, ha, wire, paired, reach, disturbances>>

\* Mutant: the connection loop is not cancelled.
WsStoppedWithoutCancel ==
    /\ pc["main"] = "stoppingWs"
    /\ ~link
    /\ Goto("main", "stoppingHa")
    /\ UNCHANGED <<state, client, book, loop, ha, hub, disturbances>>

\* The connection loop is cancelled and gone; HAClient.stop() disconnects.
WsStopped ==
    /\ pc["main"] = "stoppingWs"
    /\ ~link
    /\ pc' = [pc EXCEPT !["main"] = "stoppingHa",
                        !["ws"] = IF @ = "idle" THEN @ ELSE "done"]
    /\ UNCHANGED <<state, client, book, loop, ha, hub, disturbances>>

\* Mutant: the final transition is not guarded, so it fails in FAILED.
HaStoppedUnguarded ==
    /\ pc["main"] = "stoppingHa"
    /\ CanTransition(state, "STOPPED")
    /\ mqtt' = "absent"
    /\ state' = "STOPPED"
    /\ Goto("main", "done")
    /\ UNCHANGED <<stopEvent, book, loop, ha, hub, disturbances>>

\* Disconnected from the broker, REST session closed: STOPPED if legal.
HaStopped ==
    /\ pc["main"] = "stoppingHa"
    /\ mqtt' = "absent"
    /\ state' = TransitionIfValid(state, "STOPPED")
    /\ Goto("main", "done")
    /\ UNCHANGED <<stopEvent, book, loop, ha, hub, disturbances>>

(***************************************************************************)
(* either task: HAClient.set_all_offline(), one entity at a time           *)
(***************************************************************************)
Darken(t, d) ==
    /\ pc[t] = "darkening"
    /\ d \in todo[t]
    /\ Availability(d, "offline")
    /\ todo' = [todo EXCEPT ![t] = @ \ {d}]
    /\ IF todo[t] # {d} THEN UNCHANGED <<pc, stopEvent>>
       ELSE IF t = "main" THEN CallStopWs
       ELSE Goto("ws", AfterOutage) /\ UNCHANGED stopEvent
    /\ UNCHANGED <<state, mqtt, book, snap, cur, hub>>

(***************************************************************************)
(* ws: the connection loop and the event handlers                          *)
(***************************************************************************)

\* The backoff is over (the first attempt has none): dial, or leave the loop
\* if the service is stopping.
WsAttempt ==
    /\ pc["ws"] = "backoff"
    /\ Goto("ws", IF IsStopping(state) THEN "done" ELSE "opening")
    /\ UNCHANGED <<state, client, book, loop, ha, hub, disturbances>>

\* Mutant: back in RUNNING, but nothing is discovered again.
WsOpenedWithoutDiscovery ==
    /\ pc["ws"] = "opening"
    /\ link' = TRUE
    /\ state' = IF state = "RECONNECTING" THEN "RUNNING" ELSE state
    /\ Goto("ws", "listening")
    /\ UNCHANGED <<client, book, loop, ha, wire, paired, reach, disturbances>>

\* Mutant: discovers again without leaving RECONNECTING.
WsOpenedStillReconnecting ==
    /\ pc["ws"] = "opening"
    /\ link' = TRUE
    /\ Goto("ws", IF state = "RECONNECTING" THEN "fetching" ELSE "listening")
    /\ UNCHANGED <<state, client, book, loop, ha, wire, paired, reach, disturbances>>

\* The socket opens.  _on_dirigera_connected() acts only in RECONNECTING: it
\* enters RUNNING, then starts a new discovery.
WsOpened ==
    /\ pc["ws"] = "opening"
    /\ link' = TRUE
    /\ IF state = "RECONNECTING"
       THEN state' = "RUNNING" /\ Goto("ws", "fetching")
       ELSE Goto("ws", "listening") /\ UNCHANGED state
    /\ UNCHANGED <<client, book, loop, ha, wire, paired, reach, disturbances>>

InStartup == pc["main"] \in {"created", "connecting", "mqttBackoff"} \union Discovering

WsOpenFails ==
    /\ pc["ws"] = "opening"
    /\ InStartup => "startup_drop" \in Faults
    /\ Disconnected
    /\ UNCHANGED <<client, book, snap, cur, ha, paired, reach, disturbances>>

\* The listen loop ends: the socket is gone, or a message arrives after stop()
\* was called on the client, in which case the socket is closed.
WsListenEnds ==
    /\ pc["ws"] = "listening"
    /\ ~link \/ (stopEvent /\ wire # <<>>)
    /\ Disconnected
    /\ UNCHANGED <<client, book, snap, cur, ha, paired, reach, disturbances>>

\* The entities a handler finds for a message.  Entity ids are logical ids with
\* every dash replaced by an underscore; _on_device_removed() looks for the
\* logical id as it came, _set_device_availability() replaces first.
ToMark(m) == IF m.kind = "removed" THEN entities \ Dashed ELSE entities

\* Mutant: a new device is not discovered.
WsMessageIgnoresNew ==
    /\ pc["ws"] = "listening" /\ ~stopEvent /\ wire # <<>>
    /\ \/ /\ Head(wire).dev \in ToMark(Head(wire))
          /\ Goto("ws", "marking") /\ UNCHANGED wire
       \/ /\ Head(wire).dev \notin ToMark(Head(wire))
          /\ UNCHANGED pc /\ wire' = Tail(wire)
    /\ UNCHANGED <<state, client, book, loop, ha, link, paired, reach, disturbances>>

\* A message is taken from the socket.  "added" triggers a new discovery; the
\* others mark the device, if the handler finds its entity.
WsMessage ==
    /\ pc["ws"] = "listening" /\ ~stopEvent /\ wire # <<>>
    /\ \/ /\ Head(wire).kind = "added"
          /\ Goto("ws", "fetching") /\ wire' = Tail(wire)
       \/ /\ Head(wire).kind # "added"
          /\ Head(wire).dev \in ToMark(Head(wire))
          /\ Goto("ws", "marking") /\ UNCHANGED wire
       \/ /\ Head(wire).kind # "added"
          /\ Head(wire).dev \notin ToMark(Head(wire))
          /\ UNCHANGED pc /\ wire' = Tail(wire)
    /\ UNCHANGED <<state, client, book, loop, ha, link, paired, reach, disturbances>>

\* update_availability() for the message at the head of the wire returns.
WsMarked ==
    /\ pc["ws"] = "marking"
    /\ Availability(Head(wire).dev,
                    IF Head(wire).kind = "reachable" THEN "online" ELSE "offline")
    /\ wire' = Tail(wire)
    /\ Goto("ws", "listening")
    /\ UNCHANGED <<state, client, book, loop, link, paired, reach>>

(***************************************************************************)
(* the hub                                                                 *)
(***************************************************************************)

\* Startup is over when main waits and the connection loop has been connected,
\* or has reported that it is not.
Starting == InStartup \/ (state = "RUNNING" /\ pc["ws"] \in {"backoff", "opening"})

Send(kind, d) ==
    wire' = IF link THEN Append(wire, [kind |-> kind, dev |-> d]) ELSE wire

HubReachability(d) ==
    /\ d \in paired
    /\ Starting => "startup_event" \in Faults
    /\ Disturb
    /\ IF d \in reach
       THEN reach' = reach \ {d} /\ Send("unreachable", d)
       ELSE reach' = reach \union {d} /\ Send("reachable", d)
    /\ UNCHANGED <<state, pc, client, book, loop, ha, link, paired>>

HubPairs(d) ==
    /\ d \notin paired
    /\ Starting => "startup_event" \in Faults
    /\ Disturb
    /\ paired' = paired \union {d}
    /\ reach' = reach \union {d}
    /\ Send("added", d)
    /\ UNCHANGED <<state, pc, client, book, loop, ha, link>>

HubUnpairs(d) ==
    /\ d \in paired
    /\ Starting => "startup_event" \in Faults
    /\ Disturb
    /\ paired' = paired \ {d}
    /\ reach' = reach \ {d}
    /\ Send("removed", d)
    /\ UNCHANGED <<state, pc, client, book, loop, ha, link>>

HubDrops ==
    /\ link
    /\ InStartup => "startup_drop" \in Faults
    /\ Disturb
    /\ link' = FALSE
    /\ UNCHANGED <<state, pc, client, book, loop, ha, wire, paired, reach>>

-----------------------------------------------------------------------------
Terminated == pc["main"] = "done" /\ UNCHANGED vars

Discovery(t) ==
    \/ Fetched(t) \/ FetchFails(t)
    \/ Registered(t) \/ RegisterFails(t)
    \/ InitialAvailability(t) \/ InitialStatePublished(t)
Main ==
    \/ Startup \/ MqttConnected \/ MqttConnectFails \/ MqttRetry
    \/ Discovery("main")
    \/ Poll \/ MetricsEnded \/ SocketClosed \/ WsStopped \/ HaStopped
    \/ \E d \in Devices : Darken("main", d)
Ws ==
    \/ WsAttempt \/ WsOpened \/ WsOpenFails \/ WsListenEnds
    \/ WsMessage \/ WsMarked
    \/ Discovery("ws")
    \/ \E d \in Devices : Darken("ws", d)
Environment ==
    \/ Stop \/ Cancel \/ HubDrops
    \/ \E d \in Devices : HubReachability(d) \/ HubPairs(d) \/ HubUnpairs(d)

Next == Main \/ Ws \/ Environment \/ Terminated

\* The event loop runs every coroutine that can go on, and each awaited call
\* returns (aiohttp and websockets.connect() have timeouts, the backoff is
\* finite).  A broker and a hub that are dialled for ever do answer some day.
Fairness ==
    /\ WF_vars(Main) /\ WF_vars(Ws)
    /\ SF_vars(MqttConnected) /\ SF_vars(WsOpened)

Spec == Init /\ [][Next]_vars /\ Fairness

-----------------------------------------------------------------------------
TypeOK ==
    /\ state \in LifecycleStates
    /\ pc \in [Tasks -> MainPc \union WsPc]
    /\ pc["main"] \in MainPc /\ pc["ws"] \in WsPc
    /\ mqtt \in {"absent", "built", "connected"}
    /\ stopEvent \in BOOLEAN
    /\ entities \subseteq Devices /\ registered \subseteq Devices
    /\ todo \in [Tasks -> SUBSET Devices]
    /\ snap \in [Tasks -> SUBSET Devices]
    /\ cur \in [Tasks -> Devices \union {NoDevice}]
    /\ avail \in [Devices -> {"unknown", "online", "offline"}]
    /\ missed \subseteq Devices
    /\ link \in BOOLEAN
    /\ wire \in Seq(Message)
    /\ paired \subseteq Devices /\ reach \subseteq paired
    /\ disturbances \in 0..MaxDisturbances

\* What Home Assistant shows, as far as the bridge can know: nothing is known of
\* an entity whose latest publish failed.
Shown == [d \in Devices |-> IF d \in missed THEN "unknown" ELSE avail[d]]

\* An outage is over for every entity it found: once the loop waits for the hub
\* again, no device is shown online, whichever discovery or reachability handler
\* was cut short by the outage.
OutageAllOffline ==
    (state = "RECONNECTING" /\ pc["ws"] # "darkening")
        => \A d \in Devices : Shown[d] # "online"

\* RECONNECTING and an event handler of a live connection exclude each other, so
\* no message of the old connection is applied during the outage, and startup
\* never runs while the outage is handled.
OutageExclusive ==
    state = "RECONNECTING" =>
        /\ pc["ws"] \in {"darkening", "backoff", "opening"}
        /\ pc["main"] = "waiting"

\* run() returns only after both connections are closed and the connection loop
\* is gone, however startup, an outage or discovery was interrupted.
ShutdownComplete ==
    pc["main"] = "done" =>
        /\ state \in {"STOPPED", "FAILED"}
        /\ pc["ws"] \in {"idle", "done"}
        /\ ~link /\ mqtt = "absent"

\* When all is calm - both connections up, nothing left to handle, no publish
\* lost - Home Assistant shows every paired device with the reachability it has.
Calm ==
    /\ state = "RUNNING" /\ pc["main"] = "waiting"
    /\ pc["ws"] = "listening" /\ link /\ wire = <<>>
Accurate == \A d \in paired : avail[d] = IF d \in reach THEN "online" ELSE "offline"
CalmIsAccurate == (Calm /\ missed = {}) => Accurate

\* A device the hub no longer has is not shown online (DEVICE_REMOVED: "mark
\* offline").
RemovedOffline ==
    (Calm /\ missed = {}) => \A d \in entities \ paired : avail[d] = "offline"

\* When the service has stopped no device is left shown as online.
StoppedAllOffline ==
    (pc["main"] = "done" /\ missed = {}) => \A d \in Devices : avail[d] # "online"

\* Every outage ends: the devices are shown as they are again, or the service
\* is no longer active.
OutageRecovers ==
    state = "RECONNECTING" ~> (Calm /\ Accurate) \/ ~IsActive(state)

\* While the bridge runs, every device of the hub gets its entities, unless the
\* hub forgets it first: outages only delay it.
DevicesAppear ==
    \A d \in Devices :
        (state = "RUNNING" /\ d \in paired)
            ~> (d \in entities \/ d \notin paired \/ ~IsActive(state))

\* Startup never hangs: from the first connection attempt run() gets to its wait
\* loop or all the way to the end.
StartupEnds == pc["main"] = "connecting" ~> pc["main"] \in {"waiting", "done"}

\* A startup that failed always shuts down and lets run() return.
FailureEnds == state = "FAILED" ~> pc["main"] = "done"

\* stop() makes run() leave its wait loop and shut down.
GracefulStop == IsStopping(state) ~> pc["main"] = "done"

\* The bridge implements the contract of its lifecycle and of what it shows.
Contract == INSTANCE BridgeContract WITH shown <- Shown
ImplementsContract == Contract!Spec

-----------------------------------------------------------------------------
(***************************************************************************)
(* The inductive invariant behind the safety properties                    *)
(***************************************************************************)

\* Who owns what.  The service is active only while main waits; the socket is
\* open only while the connection loop uses it; stop() of the client is called
\* only by the shutdown; and main is the only one who ends the service.
Ownership ==
    /\ state = "CREATED" <=> pc["main"] = "created"
    /\ pc["main"] \in {"created", "connecting", "mqttBackoff"} => pc["ws"] = "idle"
    /\ IsActive(state) => pc["main"] = "waiting"
    /\ link => pc["ws"] \in Connected
    /\ stopEvent => pc["main"] \in {"stoppingWs", "stoppingHa", "done"}
    /\ pc["main"] \in {"endingMetrics", "darkening", "stoppingWs", "stoppingHa"} =>
           state \in {"STOPPING", "FAILED"}
    /\ state = "STOPPED" => pc["main"] = "done"
    /\ pc["main"] \in {"stoppingHa", "done"} =>
           pc["ws"] \in {"idle", "done"} /\ ~link

\* What a coroutine remembers across an await: the entity it is busy with is one
\* Home Assistant may be told about.
InFlight ==
    /\ \A t \in Tasks :
          /\ pc[t] = "registering" => cur[t] \in Devices
          /\ pc[t] = "setting" => cur[t] \in entities
    /\ pc["ws"] = "marking" =>
          wire # <<>> /\ Head(wire).dev \in entities

\* A device shown online has an entity; during an outage, one that is still to
\* be marked offline.
OnlineAccounted ==
    \A d \in Devices : Shown[d] = "online" =>
        /\ d \in entities
        /\ state = "RECONNECTING" => pc["ws"] = "darkening" /\ d \in todo["ws"]

IInv ==
    /\ TypeOK
    /\ Ownership
    /\ InFlight
    /\ OnlineAccounted
    /\ OutageExclusive
    /\ ShutdownComplete

-----------------------------------------------------------------------------
(***************************************************************************)
(* The inductive invariant behind CalmIsAccurate                           *)
(***************************************************************************)

\* What leaves a device shown wrongly and nothing that would set it right: a
\* discovery that fails, and what happens before the connection is up.
Unrepaired == {"rest", "startup_drop", "startup_event"}

\* Nobody has asked the service to stop, and it has not failed.
Live == state \notin {"STOPPING", "STOPPED", "FAILED"}

\* Home Assistant shows device d as it is, or its latest update failed.
Told(d) ==
    \/ d \in missed
    \/ d \in entities /\ avail[d] = IF d \in reach THEN "online" ELSE "offline"

\* The discovery of task t is going to set the availability of d, or it is told.
BeingTold(t, d) == pc[t] \in {"registering", "setting"} /\ (d \in todo[t] \/ cur[t] = d)
Settled(t, d) == IF BeingTold(t, d) THEN d \in snap[t] <=> d \in reach ELSE Told(d)

\* Startup has the hub to itself.
StartupQuiet ==
    (Live /\ InStartup) =>
        /\ pc["ws"] \in {"idle", "backoff", "opening", "listening"}
        /\ pc["main"] \in Discovering => pc["ws"] # "idle"
        /\ pc["ws"] = "listening" => link
        /\ wire = <<>>
        /\ pc["main"] \in {"registering", "setting", "publishing"} =>
              \A d \in paired : Settled("main", d)

\* Running without a connection is waiting for the first one, and nothing has
\* changed since startup; no message outlives its connection.
Unconnected ==
    /\ (state = "RUNNING" /\ pc["ws"] \notin Connected) =>
           /\ pc["ws"] \in {"backoff", "opening"} /\ wire = <<>>
           /\ \A d \in paired : Told(d)
    /\ state = "RECONNECTING" => wire = <<>>

\* The last message about a device is about what it is now.
Word(d) == IF d \in reach THEN {"reachable", "added"} ELSE {"unreachable"}
LastWord(d) ==
    \A k \in 1..Len(wire) :
        (wire[k].dev = d /\ \A j \in (k + 1)..Len(wire) : wire[j].dev # d)
            => wire[k].kind \in Word(d)

Mentioned(d) == \E k \in 1..Len(wire) : wire[k].dev = d
Known(d) == d \in entities \/ d \in missed \/ BeingTold("ws", d)

\* A discovery is due that will fetch the devices as they are then.
Due == pc["ws"] = "fetching" \/ \E k \in 1..Len(wire) : wire[k].kind = "added"

\* While the connection is up whatever Home Assistant does not show is on its way.
OnItsWay ==
    /\ pc["ws"] = "marking" => Head(wire).kind # "added"
    /\ (state = "RUNNING" /\ link) =>
           \A d \in paired :
               LastWord(d) /\ (Due \/ (Mentioned(d) /\ Known(d)) \/ Settled("ws", d))

CalmInv == StartupQuiet /\ Unconnected /\ OnItsWay
=============================================================================
