------------------------------ MODULE DeviceSync ------------------------------
(***************************************************************************)
(* How the state of one device gets from the hub to Home Assistant: the    *)
(* discovery that publishes a fetched device, the handlers of WebSocket    *)
(* messages, the state cache that suppresses repetitions, the refresh      *)
(* after a device comes back and the outage that marks it offline.         *)
(*                                                                         *)
(* main runs the discovery of startup, ws the connection loop with all     *)
(* event handlers in it (see Orchestrator).  An action is the code between *)
(* two awaits: an attribute the dedup suppresses, or that has no entity,   *)
(* costs no await, so one action may run past several of them.  Startup    *)
(* that fails, and the shutdown, are the subject of Orchestrator.          *)
(***************************************************************************)
EXTENDS Integers, SequencesExt

CONSTANTS
    Kinds,              \* the kinds of device there are (see below)
    Values,             \* what an attribute can be
    FirstValue,         \* what every attribute is at first
    None,               \* no value, entity or attribute
    Faults,             \* which kinds of trouble the environment may cause
    MaxDisturbances,    \* bound on the number of hub changes and faults
    MaxEarly            \* how many may have been when the hub changes in startup

\* A kind of device is a record:
\* attributes   its attributes, as the hub lists them
\* entities     its entities, as device_mapper lists them
\* entityOf     the entity an attribute is mapped to by state_mapper, or None
\* snapshots    the entities whose payload has all their attributes (light)
Attributes == UNION {Range(k.attributes) : k \in Kinds}
Entities == UNION {Range(k.entities) : k \in Kinds}
Reported == Attributes \union {"isReachable"}

\* rest         a REST request fails
\* mqtt         a publish or a registration fails
\* silent_loss  the device goes out of reach and no message of it is handled
FaultKinds == {"rest", "mqtt", "silent_loss"}

ASSUME DeviceSyncAssumption ==
    /\ \A k \in Kinds :
          /\ k.attributes \in Seq(Attributes) /\ IsInjective(k.attributes)
          /\ k.entities \in Seq(Entities) /\ IsInjective(k.entities)
          /\ DOMAIN k.entityOf = Range(k.attributes) \union {"isReachable"}
          /\ Range(k.entityOf) \subseteq Range(k.entities) \union {None}
          /\ k.snapshots \subseteq Range(k.entities)
    \* isReachable is a field beside the attributes of a device, and an entity id
    \* is never the name of an attribute.
    /\ "isReachable" \notin Attributes /\ Entities \intersect Reported = {}
    /\ FirstValue \in Values
    /\ None \notin Values /\ None \notin BOOLEAN
    /\ None \notin Entities /\ None \notin Reported
    /\ Faults \subseteq FaultKinds
    /\ MaxDisturbances \in Nat /\ MaxEarly \in Nat

VARIABLES
    kind,               \* the hub: the kind of the device, which never changes,
    value, reach,       \* its attributes and its reachability
    link, wire,         \* the WebSocket is open; messages not yet taken
    cache,              \* StateCache
    entities,           \* Orchestrator._entities, in the order of insertion
    lastReachable,      \* Orchestrator._last_reachable of the device
    avail, shown,       \* Home Assistant: availability and published values
    missed,             \* entities and attributes whose latest update failed
    blind,              \* the device changed and the bridge could not learn of it
    pc,                 \* where each task is suspended
    todo,               \* entities left to register or to mark offline
    snap,               \* the device as get_devices() returned it
    items,              \* attribute changes left to process
    out,                \* payload of the state publish in flight
    msg, mark,          \* ws: the message it handles; the entity loop in it
    disturbances        \* hub changes and faults so far

hub == <<kind, value, reach, link, wire>>
book == <<entities, lastReachable>>
ha == <<avail, shown, missed>>
task == <<todo, snap, items, out>>
handler == <<msg, mark>>
vars == <<hub, blind, cache, book, ha, pc, task, handler, disturbances>>

Tasks == {"main", "ws"}
MainPc == {"fetching", "registering", "setting", "publishing", "waiting"}
WsPc == {"connecting", "listening", "marking", "reporting", "refreshing", "publishing",
         "darkening", "opening", "fetching", "registering", "setting"}
Device == [reach : BOOLEAN, value : [Range(kind.attributes) -> Values]]
Message == [reach : {"up", "down", "none"}, attr : Attributes \union {None},
            value : Values \union {None}]
Item == [attr : Reported, value : Values \union BOOLEAN, force : BOOLEAN]

NoLoop == [next |-> 0, size |-> 0]
NoMessage == [reach |-> "none", attr |-> None, value |-> None]
ThisDevice == [reach |-> reach, value |-> value]

Init ==
    /\ kind \in Kinds /\ reach \in BOOLEAN
    /\ value = [a \in Range(kind.attributes) |-> FirstValue]
    /\ link = FALSE /\ wire = <<>>
    /\ cache = [a \in DOMAIN kind.entityOf |-> None]
    /\ entities = <<>> /\ lastReachable = None
    /\ avail = [e \in Range(kind.entities) |-> None]
    /\ shown = [a \in DOMAIN kind.entityOf |-> None]
    /\ missed = {} /\ blind = FALSE
    /\ pc = [t \in Tasks |-> IF t = "main" THEN "fetching" ELSE "connecting"]
    /\ todo = [t \in Tasks |-> <<>>]
    /\ snap = [t \in Tasks |-> None]
    /\ items = [t \in Tasks |-> <<>>]
    /\ out = [t \in Tasks |-> <<>>]
    /\ msg = NoMessage /\ mark = NoLoop
    /\ disturbances = 0

-----------------------------------------------------------------------------
(***************************************************************************)
(* Attribute changes                                                       *)
(***************************************************************************)

\* The attributes that are shown by some entity, and by entity e.
Mapped == {a \in DOMAIN kind.entityOf : kind.entityOf[a] # None}
AttributesOf(e) == {a \in DOMAIN kind.entityOf : kind.entityOf[a] = e}

Goto(t, label) == pc' = [pc EXCEPT ![t] = label]

Disturb ==
    /\ disturbances < MaxDisturbances
    /\ disturbances' = disturbances + 1

\* StateCache.set() for the first n items of its, one after the other: the last
\* value of an attribute stays.
CacheAfter(c, its, n) ==
    [a \in DOMAIN c |->
        LET set == {k \in 1..n : its[k].attr = a}
        IN IF set = {} THEN c[a] ELSE its[Max(set)].value]

\* _process_attribute_change() of item n publishes: the value is new to the
\* cache or forced, and the attribute is mapped to an entity that is registered.
Publishes(c, its, n, known) ==
    /\ kind.entityOf[its[n].attr] \in Range(known)
    /\ its[n].force \/ CacheAfter(c, its, n - 1)[its[n].attr] # its[n].value

\* What map_state() makes of the item: the value, or for a light all values of
\* the cache, which has the new one already.
Payload(c, i) ==
    LET e == kind.entityOf[i.attr]
    IN IF e \in kind.snapshots
       THEN [a \in {b \in AttributesOf(e) : c[b] # None} |-> c[a]]
       ELSE [a \in {i.attr} |-> i.value]

\* Process its from cache c up to the first publish, which is awaited; with none
\* the task is done: startup waits, a handler goes back to the listen loop.
Process(t, c, its, known, label) ==
    LET sending == {n \in 1..Len(its) : Publishes(c, its, n, known)}
        first == CHOOSE n \in sending : \A k \in sending : n <= k
    IN IF sending = {}
       THEN /\ cache' = CacheAfter(c, its, Len(its))
            /\ items' = [items EXCEPT ![t] = <<>>]
            /\ out' = [out EXCEPT ![t] = <<>>]
            /\ Goto(t, IF t = "main" THEN "waiting" ELSE "listening")
       ELSE /\ cache' = CacheAfter(c, its, first)
            /\ items' = [items EXCEPT ![t] = SubSeq(its, first + 1, Len(its))]
            /\ out' = [out EXCEPT ![t] = Payload(CacheAfter(c, its, first), its[first])]
            /\ Goto(t, label)

\* Mutant: the attributes of a fetched device go through the ordinary dedup.
AttributeItemsDeduped(dev) ==
    [n \in 1..Len(kind.attributes) |->
        [attr |-> kind.attributes[n], value |-> dev.value[kind.attributes[n]],
         force |-> FALSE]]

\* The attributes of a fetched device, which are published whatever the cache
\* says of them.
AttributeItems(dev) ==
    [n \in 1..Len(kind.attributes) |->
        [attr |-> kind.attributes[n], value |-> dev.value[kind.attributes[n]],
         force |-> TRUE]]

DeviceItems(dev) ==
    <<[attr |-> "isReachable", value |-> dev.reach, force |-> TRUE]>>
        \o AttributeItems(dev)

\* The attribute a message carries, if any.
MessageItems(m) ==
    IF m.attr = None THEN <<>>
    ELSE <<[attr |-> m.attr, value |-> m.value, force |-> FALSE]>>

\* The state publish in flight ends: Home Assistant has the payload, or the
\* error is logged.
StatePublish(t) ==
    \/ /\ shown' = [a \in DOMAIN shown |->
                       IF a \in DOMAIN out[t] THEN out[t][a] ELSE shown[a]]
       /\ missed' = missed \ DOMAIN out[t]
       /\ UNCHANGED disturbances
    \/ /\ "mqtt" \in Faults /\ Disturb
       /\ missed' = missed \union DOMAIN out[t]
       /\ UNCHANGED shown

\* update_availability() ends, in one way or the other.
AvailabilityPublish(e, online) ==
    \/ /\ avail' = [avail EXCEPT ![e] = online]
       /\ missed' = missed \ {e}
       /\ UNCHANGED disturbances
    \/ /\ "mqtt" \in Faults /\ Disturb
       /\ missed' = missed \union {e}
       /\ UNCHANGED avail

-----------------------------------------------------------------------------
(***************************************************************************)
(* either task: discovery                                                  *)
(***************************************************************************)

\* Mutant: the entities are registered again at every discovery.
NextEntityAlways(t, rest, known, dev) ==
    IF rest = <<>>
    THEN /\ todo' = [todo EXCEPT ![t] = <<>>]
         /\ snap' = [snap EXCEPT ![t] = None]
         /\ Process(t, cache, DeviceItems(dev), known, "publishing")
    ELSE /\ todo' = [todo EXCEPT ![t] = rest]
         /\ snap' = [snap EXCEPT ![t] = dev]
         /\ Goto(t, "registering")
         /\ UNCHANGED <<cache, items, out>>

\* The registration loop goes on with rest.  An entity of the discovery cache is
\* not registered again.  After the last one the device is published.
NextEntity(t, rest, known, dev) ==
    IF rest = <<>>
    THEN /\ todo' = [todo EXCEPT ![t] = <<>>]
         /\ snap' = [snap EXCEPT ![t] = None]
         /\ Process(t, cache, DeviceItems(dev), known, "publishing")
    ELSE /\ todo' = [todo EXCEPT ![t] = rest]
         /\ snap' = [snap EXCEPT ![t] = dev]
         /\ Goto(t, IF Head(rest) \in Range(known) THEN "setting" ELSE "registering")
         /\ UNCHANGED <<cache, items, out>>

Fetched(t) ==
    /\ pc[t] = "fetching"
    /\ NextEntity(t, kind.entities, entities, ThisDevice)
    /\ UNCHANGED <<hub, blind, book, ha, handler, disturbances>>

\* get_devices() fails in a handler: the error is logged.
FetchFails ==
    /\ pc["ws"] = "fetching"
    /\ "rest" \in Faults /\ Disturb
    /\ missed' = DOMAIN avail \union Mapped /\ blind' = TRUE
    /\ Goto("ws", "listening")
    /\ UNCHANGED <<hub, cache, book, avail, shown, task, handler>>

Registered(t) ==
    /\ pc[t] = "registering"
    /\ entities' = Append(entities, Head(todo[t]))
    /\ Goto(t, "setting")
    /\ UNCHANGED <<hub, blind, cache, lastReachable, ha, task, handler, disturbances>>

RegisterFails(t) ==
    /\ pc[t] = "registering"
    /\ "mqtt" \in Faults /\ Disturb
    /\ missed' = missed \union {Head(todo[t])} \union AttributesOf(Head(todo[t]))
    /\ NextEntity(t, Tail(todo[t]), entities, snap[t])
    /\ UNCHANGED <<hub, blind, book, avail, shown, handler>>

\* The initial availability is what the device list said.
InitialAvailability(t) ==
    /\ pc[t] = "setting"
    /\ AvailabilityPublish(Head(todo[t]), snap[t].reach)
    /\ NextEntity(t, Tail(todo[t]), entities, snap[t])
    /\ UNCHANGED <<hub, blind, book, shown, handler>>

\* A state publish of the initial state, or of a handler, ends.
Published(t) ==
    /\ pc[t] = "publishing"
    /\ StatePublish(t)
    /\ Process(t, cache, items[t], entities, "publishing")
    /\ UNCHANGED <<hub, blind, book, avail, todo, snap, handler>>

\* The wait loop of run().
Poll == pc["main"] = "waiting" /\ UNCHANGED vars

-----------------------------------------------------------------------------
(***************************************************************************)
(* ws: messages                                                            *)
(***************************************************************************)

\* Mutant: the loss of reachability is not remembered.
EdgeKeepsLast(m, c) ==
    /\ lastReachable' = IF m.reach = "up" THEN TRUE ELSE lastReachable
    /\ IF m.reach = "up" /\ lastReachable # TRUE
       THEN /\ Goto("ws", "refreshing") /\ cache' = c /\ msg' = m
            /\ UNCHANGED <<items, out>>
       ELSE /\ Process("ws", c, MessageItems(m), entities, "publishing")
            /\ msg' = NoMessage

\* The end of a reachability handler, from cache c: a device that was not known
\* to be reachable is fetched; otherwise the attribute of the message is next.
Edge(m, c) ==
    /\ lastReachable' = (m.reach = "up")
    /\ IF m.reach = "up" /\ lastReachable # TRUE
       THEN /\ Goto("ws", "refreshing") /\ cache' = c /\ msg' = m
            /\ UNCHANGED <<items, out>>
       ELSE /\ Process("ws", c, MessageItems(m), entities, "publishing")
            /\ msg' = NoMessage

\* All entities are marked: isReachable is processed as an ordinary attribute.
Report(m) ==
    LET its == <<[attr |-> "isReachable", value |-> m.reach = "up", force |-> FALSE]>>
    IN IF Publishes(cache, its, 1, entities)
       THEN /\ Process("ws", cache, its, entities, "reporting")
            /\ msg' = m /\ UNCHANGED lastReachable
       ELSE Edge(m, CacheAfter(cache, its, 1))

\* A message is taken.  Reachability comes before the attribute, and starts with
\* a loop over the entity table.
TakeMessage ==
    LET m == Head(wire) IN
    /\ pc["ws"] = "listening"
    /\ link /\ wire # <<>>
    /\ wire' = Tail(wire)
    /\ \/ /\ m.reach = "none"
          /\ Process("ws", cache, MessageItems(m), entities, "publishing")
          /\ UNCHANGED <<lastReachable, handler>>
       \/ /\ m.reach # "none" /\ entities = <<>>
          /\ Report(m)
          /\ UNCHANGED mark
       \/ /\ m.reach # "none" /\ entities # <<>>
          /\ msg' = m /\ mark' = [next |-> 1, size |-> Len(entities)]
          /\ Goto("ws", "marking")
          /\ UNCHANGED <<lastReachable, cache, items, out>>
    /\ UNCHANGED <<kind, value, reach, link, blind, entities, ha, todo, snap, disturbances>>

\* update_availability() in that loop ends.  If the table has grown meanwhile the
\* loop raises RuntimeError, which ends the handler and is logged by the event
\* bus; the attribute of the message is still dispatched.
Marked ==
    /\ pc["ws"] = "marking"
    /\ AvailabilityPublish(entities[mark.next], msg.reach = "up")
    /\ \/ /\ Len(entities) # mark.size
          /\ Process("ws", cache, MessageItems(msg), entities, "publishing")
          /\ msg' = NoMessage /\ mark' = NoLoop
          /\ UNCHANGED lastReachable
       \/ /\ Len(entities) = mark.size /\ mark.next = mark.size
          /\ Report(msg)
          /\ mark' = NoLoop
       \/ /\ Len(entities) = mark.size /\ mark.next < mark.size
          /\ mark' = [mark EXCEPT !.next = @ + 1]
          /\ UNCHANGED <<lastReachable, cache, pc, items, out, msg>>
    /\ UNCHANGED <<hub, blind, entities, shown, todo, snap>>

\* The publish of isReachable ends.
ReportedReach ==
    /\ pc["ws"] = "reporting"
    /\ StatePublish("ws")
    /\ Edge(msg, cache)
    /\ UNCHANGED <<hub, blind, entities, avail, todo, snap, mark>>

\* get_device() answers: all attributes of the device, then that of the message.
Refreshed ==
    /\ pc["ws"] = "refreshing"
    /\ Process("ws", cache, AttributeItems(ThisDevice) \o MessageItems(msg),
               entities, "publishing")
    /\ msg' = NoMessage
    /\ UNCHANGED <<hub, blind, book, ha, todo, snap, mark, disturbances>>

RefreshFails ==
    /\ pc["ws"] = "refreshing"
    /\ "rest" \in Faults /\ Disturb
    /\ missed' = missed \union (DOMAIN value \intersect Mapped) /\ blind' = TRUE
    /\ Process("ws", cache, MessageItems(msg), entities, "publishing")
    /\ msg' = NoMessage
    /\ UNCHANGED <<hub, book, avail, shown, todo, snap, mark>>

-----------------------------------------------------------------------------
(***************************************************************************)
(* ws: connection and outage                                               *)
(***************************************************************************)

\* The first connection only listens; a reconnect discovers again.
Opened ==
    /\ pc["ws"] \in {"connecting", "opening"}
    /\ link' = TRUE
    /\ Goto("ws", IF pc["ws"] = "opening" THEN "fetching" ELSE "listening")
    /\ UNCHANGED <<kind, value, reach, wire, blind, cache, book, ha, task, handler, disturbances>>

\* The listen loop ends: the messages of the old connection are gone, and the
\* entities are marked offline one by one.
ListenEnds ==
    /\ pc["ws"] = "listening"
    /\ ~link
    /\ wire' = <<>>
    /\ todo' = [todo EXCEPT !["ws"] = entities]
    /\ Goto("ws", IF entities = <<>> THEN "opening" ELSE "darkening")
    /\ UNCHANGED <<kind, value, reach, link, blind, cache, book, ha, snap, items, out,
                   handler, disturbances>>

Darkened ==
    /\ pc["ws"] = "darkening"
    /\ AvailabilityPublish(Head(todo["ws"]), FALSE)
    /\ todo' = [todo EXCEPT !["ws"] = Tail(@)]
    /\ IF Len(todo["ws"]) = 1 THEN Goto("ws", "opening") ELSE UNCHANGED pc
    /\ UNCHANGED <<hub, blind, cache, book, shown, snap, items, out, handler>>

-----------------------------------------------------------------------------
(***************************************************************************)
(* the hub                                                                 *)
(***************************************************************************)

Starting == pc["main"] # "waiting" \/ pc["ws"] = "connecting"

Send(r, a, v) ==
    wire' = IF link THEN Append(wire, [reach |-> r, attr |-> a, value |-> v]) ELSE wire

HubStep ==
    /\ Starting => disturbances < MaxEarly
    /\ blind' = (blind \/ Starting)
    /\ Disturb
    /\ UNCHANGED <<kind, link, cache, book, ha, pc, task, handler>>

\* An attribute changes; isReachable may ride along with the message.
HubChanges(a, v) ==
    /\ reach /\ a \in DOMAIN value /\ value[a] # v
    /\ value' = [value EXCEPT ![a] = v]
    /\ \E r \in {"up", "none"} : Send(r, a, v)
    /\ HubStep /\ UNCHANGED reach

HubLoses ==
    /\ reach
    /\ link \/ "silent_loss" \in Faults
    /\ reach' = FALSE
    /\ Send("down", None, None)
    /\ HubStep /\ UNCHANGED value

\* The device is back, in a state the hub sends no message of.
HubReturns(now) ==
    /\ ~reach
    /\ reach' = TRUE /\ value' = now
    /\ Send("up", None, None)
    /\ HubStep

\* The connection drops (after startup; for one that drops earlier see
\* Orchestrator).
HubDrops ==
    /\ link /\ ~Starting
    /\ "silent_loss" \in Faults \/ \A n \in DOMAIN wire : wire[n].reach # "down"
    /\ Disturb
    /\ link' = FALSE
    /\ UNCHANGED <<kind, value, reach, wire, blind, cache, book, ha, pc, task, handler>>

-----------------------------------------------------------------------------
Discovery(t) ==
    \/ Fetched(t) \/ Registered(t) \/ RegisterFails(t)
    \/ InitialAvailability(t) \/ Published(t)
Main == Discovery("main") \/ Poll
Ws ==
    \/ Discovery("ws") \/ FetchFails
    \/ TakeMessage \/ Marked \/ ReportedReach \/ Refreshed \/ RefreshFails
    \/ Opened \/ ListenEnds \/ Darkened
Hub ==
    \/ \E a \in Attributes, v \in Values : HubChanges(a, v)
    \/ HubLoses
    \/ \E now \in [DOMAIN value -> Values] : HubReturns(now)
    \/ HubDrops

Next == Main \/ Ws \/ Hub

\* Every awaited call ends, and the hub accepts a connection some day.
Spec == Init /\ [][Next]_vars /\ WF_vars(Discovery("main")) /\ WF_vars(Ws)

-----------------------------------------------------------------------------
TypeOK ==
    /\ kind \in Kinds /\ ThisDevice \in Device /\ link \in BOOLEAN /\ wire \in Seq(Message)
    /\ cache \in [DOMAIN kind.entityOf -> Values \union BOOLEAN \union {None}]
    /\ entities \in Seq(Entities) /\ IsInjective(entities)
    /\ lastReachable \in BOOLEAN \union {None}
    /\ avail \in [Range(kind.entities) -> BOOLEAN \union {None}]
    /\ shown \in [DOMAIN kind.entityOf -> Values \union BOOLEAN \union {None}]
    /\ missed \subseteq DOMAIN avail \union Mapped /\ blind \in BOOLEAN
    /\ pc \in [Tasks -> MainPc \union WsPc]
    /\ pc["main"] \in MainPc /\ pc["ws"] \in WsPc
    /\ todo \in [Tasks -> Seq(Entities)]
    /\ snap \in [Tasks -> Device \union {None}]
    /\ items \in [Tasks -> Seq(Item)]
    /\ DOMAIN out = Tasks
    /\ \A t \in Tasks : DOMAIN out[t] \subseteq Mapped
    /\ msg \in Message /\ mark \in [next : Nat, size : Nat]
    /\ mark.next <= mark.size /\ mark.size <= Len(entities)
    /\ disturbances \in 0..MaxDisturbances

Calm ==
    /\ pc["main"] = "waiting" /\ pc["ws"] = "listening"
    /\ link /\ wire = <<>>

Accurate ==
    /\ \A e \in Range(entities) \ missed : avail[e] = reach
    /\ \A a \in DOMAIN shown \ missed :
          kind.entityOf[a] \in Range(entities) =>
              shown[a] = IF a = "isReachable" THEN reach ELSE value[a]

\* When all is calm, every entity and every attribute of the device whose latest
\* update did not fail is shown as it is, although the cache suppressed updates,
\* the device came back in a state the hub sent no message of, and earlier
\* publishes were lost.
CalmIsAccurate == (Calm /\ ~blind) => Accurate

\* Failed publishes, failed refreshes and changes during startup leave nothing
\* behind an outage: if nothing more goes wrong or changes (the bound on it is
\* reached), the discovery after it publishes every entity and attribute as it is.
OutageRepairs ==
    (pc["ws"] = "darkening" /\ disturbances = MaxDisturbances)
        ~> (Calm /\ missed = {} /\ Accurate)

-----------------------------------------------------------------------------
(***************************************************************************)
(* The inductive invariant behind TypeOK                                   *)
(***************************************************************************)

\* The connection loop discovers only after an outage, and there is none before
\* startup is over: the two tasks never register at the same time.
Solo ==
    /\ pc["ws"] \in {"opening", "fetching", "registering", "setting", "darkening"}
           => pc["main"] = "waiting"
    /\ pc["ws"] \in {"connecting", "opening", "darkening"} => ~link /\ wire = <<>>
    /\ ~link => pc["ws"] = "connecting" \/ pc["main"] = "waiting"

\* What a loop has left to do, and the message it is busy with.
InLoop ==
    /\ Range(entities) \subseteq Range(kind.entities)
    /\ \A t \in Tasks :
          /\ Range(todo[t]) \subseteq Range(kind.entities)
          /\ pc[t] \in {"registering", "setting"} => todo[t] # <<>> /\ snap[t] \in Device
          /\ pc[t] = "registering" => Head(todo[t]) \notin Range(entities)
          /\ pc[t] # "publishing" => items[t] = <<>>
    /\ pc["ws"] = "darkening" => todo["ws"] # <<>>
    /\ pc["ws"] = "marking" => mark.next > 0
    /\ pc["ws"] \in {"marking", "reporting"} => msg.reach # "none"
    /\ pc["ws"] = "refreshing" => msg.reach = "up"

\* Messages, items and payloads are about the attributes of this device.
About(m) == m.attr = None \/ (m.attr \in DOMAIN value /\ m.value \in Values)
Spoken ==
    /\ \A n \in 1..Len(wire) : About(wire[n])
    /\ About(msg)
    /\ \A t \in Tasks :
          /\ \A n \in 1..Len(items[t]) : items[t][n].attr \in DOMAIN kind.entityOf
          /\ \A a \in DOMAIN out[t] : out[t][a] \in Values \union BOOLEAN

TypeInv == TypeOK /\ Solo /\ InLoop /\ Spoken

-----------------------------------------------------------------------------
(***************************************************************************)
(* The inductive invariant behind CalmIsAccurate                           *)
(***************************************************************************)

\* The task that brings the device to Home Assistant, and what the cache will be
\* when it has processed its items.
Doing == IF pc["main"] = "waiting" THEN "ws" ELSE "main"
Pending == CacheAfter(cache, items[Doing], Len(items[Doing]))
Registering == pc[Doing] \in {"registering", "setting"}

\* The messages not yet dealt with, the one being handled first.
Busy == pc["ws"] \in {"marking", "reporting", "refreshing"}
Coming == IF Busy THEN <<msg>> \o wire ELSE wire
ReachComing == \E n \in 1..Len(wire) : wire[n].reach # "none"

\* Of messages q: after the first n the device goes away and comes back, and will
\* be fetched then; it will be fetched if last is what lastReachable is before q.
Later(q, n) ==
    \E j, k \in 1..Len(q) : n < j /\ j < k /\ q[j].reach = "down" /\ q[k].reach = "up"
Due(q, last) ==
    Later(q, 0) \/ (last # TRUE /\ \E k \in 1..Len(q) : q[k].reach = "up")

\* The last thing q says of reachability, or lastReachable if it says nothing, is
\* that the device is gone, and a device that is gone says nothing more.
LossHeard(q, last) ==
    /\ \/ \E n \in 1..Len(q) : /\ q[n].reach = "down"
                               /\ \A k \in 1..Len(q) : k > n => q[k].reach = "none"
       \/ last # TRUE /\ \A n \in 1..Len(q) : q[n].reach = "none"
    /\ \A n \in 1..Len(q) :
          q[n].attr # None => \E k \in 1..Len(q) : k > n /\ q[k].reach = "down"

\* Whenever q says that the device is gone it says later that it is back; the last
\* value q has for attribute a is v, unless the device is fetched after it.
ReturnHeard(q) ==
    \A n \in 1..Len(q) :
        q[n].reach = "down" => \E k \in 1..Len(q) : k > n /\ q[k].reach = "up"
Mentions(q, a) == \E n \in 1..Len(q) : q[n].attr = a
LastOf(q, a, n) == q[n].attr = a /\ \A k \in 1..Len(q) : k > n => q[k].attr # a
Said(q, a, v) ==
    \A n \in 1..Len(q) : LastOf(q, a, n) => q[n].value = v \/ Later(q, n)

\* Until startup is over the hub is quiet.
QuietStartup ==
    pc["main"] # "waiting" =>
        /\ pc["ws"] \in {"connecting", "listening"} /\ wire = <<>>
        /\ pc["ws"] = "listening" => link

\* A connection that was not lost brings everything that is new: what is not on
\* its way, or is fetched, is what the bridge has or is about to have.
Watching == link \/ pc["ws"] = "connecting"
Kept(a) ==
    \/ Mentions(Coming, a)
    \/ pc["ws"] = "refreshing" \/ Due(Coming, lastReachable)
    \/ pc[Doing] = "fetching"
    \/ IF Registering THEN snap[Doing].value[a] = value[a] ELSE Pending[a] = value[a]
ReachKept ==
    \/ ReachComing \/ pc["ws"] = "marking"
    \/ pc[Doing] = "fetching"
    \/ IF Registering THEN snap[Doing].reach = reach ELSE Pending["isReachable"] = reach
Marks(e) ==
    \/ e \in missed \/ avail[e] = reach
    \/ ReachComing
    \/ pc["ws"] = "marking" /\ \E n \in mark.next..Len(entities) : entities[n] = e
    \/ pc[Doing] = "fetching"
    \/ Registering /\ e \in Range(todo[Doing])

\* What is shown is what the cache has, or is being published or forced.
Forced(its, a) == \E n \in 1..Len(its) : its[n].attr = a /\ its[n].force
InFlight == pc[Doing] \in {"publishing", "reporting"}
Shows(a) ==
    \/ a \in missed \/ shown[a] = cache[a]
    \/ InFlight /\ a \in DOMAIN out[Doing]
    \/ Forced(items[Doing], a)
    \/ Registering

CalmInv ==
    ~blind =>
        /\ QuietStartup
        /\ ~reach => LossHeard(Coming, lastReachable)
        /\ ~link => \A n \in 1..Len(wire) : wire[n].reach # "down"
        /\ pc["ws"] = "marking" => mark.size = Len(entities)
        /\ Watching =>
              /\ reach => ReturnHeard(Coming)
              /\ ReachKept
              /\ \A a \in DOMAIN value : Said(Coming, a, value[a]) /\ Kept(a)
              /\ \A e \in Range(entities) : Marks(e)
        /\ InFlight => \A a \in DOMAIN out[Doing] : out[Doing][a] = cache[a]
        /\ \A a \in Mapped : kind.entityOf[a] \in Range(entities) => Shows(a)
=============================================================================
