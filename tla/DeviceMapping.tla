--------------------------- MODULE DeviceMapping ---------------------------
(***************************************************************************)
(* The mapping layer at work: the hub lists the units of its devices, the  *)
(* bridge groups them, registers the entities the handlers make of them    *)
(* and publishes their attributes, first as fetched and then as the hub    *)
(* reports them.                                                           *)
(*                                                                         *)
(* One task does it all, as the connection loop does after a reconnect and *)
(* for DEVICE_DISCOVERED: messages that arrive meanwhile wait.  Two tasks  *)
(* are the subject of Registration and DeviceSync, as are requests and     *)
(* publishes that fail.  Registration itself is one step here.             *)
(***************************************************************************)
EXTENDS DomainHandlers, SequencesExt

CONSTANTS
    Homes,              \* the units a hub may list, in its order (see below)
    Values,             \* the values an attribute may change to
    MaxDisturbances     \* bound on all that happens to the mapping layer

\* A unit is a record:
\* id, relation     its logical id; the id it shares with the device's others, or None
\* type             deviceType
\* attrs            its attributes
\* extra            the names of those without a field in DirigeraAttributes, in the
\*                  hub's order

\* The attributes with a field, which are null when the hub does not list them.
Typed == [isOn |-> None, batteryPercentage |-> None, otaStatus |-> None, firmwareVersion |-> ""]

\* The hub lists each unit once, and each attribute of it.
ASSUME DeviceMappingAssumption ==
    /\ \A h \in Homes :
          /\ h \in Seq(Range(h))
          /\ \A i \in DOMAIN h :
                /\ h[i].extra \in Seq(DOMAIN h[i].attrs)
                /\ Range(h[i].extra) = DOMAIN h[i].attrs \ DOMAIN Typed
          /\ \A i, j \in DOMAIN h : i # j => h[i].id # h[j].id
    /\ MaxDisturbances \in Nat

\* A battery level is a percentage; a pair that lists one lists it on both its units,
\* the same.
ASSUME BatteryAssumption ==
    /\ \A h \in Homes : \A i \in DOMAIN h : "batteryPercentage" \in DOMAIN h[i].attrs =>
          /\ h[i].attrs["batteryPercentage"] \in 0..100
          /\ h[i].type = "environmentSensor" /\ ~ OwnsBattery(h[i].id) =>
                \E j \in DOMAIN h :
                    /\ h[j].id = <<h[i].id[1], 1>> /\ h[j].type = h[i].type
                    /\ h[j].relation = h[i].relation /\ h[i].relation # None
                    /\ "batteryPercentage" \in DOMAIN h[j].attrs
                    /\ h[j].attrs["batteryPercentage"] = h[i].attrs["batteryPercentage"]
    /\ "batteryPercentage" \in DOMAIN Values => Values["batteryPercentage"] \subseteq 0..100

VARIABLES
    home,               \* the units the hub has
    hub, wire,          \* their attributes; the changes the bridge has not taken
    fetched,            \* the attributes as the last discovery fetched them
    cache,              \* StateCache
    entities,           \* Orchestrator._entities
    todo,               \* attributes left to publish of those fetched
    shown,              \* Home Assistant: the payload each entity got last
    disturbances        \* hub changes, repeated discoveries, commands and failures so far

mapping == <<home, hub, wire, fetched, cache, entities, todo, shown, disturbances>>

Units == {home[i].id : i \in DOMAIN home}
Unit(u) == home[CHOOSE i \in DOMAIN home : home[i].id = u]
TypeOf(u) == Unit(u).type

-----------------------------------------------------------------------------
(***************************************************************************)
(* Grouping                                                                *)
(***************************************************************************)
PhysicalId(d) == IF d.relation = None THEN d.id ELSE d.relation

\* raw_attributes: the extra attributes as the hub lists them, then the fields.
RawAttributes(attrs) ==
    [a \in DOMAIN attrs \union DOMAIN Typed |-> IF a \in DOMAIN attrs THEN attrs[a] ELSE Typed[a]]
RawOrder(d) == d.extra \o <<"firmwareVersion", "isOn", "batteryPercentage", "otaStatus">>

-----------------------------------------------------------------------------
(***************************************************************************)
(* Discovery                                                               *)
(***************************************************************************)
NoCache == [u \in Units |-> [a \in {} |-> None]]

Init ==
    /\ home \in Homes
    /\ hub = [u \in Units |-> Unit(u).attrs]
    /\ wire = <<>> /\ fetched = NoCache
    /\ cache = NoCache
    /\ entities = {} /\ todo = <<>>
    /\ shown = [e \in {} |-> None]
    /\ disturbances = 0

Disturb ==
    /\ disturbances < MaxDisturbances
    /\ disturbances' = disturbances + 1

\* _publish_initial_state(): reachability first, then all attributes of each unit.
Items(d) ==
    LET order == RawOrder(d)
        attrs == RawAttributes(hub[d.id])
    IN <<[unit |-> d.id, attr |-> "isReachable", value |-> TRUE]>>
       \o [i \in DOMAIN order |->
              [unit |-> d.id, attr |-> order[i], value |-> attrs[order[i]]]]

\* The devices are fetched, and the entities of all registered that are not yet.
Discover ==
    /\ todo = <<>>
    /\ IF entities = {} THEN UNCHANGED disturbances ELSE Disturb
    /\ fetched' = [u \in Units |-> RawAttributes(hub[u])]
    /\ entities' = entities \union
                      UNION {MapDevice(TypeOf(u), u, RawAttributes(hub[u])) : u \in Units}
    /\ todo' = FlattenSeq([i \in DOMAIN home |-> Items(home[i])])
    /\ UNCHANGED <<home, hub, wire, cache, shown>>

-----------------------------------------------------------------------------
(***************************************************************************)
(* Attribute changes                                                       *)
(***************************************************************************)
Put(f, k, v) == [x \in DOMAIN f \union {k} |-> IF x = k THEN v ELSE f[x]]

\* Mutant: what the cache has heard of once is old news.
ChangedOnce(i) == i.attr \notin DOMAIN cache[i.unit]

\* StateCache.set()
Changed(i) == ~ (i.attr \in DOMAIN cache[i.unit] /\ cache[i.unit][i.attr] = i.value)

\* A state, of an entity that is registered and has a topic for it.
Receivable(state) ==
    /\ state # None /\ state.entity \in entities
    /\ HasStateTopic(TypeOf(state.entity[1]), state.entity[2])

\* Mutant: the cache learns of the value only after it is mapped.
ProcessCacheLast(i, force) ==
    LET state == MapState(TypeOf(i.unit), i.unit, i.attr, i.value, cache[i.unit])
    IN /\ cache' = [cache EXCEPT ![i.unit] = Put(@, i.attr, i.value)]
       /\ shown' = IF (force \/ Changed(i)) /\ Receivable(state)
                   THEN Put(shown, state.entity, state.payload) ELSE shown

\* Mutant: it is not asked whether there is such an entity.
ProcessUnregistered(i, force) ==
    LET attrs == Put(cache[i.unit], i.attr, i.value)
        state == MapState(TypeOf(i.unit), i.unit, i.attr, i.value, attrs)
    IN /\ cache' = [cache EXCEPT ![i.unit] = attrs]
       /\ shown' = IF (force \/ Changed(i)) /\ state # None
                   THEN Put(shown, state.entity, state.payload) ELSE shown

\* _process_attribute_change(): the cache has the new value when it is mapped.
Process(i, force) ==
    LET attrs == Put(cache[i.unit], i.attr, i.value)
        state == MapState(TypeOf(i.unit), i.unit, i.attr, i.value, attrs)
    IN /\ cache' = [cache EXCEPT ![i.unit] = attrs]
       /\ shown' = IF (force \/ Changed(i)) /\ Receivable(state)
                   THEN Put(shown, state.entity, state.payload) ELSE shown

PublishInitial ==
    /\ todo # <<>>
    /\ Process(Head(todo), TRUE)
    /\ todo' = Tail(todo)
    /\ UNCHANGED <<home, hub, wire, fetched, entities, disturbances>>

Receive ==
    /\ todo = <<>> /\ wire # <<>>
    /\ Process(Head(wire), FALSE)
    /\ wire' = Tail(wire)
    /\ UNCHANGED <<home, hub, fetched, entities, todo, disturbances>>

-----------------------------------------------------------------------------
(***************************************************************************)
(* The hub                                                                 *)
(***************************************************************************)

\* The units that report a change: all that have the battery of the device.
Reporters(u, a) ==
    IF a = "batteryPercentage"
    THEN {w \in Units : PhysicalId(Unit(w)) = PhysicalId(Unit(u)) /\ a \in DOMAIN hub[w]}
    ELSE {u}

\* Attributes of u get new values; each that is another is reported.
HubSets(u, new) ==
    LET news == {a \in DOMAIN new : hub[u][a] # new[a]}
        reports(a) == {[unit |-> w, attr |-> a, value |-> new[a]] : w \in Reporters(u, a)}
    IN /\ hub' = [w \in Units |-> [a \in DOMAIN hub[w] |->
                    IF a \in news /\ w \in Reporters(u, a) THEN new[a] ELSE hub[w][a]]]
       /\ wire' = wire \o SetToSeq(UNION {reports(a) : a \in news})

HubChanges(u, a) ==
    /\ entities # {} /\ Disturb
    /\ a \in DOMAIN hub[u] \intersect DOMAIN Values
    /\ \E v \in Values[a] \ {hub[u][a]} : HubSets(u, [b \in {a} |-> v])
    /\ UNCHANGED <<home, fetched, cache, entities, todo, shown>>

-----------------------------------------------------------------------------
(***************************************************************************)
(* Properties                                                              *)
(***************************************************************************)
Quiet == todo = <<>> /\ wire = <<>> /\ entities # {}

StateOf(u, a) ==
    LET attrs == Put(RawAttributes(hub[u]), "isReachable", TRUE)
    IN MapState(TypeOf(u), u, a, attrs[a], attrs)

Feeds(u) == DOMAIN RawAttributes(hub[u]) \union {"isReachable"}

\* Nothing the hub knew of a unit when it was discovered gets lost for want of an
\* entity: the handlers of the domains and the state mapper, which know nothing of
\* each other, agree on what there is.
Delivered ==
    \A u \in Units : \A a \in DOMAIN fetched[u] :
        LET state == MapState(TypeOf(u), u, a, fetched[u][a], fetched[u])
        IN fetched[u][a] # None /\ state # None => state.entity \in entities

\* No entity stays without a state, but those that can have none, and the battery of
\* a light sensor, which the state mapper does not know.
Fed ==
    todo = <<>> => \A e \in entities :
        \/ ~ HasStateTopic(TypeOf(e[1]), e[2])
        \/ TypeOf(e[1]) = "lightSensor" /\ e[2] = "battery"
        \/ e \in DOMAIN shown

\* Two attributes of the unit feed the entity: the mode of a fan and the speed of its
\* motor, or the level of a blind under both its names.
Contested(e) ==
    LET type == TypeOf(e[1])
        attrs == DOMAIN hub[e[1]]
    IN /\ e[2] = Main
       /\ \/ type = "airPurifier" /\ {"fanMode", "motorSpeed"} \subseteq attrs
          \/ type \in {"blind", "blinds"} /\ {"currentLevel", "blindsCurrentLevel"} \subseteq attrs

\* What the attributes that feed entity e say now.
Voices(e) ==
    {StateOf(f[1], f[2]).payload :
        f \in {f \in UNION {{u} \X Feeds(u) : u \in Units} :
                  StateOf(f[1], f[2]) # None /\ StateOf(f[1], f[2]).entity = e}}

\* When all is reported and handled, an entity shows what the hub says now: all that
\* feeds it says the same, and this is shown.  A contested entity shows the attribute
\* that was published last; of that nothing is claimed.
Accurate ==
    Quiet => \A e \in DOMAIN shown : Contested(e) \/ Voices(e) = {shown[e]}
=============================================================================
