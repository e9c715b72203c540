------------------------------ MODULE Commands ------------------------------
(***************************************************************************)
(* Commands of Home Assistant, on top of the mapping layer: the callback   *)
(* that HAClient wraps maps the payload and has the REST client send it as *)
(* one PATCH, or as two when the power is set together with something      *)
(* else, because the hub drops the rest of such a request.                 *)
(*                                                                         *)
(* The SDK runs callbacks as they come, so commands may overlap.  A PATCH  *)
(* that times out may have reached the hub, and may reach it later still.  *)
(***************************************************************************)
EXTENDS DeviceMapping, CommandMapper, FiniteSets

CONSTANTS
    Vocabulary,         \* the payloads Home Assistant may send to each unit
    MaxInFlight,        \* bound on the commands in flight
    MaxCommands         \* bound on the commands sent

ASSUME CommandsAssumption == MaxInFlight \in Nat /\ MaxCommands \in Nat

\* A track to skip to is no state of the speaker.
Momentary == {"playbackNext", "playbackPrevious"}

\* Home Assistant asks of a unit only what the unit has.
ASSUME VocabularyAssumption ==
    \A h \in Homes : \A i \in DOMAIN h : \A p \in Vocabulary[h[i].id] :
        LET attrs == MapCommand(h[i].type, p)
        IN attrs # None => \A a \in DOMAIN attrs :
              (a = "playback" /\ attrs[a] \in Momentary) \/ a \in DOMAIN h[i].attrs

Slots == 1..MaxInFlight

VARIABLES
    flight,             \* the commands whose callback is suspended, by slot
    late,               \* PATCHes given up that may reach the hub yet
    sure,               \* the last command of a unit, if it alone did all it asked
    commands            \* commands sent so far

net == <<flight, late>>
vars == <<mapping, net, sure, commands>>
devices == <<home, hub, wire, fetched, cache, entities, todo, shown>>

\* A command in flight: its unit and payload, the PATCHes left to send or to be
\* answered, whether the hub has the first of them, and whether nothing else
\* happened to the unit since it was sent.
Idle == [unit |-> None, payload |-> None, left |-> <<>>, there |-> FALSE, alone |-> FALSE]

CommandsInit ==
    /\ Init
    /\ flight = [s \in Slots |-> Idle]
    /\ late = {}
    /\ sure = [u \in Units |-> None]
    /\ commands = 0

\* Something else happens to unit u.
Disturbed(f, u) == [s \in Slots |-> IF f[s].unit = u THEN [f[s] EXCEPT !.alone = FALSE] ELSE f[s]]

Only(attrs, keys) == [a \in DOMAIN attrs \intersect keys |-> attrs[a]]

\* Mutant: everything is sent in one request.
PatchesUnsplit(attrs) == <<attrs>>

\* send_command(): the power goes first and alone.
Patches(attrs) ==
    IF "isOn" \in DOMAIN attrs /\ Cardinality(DOMAIN attrs) > 1
    THEN <<Only(attrs, {"isOn"}), Only(attrs, DOMAIN attrs \ {"isOn"})>>
    ELSE <<attrs>>

\* A command arrives and takes the first free slot; one that is not understood is dropped.
Command(s, u, p) ==
    /\ commands < MaxCommands /\ commands' = commands + 1 /\ Disturb
    /\ flight[s] = Idle /\ \A r \in Slots : r < s => flight[r] # Idle
    /\ p \in Vocabulary[u]
    /\ \E e \in entities : e[1] = u
    /\ LET attrs == MapCommand(TypeOf(u), p)
           others == {r \in Slots : flight[r].unit = u} \union {l \in late : l.unit = u}
       IN IF attrs = None THEN UNCHANGED <<flight, sure>>
          ELSE /\ flight' = [Disturbed(flight, u) EXCEPT ![s] =
                                [unit |-> u, payload |-> p, left |-> Patches(attrs),
                                 there |-> FALSE, alone |-> others = {}]]
               /\ sure' = [sure EXCEPT ![u] = None]
    /\ UNCHANGED <<devices, late>>

Goes(s) == flight[s] # Idle

-----------------------------------------------------------------------------
(***************************************************************************)
(* Requests                                                                *)
(***************************************************************************)

\* What the hub does with a PATCH.
HubPatches(u, attrs) ==
    LET heeded == IF "isOn" \in DOMAIN attrs THEN Only(attrs, {"isOn"}) ELSE attrs
        lasting == {a \in DOMAIN heeded : a = "playback" => heeded[a] \notin Momentary}
    IN /\ HubSets(u, Only(heeded, lasting))
       /\ UNCHANGED <<home, fetched, cache, entities, todo, shown, disturbances>>

\* The hub gets the PATCH in flight.
PatchArrives(s) ==
    /\ Goes(s) /\ ~ flight[s].there
    /\ HubPatches(flight[s].unit, Head(flight[s].left))
    /\ flight' = [flight EXCEPT ![s].there = TRUE]
    /\ UNCHANGED <<late, sure, commands>>

\* It answers, and the callback sends the next or is done.
PatchAnswered(s) ==
    /\ Goes(s) /\ flight[s].there
    /\ LET f == flight[s]
       IN IF Len(f.left) > 1
          THEN /\ flight' = [flight EXCEPT ![s] = [f EXCEPT !.left = Tail(@), !.there = FALSE]]
               /\ UNCHANGED sure
          ELSE /\ flight' = [flight EXCEPT ![s] = Idle]
               /\ sure' = IF f.alone THEN [sure EXCEPT ![f.unit] = f.payload] ELSE sure
    /\ UNCHANGED <<mapping, late, commands>>

\* The request fails, or its answer gets lost: the callback logs it and ends, what
\* was to follow is not sent.
PatchFails(s) ==
    /\ Goes(s) /\ Disturb
    /\ flight' = [flight EXCEPT ![s] = Idle]
    /\ UNCHANGED <<devices, late, sure, commands>>

\* It times out on its way.
PatchTimesOut(s) ==
    /\ Goes(s) /\ ~ flight[s].there
    /\ Disturb
    /\ late' = late \union {[unit |-> flight[s].unit, attrs |-> Head(flight[s].left)]}
    /\ flight' = [Disturbed(flight, flight[s].unit) EXCEPT ![s] = Idle]
    /\ UNCHANGED <<devices, sure, commands>>

\* A PATCH that was given up reaches the hub.
PatchLate(l) ==
    /\ l \in late /\ late' = late \ {l}
    /\ HubPatches(l.unit, l.attrs)
    /\ flight' = Disturbed(flight, l.unit)
    /\ sure' = [sure EXCEPT ![l.unit] = None]
    /\ UNCHANGED commands

\* The unit changes by itself or by hand.
ByHand(u) ==
    /\ \E a \in DOMAIN Values : HubChanges(u, a)
    /\ flight' = Disturbed(flight, u)
    /\ sure' = [sure EXCEPT ![u] = None]
    /\ UNCHANGED <<late, commands>>

Bridge ==
    /\ Discover \/ PublishInitial \/ Receive
    /\ UNCHANGED <<net, sure, commands>>

Callback(s) == PatchArrives(s) \/ PatchAnswered(s)

Next ==
    \/ Bridge
    \/ \E u \in Units : ByHand(u) \/ \E s \in Slots, p \in Vocabulary[u] : Command(s, u, p)
    \/ \E s \in Slots : Callback(s) \/ PatchFails(s) \/ PatchTimesOut(s)
    \/ \E l \in late : PatchLate(l)

\* The bridge handles what there is, and a request is answered or times out.
Fairness ==
    /\ WF_vars((PublishInitial \/ Receive) /\ UNCHANGED <<net, sure, commands>>)
    /\ \A s \in Slots : WF_vars(Callback(s))

Spec == CommandsInit /\ [][Next]_vars /\ Fairness
-----------------------------------------------------------------------------
(***************************************************************************)
(* Conditions on homes, under which more is proved than without            *)
(***************************************************************************)

\* The speed of a purifier may be set to one that has no name.
CustomSpeed == "fanMode" \in DOMAIN Values /\ "customSpeed" \in Values["fanMode"]

\* The unit lists what the entities live on that its handler makes in any case.
Sated(type, attrs) ==
    /\ type = "motionSensor" => "isDetected" \in DOMAIN attrs
    /\ type = "waterSensor" => "waterLeakDetected" \in DOMAIN attrs
    /\ type = "lightSensor" => Given(attrs, "illuminance")
    /\ type \in {"blind", "blinds"} =>
          Given(attrs, "currentLevel") \/ Given(attrs, "blindsCurrentLevel")
    /\ type = "airPurifier" =>
          \/ Given(attrs, "motorSpeed")
          \/ /\ "fanMode" \in DOMAIN attrs /\ attrs["fanMode"] # "customSpeed"
             /\ ~ CustomSpeed
    /\ type = "speaker" => "playback" \in DOMAIN attrs /\ Given(attrs, "volume")

\* Those of them that must not be null.
Essential == {"illuminance", "currentLevel", "blindsCurrentLevel", "motorSpeed", "volume"}

\* All units of all homes list them, and they do not become null.
Equipped ==
    /\ \A h \in Homes : \A i \in DOMAIN h : Sated(h[i].type, h[i].attrs)
    /\ \A a \in Essential \intersect DOMAIN Values : None \notin Values[a]

\* A value the state mapper does not drop.
Publishable(a, v) ==
    /\ v # None
    /\ a = "fanMode" => v # "customSpeed"
    /\ a = "colorTemperature" => v > 0

\* All that the hub may change to can be published.
Steady ==
    /\ \A h \in Homes : \A i \in DOMAIN h :
          /\ "isReachable" \notin DOMAIN h[i].attrs
          /\ \A p \in Vocabulary[h[i].id] :
                LET attrs == MapCommand(h[i].type, p)
                IN attrs # None => \A a \in DOMAIN attrs : Publishable(a, attrs[a])
    /\ \A a \in DOMAIN Values : \A v \in Values[a] : Publishable(a, v)

\* What Home Assistant sends is a payload: a word, a number or the fields of a light.
Commandable ==
    \A h \in Homes : \A i \in DOMAIN h : \A p \in Vocabulary[h[i].id] :
        /\ p = <<p[1], p[2]>> /\ p[1] \in {"word", "number", "object"}
        /\ p[1] = "object" => IsLightPayload(p[2])

-----------------------------------------------------------------------------
(***************************************************************************)
(* Properties                                                              *)
(***************************************************************************)
TypeOK ==
    /\ home \in Homes
    /\ \A u \in Units : DOMAIN hub[u] = DOMAIN Unit(u).attrs
    /\ DOMAIN cache = Units /\ DOMAIN fetched = Units
    /\ \A e \in entities : e[1] \in Units
    /\ DOMAIN shown \subseteq entities
    /\ \A i \in Range(wire) \union Range(todo) : i.unit \in Units
    /\ \A s \in Slots : Goes(s) =>
          /\ flight[s].unit \in Units /\ Len(flight[s].left) \in 1..2
          /\ flight[s].payload \in Vocabulary[flight[s].unit]
    /\ \A u \in Units : sure[u] # None => sure[u] \in Vocabulary[u]
    /\ commands \in 0..MaxCommands
    /\ disturbances \in 0..MaxDisturbances

\* What a command that nobody disturbed asked for is what the hub has when its
\* callback is done, all of it: a light does not stay at its old brightness.
DoneIsApplied ==
    \A u \in Units : sure[u] # None =>
        LET attrs == MapCommand(TypeOf(u), sure[u])
        IN \A a \in DOMAIN attrs :
              (a = "playback" /\ attrs[a] \in Momentary) \/ hub[u][a] = attrs[a]

ShownAs(u, suffix) == IF <<u, suffix>> \in DOMAIN shown THEN shown[<<u, suffix>>] ELSE Word("")

Field(u, k, v) ==
    LET p == ShownAs(u, Main)
    IN p[1] = "object" /\ k \in DOMAIN p[2] /\ p[2][k] = v

\* Two speeds for which the hub has the same name.
SameSpeed(m, n) == (m = 0 <=> n = 0) /\ (m \in 1..33 <=> n \in 1..33) /\ (m > 66 <=> n > 66)
Speed(u, n) == \E m \in 0..100 : ShownAs(u, Main) = Number(m) /\ SameSpeed(m, n)

\* Home Assistant shows what command p asked of unit u: the fields of a light, a
\* position as it was asked for, the speed of a fan as far as the hub names it.
Shows(u, p) ==
    LET type == TypeOf(u)
    IN CASE type = "light" ->
              /\ p[1] = "word" => Field(u, "state", p[2])
              /\ p[1] = "number" => Field(u, "brightness", p[2])
              /\ p[1] = "object" => \A k \in DOMAIN p[2] : Field(u, k, p[2][k])
         [] type \in {"outlet", "switch"} -> ShownAs(u, Main) = p
         [] type \in {"blind", "blinds"} ->
              ShownAs(u, Main) = CASE IsWord(p, "OPEN") -> Number(100)
                                 [] IsWord(p, "CLOSE") -> Number(0)
                                 [] OTHER -> p
         [] type = "airPurifier" ->
              CASE IsWord(p, "ON") -> ~ Speed(u, 0)
                [] IsWord(p, "OFF") -> Speed(u, 0)
                [] IsWord(p, "auto") -> ShownAs(u, Main) = p
                [] OTHER -> Speed(u, p[2])
         [] type = "speaker" ->
              /\ p[1] = "number" => ShownAs(u, "volume") = p
              /\ p \in {Word("ON"), Word("OFF")} => ShownAs(u, "power") = p

\* The way there and the way back agree: the command mapper and the state mapper,
\* which translate in opposite directions, undo each other, so that Home Assistant
\* ends up showing what it asked for - unless a second attribute feeds the entity,
\* which may be published last.
Echoed(u) == sure[u] # None => Contested(<<u, Main>>) \/ Shows(u, sure[u])

Echo == Quiet => \A u \in Units : Echoed(u)

\* What an undisturbed command asked for gets shown, time and again: no message of
\* the hub is left lying.
EchoComes == []<>(\A u \in Units : Echoed(u))
=============================================================================
