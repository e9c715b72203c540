# Verification of Dirigera-Bridge

Dirigera-Bridge connects an IKEA Dirigera hub to Home Assistant: it reads devices
over REST, hears of changes over a WebSocket, and publishes entities, their
availability and their state over MQTT. This directory holds TLA+ modules of the
parts of it that are hard to test - one asyncio event loop with several tasks, two
connections that come and go, caches that decide what is published - the TLC runs
that check them on small instances, and TLAPS proofs of what matters most.

Paths below are relative to `dirigera_bridge/` unless they start with `README.md`.

## 1. Inventory of the system

Everything runs in one asyncio event loop. Between two `await`s nothing else runs;
at every `await` anything else may.

| Component | State | Operations | Hard about it |
|---|---|---|---|
| lifecycle (`core/lifecycle.py`) | state, history, `started_at`, callback list | `transition`, `register_callback`, `unregister_callback`, delivery | callbacks run in tasks of their own, while others transition, register and unregister |
| orchestrator (`orchestrator.py`) | `_entities`, `_last_reachable`; everything else through its parts | `run`, `stop`, startup, discovery, handlers of seven events, shutdown | startup and the event handlers interleave at every await; outages interrupt discovery |
| WebSocket client (`dirigera/websocket_client.py`) | `_ws`, `_stop_event`, the loop task and the ping task | `connect`, `stop`, connection loop, ping loop, dispatch | cancellation at any await, some of it swallowed; half-open sockets; retries for ever |
| Home Assistant client (`ha/ha_client.py`) | the MQTT manager, `_stop_event` | `connect`, `stop`, `register_entity`, `update_*`, `set_all_offline` | broker unavailable; a publish that fails; a check before an await used after it |
| REST client (`dirigera/rest_client.py`) | a session | `get_devices`, `get_device`, `send_command` | requests that fail; one command sent as two PATCHes |
| state cache (`core/state_cache.py`) | attribute values per device | `set`, `get_device_state` | written before the publish it suppresses repetitions of |
| discovery cache (`core/discovery_cache.py`) | two indexes of registered entities | `register`, `unregister`, `is_registered` | two indexes that must agree |
| event bus (`core/event_bus.py`) | subscriptions | `subscribe`, `publish` | handlers are awaited by the publisher; an exception is logged, not raised |
| retry (`core/retry.py`) | attempt number of each loop | `retry_with_backoff`, `calculate_delay` | unbounded attempt numbers, a stop event during the sleep |
| mapping (`mapping/`) | none: tables, and the grouping of units into devices | device, state and command mapping, domain handlers | four modules that must agree on ids, suffixes and attributes; conversions in opposite directions |
| models, configuration, errors, metrics, entry point | none that controls anything | parsing, counters, composition, signals | - |

How they interact:

    main.py --signal--> Orchestrator.stop()
    Orchestrator.run(): startup -> wait loop -> shutdown          (task "main")
        ha_client.connect(), ws_client.connect(), get_devices(), register_entity() ...
    ws connection loop  --event_bus.publish()--> Orchestrator handlers (task "ws")
        handlers await REST and MQTT, and are awaited by the connection loop
    ping task           --ws.close()--> connection loop
    SDK                 --command callback--> map_command(), send_command()
                          (one task per command; they overlap)
    lifecycle           --callbacks, each delivery a task of its own--> whoever registered

So there are two tasks that discover devices, write `_entities` and publish: `main`
until startup is over, and `ws`, from the moment startup calls
`ws_client.connect()`. An event is handled to its end before the next message is
read, but startup runs between any two awaits of a handler.

What makes each component correct:

- lifecycle: the history is a path of the transition table, nobody is active again
  after a stop, every callback hears each transition it is due once and in order;
- orchestrator: no device is online during an outage; when all is calm Home
  Assistant shows what the hub has; startup ends; the shutdown leaves nothing
  behind;
- one device: neither deduplication nor lost publishes, refreshes and outages leave
  a value in Home Assistant that the hub does not have;
- registration: the entity table, both indexes of the cache and the SDK tell one
  story at every await, and a rediscovery repairs what failed;
- mapping: whatever is published has an entity and whatever entity can have a state
  gets one; what a command asks for is what the state that follows shows;
- commands: one that nothing interferes with is applied as a whole;
- WebSocket client: each announced connection is revoked, a vanished peer is
  noticed, `stop()` returns with both tasks over, and (short of the
  overflow below) nothing else ends the loop.

Every hazard found in the code, with its line and the properties that would catch
it, is in `PROJECT.json` under `hazards`.

## 2. Modules

| Module | Models | Specification |
|---|---|---|
| `Lifecycle` | the states and the transition table, shared by all | operators only |
| `LifecycleContract` | what a lifecycle promises | abstract |
| `ServiceLifecycle` | class `ServiceLifecycle`: history, `started_at`, callbacks, delivery tasks | implements `LifecycleContract` |
| `BridgeContract` | what the bridge promises to whoever looks from Home Assistant | abstract |
| `Orchestrator` | startup, discovery, availability, outages, shutdown, with the two connections | implements `BridgeContract` |
| `DeviceSync` | the attributes of one device on their way from the hub to Home Assistant | |
| `WebSocketClient` | connection loop, ping task and `stop()` | |
| `DiscoveryContract` | one table of registered ids, with right answers | abstract |
| `DiscoveryCache` | both indexes of class `DiscoveryCache` | operations only |
| `Registration` | two tasks that register, and remove, the entities of all devices | implements `DiscoveryContract` |
| `StateMapper` | `map_state()`: an attribute to entity and payload, for every type | pure |
| `CommandMapper` | `map_command()`: a payload to attributes and values | pure |
| `DomainHandlers` | `map_device()`: a unit to its entities; registry and handlers | pure |
| `DeviceMapping` | grouping, discovery and attribute changes of whole homes, on top of the three | |
| `Commands` | commands and their PATCHes, composed with `DeviceMapping` | |
| `MCOrchestrator`, `MCDeviceSync`, `MCRegistration`, `MCCommands` | model values for TLC | |
| `*_proofs` | theorems about the module they are named for | |
| `ExtremaLemmas` | least and greatest elements of sets of numbers | lemmas only |

An action is the code between two awaits of one task; `pc[t]` names the await task
`t` is suspended in. So what a handler computes before an await and uses after it is
in a variable (`cur`, `snap`, `todo`, `mark`, `msg`, `out`), and everything else is
read again.

`Orchestrator`, `DeviceSync` and `Commands` end with what their proofs need and TLC can
evaluate: inductive invariants, or conditions on the constants. They are checked there
before they are used.

**ServiceLifecycle.** `Transition` is `transition()`: it checks the table, appends
to the history, sets `started_at` the first time RUNNING is entered, and makes one
delivery for each callback that is registered then (`_fire_callbacks()` gets to its
`gather` without giving up the event loop); `Deliver` is the oldest of these tasks, which
is delivered also when its callback has been unregistered meanwhile. A `Transition` that the table forbids
raises and changes nothing.

**Orchestrator.** `main` goes through `created, connecting, mqttBackoff, fetching,
registering, setting, publishing, waiting, endingMetrics, darkening, stoppingWs, stoppingHa,
done` (a shutdown that begins before the end of startup has no metrics task to wait
for);
`ws` through `idle, connecting, listening, ... , darkening, backoff, opening, done`.
`avail` is the retained availability the broker holds of each entity, `missed` the
entities whose latest publish failed, `wire` the messages the hub has sent and `ws`
has not handled. `Fetched` ... `InitialStatePublished` are the discovery, which both
tasks run. `WsOpened`, `WsListenEnds`, `WsMessage`, `WsMarked` are the connection
loop with the handlers of its events. `Dashed` are devices whose logical id contains
a dash, which tell apart the two spellings of an id that registration and removal
use. A device has one entity, which is enough for everything but the loop over
`_entities`; that loop, and the attributes, are in `DeviceSync`.

**DeviceSync.** One device, of one of the `Kinds` that differ in what the mapping
makes of them: a light has one entity that shows all its attributes, a speaker
several entities with one attribute each, one of them for `isReachable`. `Process`
runs the attribute changes a handler still has to make, up to the next publish that
is really made: a change that the cache suppresses, or that has no entity, costs no
await. `Payload` is what `map_state()` makes of a change: the value, or for a light
a snapshot of all cached attributes. `Marked` is the loop over the live entity
table, which raises `RuntimeError` if startup has registered an entity meanwhile.
Two history variables say what cannot be expected: `missed` (entities and attributes
whose latest update failed) and `blind` (the device changed and the bridge had no
way to learn of it: startup had not read it yet or a request failed).

**WebSocketClient.** `loop`, `ping` and `caller` are the places of the connection
loop, of the ping task and of the orchestrator in `stop()`; `sock` is the socket of
the moment, `half` when the peer is gone without closing it. `CancelLoop` is the
cancellation of the loop task: it ends it at the await it is in, runs the `finally`
branch where there is one, and is swallowed while the loop awaits the ping task it
has cancelled itself (`contextlib.suppress`). `attempt` counts as
`retry_with_backoff()` does; `FloatExponents` is the exponent at which `multiplier
** n` overflows (1024).

**Registration.** `register_entity()` with nothing left out of its order: the look
into the cache (`Proceed`), the await of the SDK (`announcing`), the record in the
cache and in `_entities` (`Announced`) or the failure that leaves neither
(`AnnounceFails`), and the availability that follows (`AvailabilitySet`). `main` does
it once, `ws` whenever a device is announced or removed (`Rediscover`, `Removed`).
`DiscoveryCache` keeps its two dictionaries as `byLogical` and `byRelation`; in the
code nothing keeps them together but that every id is registered with one relation.
`Uses` is that set of pairs. `accepted` counts how often the SDK was told of an entity.
`removed` is a history variable, the entities whose device was removed and which have not
been registered since: `OneStory` lets them be missing from the cache, as a removal is
to take them out, although in the code it never does (section 3).

**StateMapper, CommandMapper, DomainHandlers.** The tables of `mapping/`, one
operator per function of the code, for all sixteen device types. An id is a pair of a
name and the number of the unit, a unique id a pair of an id and a suffix, a payload
is tagged word, number or object. Values are converted as the code does it: `Round`
is Python's `round()`, to even at a half; null raises where `int()` raises and is
printed where `str()` prints it; a saturation is counted in thousandths. A handler is
a record: the suffixes it always makes, those it makes for an attribute that is not
null, and whether it makes a battery entity. Texts, icons and units of measurement
are left out.

**DeviceMapping.** The three at work on a whole home. A unit is what the hub lists:
id, relation, type, attributes in their order. `Discover`
fetches all and registers their entities; `PublishInitial` publishes one attribute of
what was fetched, `isReachable` first and the typed attributes last, in the order in
which `raw_attributes` has them; `Receive` takes a change. `Process` is
`_process_attribute_change()`: cache, map, look whether there is the entity and whether
it has a topic for its state (`Receivable`), publish. Events and buttons have none
(`HasStateTopic`), which is what the docstring of `get_state_topic()` says; the topics
themselves are made by the SDK, outside the repository.
One task does all of it here, and registration is one step: the interleavings are the
subject of `Registration` and `DeviceSync`.

**Commands.** `Command` is the callback of the SDK up to the first request;
`PatchArrives` and `PatchAnswered` are a PATCH at the hub and its answer, after which
the callback sends the second or ends. `PatchFails` is a refusal or a lost answer, and
`PatchTimesOut` leaves a request behind that may arrive any time later (`PatchLate`).
The hub ignores what comes with `isOn`, for which `send_command()` splits its
requests. `sure` remembers the command of a unit that ended without anything else
happening to that unit; it is what a user may expect something of.

## 3. Runs

Passing runs. All bounds are constants in the `.cfg` files or guards of environment
actions (`MaxDisturbances`, `MaxTroubles`, `MaxTransitions`, `MaxEarly`).

| Run | Instance | Shows |
|---|---|---|
| `service_lifecycle` | 2 callbacks, 3 transitions, all initial states | path, no return, callbacks heard once and in order (a delivery waits for nobody; three transitions let two deliveries be pending while a third is made); implements `LifecycleContract` |
| `orchestrator_faults` | 2 devices (one with a dash), 2 disturbances among hub changes, REST and MQTT failures, a socket lost in startup, events in startup, cancellation | `OutageAllOffline`, `OutageExclusive`, `ShutdownComplete`, `StartupEnds`, `FailureEnds`; implements `BridgeContract` |
| `orchestrator_calm` | 2 devices, 3 disturbances after startup, no failures | `CalmIsAccurate`, `OutageRecovers`, `DevicesAppear` |
| `device_sync` | a light (two attributes in one payload) or a speaker (volume, and a reachability sensor), 3 disturbances (1 of them in startup), REST and MQTT failures | `CalmIsAccurate`, `OutageRepairs` |
| `websocket_client` | 5 failures, overflow at exponent 3 | the safety and liveness of the client; five failures pass the overflow, which needs four |
| `registration` | 2 devices, one with 2 entities; 4 disturbances (hub changes, failed requests and registrations, rediscoveries) | `OneStory`, `RegisteredOncePerTask`, `RediscoveryRepairs`; the cache implements `DiscoveryContract` |
| `commands` | 14 homes, which together have every type of device, pairs with a shared battery, null and missing attributes and an unknown type; 2 commands, both in flight at once, and 3 disturbances (changes by hand, failures, timeouts, rediscoveries; each command is one) | `Delivered`, `Fed`, `Accurate`, `DoneIsApplied`, `Echo`, `EchoComes` |

Why the bounds are enough: an outage, a reconnect and one more change during either
are three disturbances; two devices are the least for which an outage interrupts a
discovery half way with one of them done and one not; a light with two attributes is
the least whose snapshot can carry a stale value of the other attribute; a speaker
with two entities is the least whose loop can be interrupted in the middle. In
`registration` four disturbances let an entity be removed, come back, fail to register
and be rediscovered; two entities of one device are the least for which a registration
fails half way. In `commands` homes do not interact, so each has one device or two,
and the vocabulary of each is a few payloads on both sides of every boundary (speed
bands, mireds that do not divide a million); all other values are the subject of
`Mapping_proofs`. Two commands and a third event are a timeout whose PATCH arrives
during the next command. A run with `CHECK_DEADLOCK FALSE` may stop when its bounds are
used up and nothing is left to do. The safety properties, which are proved, do not depend
on the bounds at all.

Runs that end in a violation: in each the code does something other than a comment
or document of the repository says. The findings in `PROJECT.json` quote both sides.

| Run | The code | Property |
|---|---|---|
| `stop_ends_run` | `stop()` enters STOPPING; the wait loop of `run()` ends only in STOPPED or FAILED, so `run()` never leaves it (orchestrator.py:767) | `GracefulStop` |
| `startup_drop` | a socket refused during startup marks entities offline; the reconnect is not seen as one and marks nothing online (:586) | `CalmIsAccurate` |
| `removed_device` | removal looks for the id with dashes, registration has replaced them (:530) | `RemovedOffline` |
| `shutdown_leaves_online` | entities are marked offline before the connection loop is stopped, which may mark them online again (:796) | `StoppedAllOffline` |
| `retry_overflow` | `multiplier ** (attempt - 1)` overflows at attempt 1025 of a loop that never resets its attempt number, and ends it (core/retry.py:238) | `NeverGivesUp` |

Five more divergences are known and have no run of their own.

- A removal takes nothing out of the discovery cache. orchestrator.py:518 says
  "removes them from both caches", and a test asks for it after registering the device
  under its logical id (tests/integration/test_orchestrator_flow.py:514); `register_entity()` registers
  unique ids (ha/ha_client.py:336), and line 541 unregisters the logical id, which is none of
  them. `Registration` has it so; `OneStory` exempts entities of removed devices.
- A fan shows the speed of its motor in every mode: the branch at mapping/state_mapper.py:866
  never looks at `fanMode`, while the docstring (:851) says "used only when fanMode is
  'customSpeed'". `StateMapper` has it so; `Accurate` exempts such fans (`Contested`).
- Devices without a serial number are one device. `build_device_info()` excludes the
  placeholder `UNKNOWN_SERIAL_NUMBER` (mapping/device_mapper.py:319) but not the empty text, which
  is the default of dirigera/models.py:174, so that all devices that list none share an identifier,
  against "Unique hardware serial number" (:156). Serial numbers are not modelled.
- A re-discovery after a reconnect that fails is logged and never retried (orchestrator.py:603), while
  README.md:428 has a reconnect re-discover all devices: `OutageRecovers` is therefore
  checked without failed requests.
- `_last_reachable` is neither reset by an outage
  nor set by the re-discovery after it, so the return of a device that was lost while the
  connection was down is not taken for the "genuine offline -> online edge" of
  orchestrator.py:858 and refreshes nothing (:896). `DeviceSync` has the fault
  `silent_loss` for it, with which `CalmIsAccurate` fails; the passing run leaves it out.

The runs that end in a violation isolate one fault each. The fault kinds that break `CalmIsAccurate` are
not among those of `orchestrator_calm`: besides `startup_drop` it also fails with
`startup_event`, a change of the hub between the REST request of startup and the
opening of the socket, which nothing tells the bridge of. No document promises
anything about that gap, so there is no run for it; `DeviceSync` counts it as
`blind`. Likewise the docstring of `_on_device_reachable()` says that a reconnect
without changes causes no MQTT traffic, which `force=True` contradicts; how much is
published is not a subject of these models.

Each property of a passing run has a mutant in the module it is about: an operator
with a comment "Mutant: ..." that changes one definition the way a bug could.
Substituted for the definition, it makes TLC find that property violated.

## 4. Fairness

A coroutine that can go on does, because the event loop is fair and every awaited
call returns: aiohttp requests, `websockets.connect()`, pings and `close()` have
timeouts, and backoff sleeps are finite. Hence weak fairness of each task as a
whole.

- `Orchestrator`: weak fairness of `Main` and `Ws`; strong fairness of
  `MqttConnected` and `WsOpened`, as a broker and a hub that are dialled for ever
  answer some day - it is what "recovers" can mean at all. The hub's changes, `Stop`
  and `Cancel` are unfair.
- `DeviceSync`: weak fairness of the discovery of `main` and of `Ws`. `Poll`, the
  wait loop, is excluded, as it changes nothing.
- `WebSocketClient`: weak fairness of the loop, the ping task, `stop()` and the
  completion of a `close()`; strong fairness of `DialOpens`. Without any fairness on
  the arrival of messages (`Receive`) a vanished peer is noticed by the ping task
  alone.
- `ServiceLifecycle`: weak fairness of delivery tasks.
- `Registration`: weak fairness of the discovery of each task.
- `Commands`: weak fairness of the bridge's handling of what it has fetched or been
  sent, and of each callback, whose request arrives or is answered as the client has a
  timeout. No fairness of rediscoveries, nor of late requests.

## 5. Proofs

| Module | Theorems |
|---|---|
| `ServiceLifecycle_proofs` | `PathCorrect`, `NoReturn`, `StartedOnce`, `ContractImplemented`, `TypeCorrect`, `HeardCorrectly` |
| `Orchestrator_proofs` | `TypeCorrect`, `OutageSafety`, `OutageExclusion`, `ShutdownSafety`, `ContractImplemented`, `CalmCorrect` |
| `DeviceSync_proofs` | `TypeCorrect`, `CalmCorrect` |
| `WebSocketClient_proofs` | `TypeCorrect`, `Revoked`, `AlwaysWatched`, `StopSafety`, `Persistence` |
| `Registration_proofs` | `CacheAgrees`, `TypeCorrect`, `BridgeCacheAgrees`, `StoryHolds`, `OncePerTask`, `RegistrationImplementsContract` |
| `Mapping_proofs` | `MiredRoundTrip`, `LightRoundTrip`, `BlindRoundTrip`, `FanRoundTrip`, `HandlersCoverMapper` |
| `Commands_proofs` | `CommandsInvariance`, `TypeCorrect`, `DeliveredCorrect`, `AppliedCorrect`, `FedCorrect`, `AccurateCorrect`, `EchoCorrect` |
| `ExtremaLemmas` | lemmas for the others (least and greatest elements) |

Every safety property that a passing run checks is proved: for every set of devices,
homes, callbacks and values, and for every bound. The theorems rest on the named
assumptions of the modules, which TLC evaluates for the instances of the runs, and
some of them on a hypothesis of their own:

| Theorem | Hypothesis | Why it is needed |
|---|---|---|
| `Orchestrator_proofs!CalmCorrect` | `Faults \cap Unrepaired = {}`: no failed REST request, nothing before the connection is up | each of the three has a counterexample (section 3); those of `orchestrator_calm` satisfy it |
| `DeviceSync_proofs!CalmCorrect` | `"silent_loss" \notin Faults` | the divergence of section 3; the run satisfies it |
| `CacheAgrees` | one relation per id | two relations for an id leave the indexes apart; the bridge never does it (`BridgeCacheAgrees`) |
| `FedCorrect`, `AccurateCorrect`, `EchoCorrect` | `NoneIsNoState`: null is not a state record | nothing else says what the constant `None` is not |
| `FedCorrect` | `Equipped`: a unit lists, not null, what the entities live on that its handler makes in any case | the handlers make them without looking, so a speaker that lists no volume has an entity without a state |
| `AccurateCorrect` | `Steady`: no attribute turns into null, a custom fan speed or a colour temperature of 0 | the state mapper drops these, and the entity stays at what it showed |
| `EchoCorrect` | all of these, and `Commandable`: what is sent is a word, a number or the fields of a light | the payloads are values of a constant of which nothing else says what they are |

Two exceptions are part of the properties and not hypotheses. `Contested` entities are
fed by two attributes: a fan by its mode and by the speed of its motor, a blind that
lists its level under both names by either. Which one is shown depends on which was
published last, for a fan against the docstring (section 3), and `Accurate` and `Echo`
claim nothing of either, so nothing is proved about commands to a purifier that lists
`motorSpeed` beside `fanMode`, as those in the tests of the repository do. And a blind
that lists its level as `blindsCurrentLevel` only is sent no position: the command would
set `currentLevel`, which it does not have (`VocabularyAssumption`); such a blind is
covered by `Accurate` and `Fed`. A blind that lists `currentLevel` is covered by all.

`MCCommands` assumes `Equipped`, `Steady` and `Commandable` of its homes, so that TLC
evaluates them for units of all types. They are conditions on what the hub lists, and
the code checks none of them.

*ServiceLifecycle.* The history and `started_at` need an invariant that relates the
latest record to the current state; the rest is the transition table, which has no
way back from STOPPING. `HeardOnceInOrder` needs `NoticeInv`: no callback is in the list
twice, what is due was made before, and the pending deliveries are in the order of the
transitions. A callback that is unregistered (`RemoveAt`) may be registered again while
deliveries to it are pending, which is why the order is kept for the pending ones as well.

*Orchestrator.* `OutageAllOffline` is not inductive: that no device is online after
the marking says nothing about why none comes online. `IInv` adds

- `Ownership`: which task may hold what. The service is active only while `main`
  waits, so startup and outages exclude each other; the socket is open only while
  `ws` uses it; only the shutdown stops the client;
- `InFlight`: what a coroutine carries across an await is still an entity;
- `OnlineAccounted`: a device shown online has an entity, and during an outage it is
  among those still to be marked offline. It is what makes the loop of
  `set_all_offline()` complete: an entity registered while the loop runs would
  escape it, and `Ownership` says that none is;
- `OutageExclusive` and `ShutdownComplete` themselves.

Each conjunct has a step lemma with one step per action. The implementation of
`BridgeContract` follows from the same invariant: each action changes the lifecycle
along the table, or shows one device, or stutters (`MoveStep`, `ShowStep`).

`CalmCorrect` needs to know who will still set right what is wrong now. `CalmInv` says of
each paired device (`OnItsWay`) that it is settled - shown as it is, or its latest update
failed - or about to be told of by the handler at work, or the last message about it that
is on the wire has its present state, or a discovery is due that will read it again. The
other two conjuncts (`StartupQuiet`, `Unconnected`) are what startup knows: nothing moves
before the connection is up.

*DeviceSync.* `TypeInv` adds to the types that the two tasks never register at the same
time (`Solo`) and what each loop has at hand (`InLoop`, `Spoken`). `CalmInv` is about
every attribute on its way, as long as nothing has escaped the bridge (`~blind`): what the
cache will be when the items at hand are processed is what the hub has, unless a message
that mentions the attribute is on the wire or the device is about to be fetched (`Kept`,
`ReachKept`); the last value on the wire is the hub's (`Said`), and messages of loss and
return come in pairs (`LossHeard`, `ReturnHeard`); an entity has the right availability,
or a loop or a message is about to give it (`Marks`); what is shown is what is cached
unless it failed, is in flight or will be forced (`Shows`). The effect of one handler
is that of `Process`, which runs over suppressed changes: `ProcessEffect` says for all
sequences of changes which the first to publish is, and what the cache holds then. The
sequences are of any length, so that "the last message that mentions an attribute" is the greatest index that does
(`ExtremaLemmas`), and each operation on the wire has lemmas about how that index moves
(`Tail...`, `Append...`).

*WebSocketClient.* `IInv` adds to the properties: `Owned` (a socket and a ping task
exist only inside their connection), `Cancelled` (the stop event is set from the
call of `stop()` on, and nothing else cancels the loop), `Paid` (every attempt but
the latest has been paid for by a failure, and all of them once a connection is
lost), `Ended` (why a loop that is over is over) and `Told` (the latest
announcement). `Persistence` follows from `Paid`: an overflow at attempt n needs n
failures.

*Registration.* `CacheAgrees` is about the cache alone: the indexes agree after any
calls that name one relation per id, which is weaker than what its documentation
takes for granted and all that the bridge needs. `OneStory` is proved from `Story`,
which is stronger: the entity table and the cache are the same set, because no removal
takes anything out. `OneStory` itself leaves room for removals that would.
`OncePerTask` counts: an entity announced twice was announced by two tasks.

*Mapping.* `MiredRoundTrip`: m mireds are k kelvin with an error of at most half a
kelvin, that is |k * m - 10^6| <= m / 2. Back, 10^6 / k is within m / 2k of m, less
than a half as m <= 999 < k, so it rounds to m. It needs no table; Home Assistant's
mireds end below 500. `LightRoundTrip` puts the fields together. `HandlersCoverMapper`
has one lemma per device type (`OutletFits`, ...), each of which compares the branches
of a mapper function with the record of the handler, and the battery of a pair as the
one exception; it is about every attribute value, so no reachable state can escape.

*Commands.* `Inv` has four parts. `HubInv`: units keep their attributes, a battery
level stays a percentage. `FetchInv`: what was fetched last has had all its entities
registered; with `HandlersCoverMapper` it gives `Delivered`. `CommandInv`: a flight has
both its PATCHes left or the second of two (`FlightInv`); one that is alone is the only
one of its unit, nothing late is on its way to the unit, and the hub has what was sent
of it (`AloneInv`); a unit with a sure command has no flight and nothing late
(`SureInv`). `AloneInv` is what is needed: without it the answer to the second PATCH
says nothing about the first. All steps that only end or disturb commands share one
lemma (`DwindlesKeeps`). `BridgeInv` is about what the bridge holds: every item on the
wire or still to be published is of a unit and an attribute the hub has, and whatever is
shown has an entity. Assumed are, beside the types of the bounds, that battery
levels are percentages and a pair lists its battery on both its units, the same
(`BatteryAssumption`), and that Home Assistant asks of a unit what the unit has
(`VocabularyAssumption`).

`FedCorrect` goes through the discovery item by item: for each entity that its handler
makes there is an attribute that feeds it (one lemma per kind of entity), and that
attribute is still to be published or has been (`FedInv`; `Process` publishes what the
cache does not know), as the units go on listing it (`SatedInv`). That all attributes of
all units are among what is to be published is a fact about `FlattenSeq`, which is
recursive; the lemma `FlattenIs` proves it from the least prefix for which it would fail.

`AccurateCorrect` has six invariants. The last item on the wire about an attribute has
the hub's value (`WireInv`). Of an attribute with no item on the wire, what the discovery
has still to publish is the hub's value, and if nothing is left to publish the cache has
it (`LatestInv`). The bridge knows of no attribute that the hub does not list
(`KnownInv`). A value that the mapper drops is one the unit had from the start, so no
entity ever showed an older one (`GrownInv`). An entity shows what the mapper makes of the
cache for one of its attributes (`ShownInv`). The two units of a pair have the same
battery level (`PairInv`). From these, what an entity shows is what one of its attributes
says now (`QuietIsSaid`), and by `OneVoice` all of them say the same unless the entity is
contested: an entity has one attribute, or is a light, whose payload is made of all of
them, or is the battery of a pair. The items of a discovery may be older than
those on the wire, and are published first or later; that is why neither of the first two
says anything of an item that another one on the wire is to replace.

`EchoCorrect` composes the theorems: a sure command is in the hub (`CommandInv`), the
entity shows one of the unit's attributes as it is now (`Accurate`), it has been made
and is shown (`RegisteredInv`, `Fed`), and one lemma per type (`LightEcho`, `BlindEcho`,
`FanEcho`, ...) says that the state mapper then shows the payload, by the round trips of
`Mapping_proofs`.

*Induction.* The provers cannot use a rule of induction, which is about every predicate.
Where sequences of any length are read (`DeviceSync`, `Commands`), the argument is by the
least or greatest index of a set, which exists because the subset order of finite sets is
well-founded (`LeastElement`).

Only model-checked: liveness (`EventuallyHeard`, `StartupEnds`, `FailureEnds`,
`OutageRecovers`, `DevicesAppear`, `OutageRepairs`, `VanishedIsDetected`, `StopReturns`,
`Reconnects`, `RediscoveryRepairs`, `EchoComes`), as it rests on fairness and on when
actions are enabled, which are out of the reach of the prover.

## 6. What is not modelled

- Delays, `max_attempts` and jitter of the backoff. Here a sleep ends.
- Subscriptions of the event bus that change: the bridge subscribes once, before
  anything is published.
- The metrics loop, but for its end, which the shutdown awaits, and counters (a PATCH answered 204 is counted as any other),
  logging, configuration, error classes, the token generator: they control nothing.
- Parsing and validation of hub JSON by pydantic. A message that does not parse is
  dropped with a warning and changes nothing.
- What the bridge does not use: `HAClient.update_state()`, `set_device_state()`,
  `has_changed()`, counts of the caches.
- `_get_session()`, which opens a new session when a request comes after `close()`.
- A battery level that is no percentage: `Raises` has what the handler does, but no
  home of the runs has it, and nothing says what should come of it.
- How presses of buttons and remotes get to Home Assistant: `map_state()` makes a payload
  of them, but an event entity has no topic for a state, so that nothing is published;
  no document says what should be.
- The battery of a light sensor has an entity that nothing feeds; `Fed` says so.
- `STOP` for a blind is in the payloads of the entity and is dropped by the mapper;
  the model drops it too.
- The topic of a state in `DeviceSync`: the entities of its `Kinds` all have one.
- Names, serial numbers and the identifier by which Home Assistant tells devices apart
  (`_elect_device_name()`, `build_device_info()`).
- What half a command leaves: `DoneIsApplied` and `Echo` are about commands that nothing
  disturbed; a command whose second PATCH fails, or that overlaps another one of the same
  unit, is in the model, with no claim about it. The same goes for a ping loop that an
  unexpected error has ended (`Watched`, `VanishedIsDetected`), for an attribute that is
  null when it is discovered, and for what `DeviceSync` counts as `blind`.
- The await of `close()` in `__aexit__` of the socket: leaving a connection is one step
  (`Leave`). `stop()` closes the socket before it cancels the loop, so the closing that is
  left out is that of a socket already closed or broken.
- A second signal, or a cancellation, during the shutdown.
- More than one attribute in a message: each is an event of its own, handled in
  order; a message with reachability and one attribute has the ordering that
  matters.

## 7. Plan

Done, in this order: `Lifecycle`, `ServiceLifecycle` with its contract and proofs;
`Orchestrator` with `BridgeContract` and proofs; `DeviceSync`; `WebSocketClient`
with proofs; `DiscoveryCache` and `Registration` with `DiscoveryContract` and proofs;
the mapping layer (`StateMapper`, `CommandMapper`, `DomainHandlers`) with proofs,
`DeviceMapping` and `Commands` with proofs; proofs of every safety property of the
passing runs, those of `DeviceSync` included.

Next:

1. `Retry`: `calculate_delay()` and `retry_with_backoff()` as functions, with
   `max_attempts` and the stop event: delays grow up to the cap, never past cap plus
   jitter. To be proved by arithmetic lemmas.
2. `EventBus`: subscriptions that change while an event is handled.
3. Proofs: an abstract specification of `DeviceSync` - a register that shows what it was
   last told, or has missed it - and that `DeviceSync` implements it.
4. `Commands` on top of `DeviceSync`, for commands during outages and refreshes.
