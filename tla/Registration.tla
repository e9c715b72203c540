---------------------------- MODULE Registration ----------------------------
(***************************************************************************)
(* How the entities of devices get registered in Home Assistant when two   *)
(* tasks discover at once: main, the discovery of startup, and ws, the     *)
(* handlers of DEVICE_DISCOVERED, DEVICE_REMOVED and of a reconnect, while *)
(* startup goes on.  HAClient.register_entity() looks into the discovery   *)
(* cache, awaits the SDK and only then makes its record.                   *)
(*                                                                         *)
(* An action is the code between two awaits.  A discovery of startup that  *)
(* cannot fetch the devices, and disconnected clients, are the subject of  *)
(* Orchestrator.  That an entity has no device name, which register_entity *)
(* refuses, does not happen: _elect_device_name() falls back to the type.  *)
(***************************************************************************)
EXTENDS DiscoveryCache, Naturals, SequencesExt

CONSTANTS
    Devices,            \* the logical ids of the devices
    OwnerOf,            \* the device of each entity
    Listing,            \* the entities of a set of devices, in the hub's order
    MaxDisturbances     \* bound on hub changes, failures and rediscoveries

Entities == DOMAIN OwnerOf
Tasks == {"main", "ws"}

\* register_entity() registers an entity under its unique id, for the relation too;
\* the id of a device, which removal unregisters, is the unique id of no entity.
ASSUME RegistrationAssumption ==
    /\ OwnerOf \in [Entities -> Devices]
    /\ Listing \in [SUBSET Devices -> Seq(Entities)]
    /\ \A ds \in SUBSET Devices : Range(Listing[ds]) = {e \in Entities : OwnerOf[e] \in ds}
    /\ Ids = Entities \union Devices /\ Relations = Entities
    /\ Entities \intersect Devices = {}
    /\ Uses = {<<e, e>> : e \in Entities}
    /\ MaxDisturbances \in Nat

VARIABLES
    present,            \* the devices of the hub
    gone,               \* removals ws has not handled yet
    known,              \* Orchestrator._entities
    announced,          \* the entities Home Assistant has been told of
    accepted,           \* how often the SDK registered each entity with success
    removed,            \* entities whose device was removed, and not registered since
    pc, todo,           \* where each task is suspended; entities left to register
    disturbances        \* hub changes, failures and rediscoveries so far

pairing == <<present, gone, removed>>
vars == <<cache, pairing, known, announced, accepted, pc, todo, disturbances>>

Disturb ==
    /\ disturbances < MaxDisturbances
    /\ disturbances' = disturbances + 1

Init ==
    /\ CacheInit
    /\ present \in SUBSET Devices /\ gone = {}
    /\ known = {} /\ announced = {}
    /\ accepted = [e \in Entities |-> 0]
    /\ removed = {}
    /\ pc = [t \in Tasks |-> IF t = "main" THEN "fetching" ELSE "idle"]
    /\ todo = [t \in Tasks |-> <<>>]
    /\ disturbances = 0

-----------------------------------------------------------------------------
\* Mutant: the cache is not asked, every discovery registers all entities.
ProceedUnchecked(t, rest) ==
    /\ todo' = [todo EXCEPT ![t] = rest]
    /\ pc' = [pc EXCEPT ![t] = IF rest = <<>> THEN "idle" ELSE "announcing"]
    /\ UNCHANGED known

\* Mutant: the end of the list is noticed one await too late.
ProceedPastEnd(t, rest) ==
    /\ todo' = [todo EXCEPT ![t] = rest]
    /\ IF rest = <<>>
       THEN pc' = [pc EXCEPT ![t] = IF todo[t] = <<>> THEN "idle" ELSE "setting"] /\ UNCHANGED known
       ELSE /\ pc' = [pc EXCEPT ![t] = IF Registered(Head(rest)) THEN "setting" ELSE "announcing"]
            /\ known' = IF Registered(Head(rest)) THEN known \union {Head(rest)} ELSE known

\* The loop over the entities goes on with rest.  An entity of the cache is not
\* registered again: register_entity() returns at once.
Proceed(t, rest) ==
    /\ todo' = [todo EXCEPT ![t] = rest]
    /\ \/ /\ rest = <<>>
          /\ pc' = [pc EXCEPT ![t] = "idle"]
          /\ UNCHANGED known
       \/ /\ rest # <<>> /\ Registered(Head(rest))
          /\ pc' = [pc EXCEPT ![t] = "setting"]
          /\ known' = known \union {Head(rest)}
       \/ /\ rest # <<>> /\ ~Registered(Head(rest))
          /\ pc' = [pc EXCEPT ![t] = "announcing"]
          /\ UNCHANGED known

\* get_devices() answers.
Fetched(t) ==
    /\ pc[t] = "fetching"
    /\ Proceed(t, Listing[present])
    /\ UNCHANGED <<cache, pairing, announced, accepted, disturbances>>

FetchFails ==
    /\ pc["ws"] = "fetching"
    /\ Disturb
    /\ pc' = [pc EXCEPT !["ws"] = "idle"]
    /\ UNCHANGED <<cache, pairing, known, announced, accepted, todo>>

\* sdk.register() returns.  The other task may have registered the entity since.
Announced(t) ==
    LET e == Head(todo[t]) IN
    /\ pc[t] = "announcing"
    /\ Register(e, e)
    /\ announced' = announced \union {e}
    /\ accepted' = [accepted EXCEPT ![e] = @ + 1]
    /\ known' = known \union {e}
    /\ pc' = [pc EXCEPT ![t] = "setting"]
    /\ removed' = removed \ {e}
    /\ UNCHANGED <<present, gone, todo, disturbances>>

\* Mutant: a registration that failed is entered all the same.
AnnounceFailsRecorded(t) ==
    /\ pc[t] = "announcing"
    /\ Disturb
    /\ Register(Head(todo[t]), Head(todo[t]))
    /\ Proceed(t, Tail(todo[t]))
    /\ UNCHANGED <<pairing, announced, accepted>>

\* Mutant: the failure is logged, and the entity entered and marked as any other.
AnnounceFailsRouted(t) ==
    /\ pc[t] = "announcing"
    /\ Disturb
    /\ announced' \in {announced, announced \union {Head(todo[t])}}
    /\ known' = known \union {Head(todo[t])}
    /\ pc' = [pc EXCEPT ![t] = "setting"]
    /\ UNCHANGED <<cache, pairing, accepted, todo>>

\* sdk.register() raises, before or after Home Assistant was told; the loop goes on.
AnnounceFails(t) ==
    /\ pc[t] = "announcing"
    /\ Disturb
    /\ announced' \in {announced, announced \union {Head(todo[t])}}
    /\ Proceed(t, Tail(todo[t]))
    /\ UNCHANGED <<cache, pairing, accepted>>

\* update_availability() ends, in one way or the other.
AvailabilitySet(t) ==
    /\ pc[t] = "setting"
    /\ Proceed(t, Tail(todo[t]))
    /\ UNCHANGED <<cache, pairing, announced, accepted, disturbances>>

\* DEVICE_DISCOVERED, or a reconnect.
Rediscover ==
    /\ pc["ws"] = "idle"
    /\ Disturb
    /\ pc' = [pc EXCEPT !["ws"] = "fetching"]
    /\ UNCHANGED <<cache, pairing, known, announced, accepted, todo>>

\* The end of the DEVICE_REMOVED handler: what is unregistered is the id of the
\* device, and _entities is left alone.
Removed(d) ==
    /\ pc["ws"] = "idle" /\ d \in gone
    /\ gone' = gone \ {d}
    /\ Unregister(d)
    /\ removed' = removed \union {e \in Entities : OwnerOf[e] = d}
    /\ UNCHANGED <<present, known, announced, accepted, pc, todo, disturbances>>

-----------------------------------------------------------------------------
HubAdds(d) ==
    /\ d \notin present /\ Disturb
    /\ present' = present \union {d}
    /\ UNCHANGED <<cache, gone, removed, known, announced, accepted, pc, todo>>

HubRemoves(d) ==
    /\ d \in present /\ Disturb
    /\ present' = present \ {d} /\ gone' = gone \union {d}
    /\ UNCHANGED <<cache, removed, known, announced, accepted, pc, todo>>

Discovery(t) == Fetched(t) \/ Announced(t) \/ AnnounceFails(t) \/ AvailabilitySet(t)

\* Everything is done, for good.
Finished ==
    /\ disturbances = MaxDisturbances /\ gone = {}
    /\ \A t \in Tasks : pc[t] = "idle"
    /\ UNCHANGED vars

Next ==
    \/ \E t \in Tasks : Discovery(t)
    \/ FetchFails \/ Rediscover
    \/ \E d \in Devices : Removed(d) \/ HubAdds(d) \/ HubRemoves(d)
    \/ Finished

\* Awaited calls end.
Spec == Init /\ [][Next]_vars /\ \A t \in Tasks : WF_vars(Discovery(t))

-----------------------------------------------------------------------------
Announcing(t, e) == pc[t] = "announcing" /\ Head(todo[t]) = e

TypeOK ==
    /\ CacheTypeOK
    /\ present \subseteq Devices /\ gone \subseteq Devices
    /\ known \subseteq Entities /\ announced \subseteq Entities
    /\ removed \subseteq Entities
    /\ accepted \in [Entities -> Nat]
    /\ pc \in [Tasks -> {"fetching", "announcing", "setting", "idle"}]
    /\ todo \in [Tasks -> Seq(Entities)]
    /\ \A t \in Tasks : pc[t] \in {"announcing", "setting"} => todo[t] # <<>>
    /\ disturbances \in 0..MaxDisturbances

\* The entity table, the cache and Home Assistant tell the same story at every
\* await, whatever failed or was registered twice: the bridge routes to the entities
\* that the SDK has accepted, all those of the cache among them, and Home Assistant
\* knows more only if a registration failed after it was told.  An entity of the
\* table may be missing from the cache only after its device was removed.
OneStory ==
    /\ \A e \in Entities : e \in known <=> accepted[e] > 0
    /\ \A e \in Entities : Registered(e) => e \in known
    /\ \A e \in known : Registered(e) \/ e \in removed
    /\ known \subseteq announced

\* However the check and the record of the two tasks interleave, and however many
\* discoveries follow, no entity is registered more often than there are tasks.
RegisteredOncePerTask ==
    \A e \in Entities :
        accepted[e] + Cardinality({t \in Tasks : Announcing(t, e)}) <= Cardinality(Tasks)

\* Rediscovery repairs: whatever failed before, the entities of all devices of the
\* hub are registered in the end if a discovery begins and nothing fails any more.
RediscoveryRepairs ==
    (pc["ws"] = "fetching" /\ disturbances = MaxDisturbances)
        ~> (\A e \in Entities : OwnerOf[e] \in present => e \in known /\ e \in announced)
=============================================================================
