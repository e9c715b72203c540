------------------------- MODULE Registration_proofs -------------------------
(***************************************************************************)
(* The two dictionaries of the discovery cache are one table, for every    *)
(* set of ids, as long as no id is registered with two relations; and the  *)
(* registration of two tasks keeps the cache, the entity table and Home    *)
(* Assistant in step, for every set of devices and any number of faults.   *)
(***************************************************************************)
EXTENDS Registration, TLAPS, FiniteSetTheorems, SequenceTheorems

-----------------------------------------------------------------------------
(* The operations of the cache *)

LEMMA RegisterAgrees ==
  ASSUME CacheTypeOK, IndexesAgree, NEW i \in Ids, NEW x \in Relations,
         byLogical[i] \in {x, None}, Register(i, x)
  PROVE  CacheTypeOK' /\ IndexesAgree'
<1>1. CacheTypeOK'
  BY DEF CacheTypeOK, Register
<1>2. ASSUME NEW y \in Relations
      PROVE  byRelation'[y] = {j \in Ids : byLogical'[j] = y}
  <2>1. byRelation[y] = {j \in Ids : byLogical[j] = y}
    BY DEF IndexesAgree
  <2>2. byLogical[i] = y => y = x
    BY CacheAssumption
  <2>3. \A j \in Ids : byLogical'[j] = IF j = i THEN x ELSE byLogical[j]
    BY DEF Register, CacheTypeOK
  <2>4. byRelation'[y] = IF y = x THEN byRelation[y] \union {i} ELSE byRelation[y]
    BY DEF Register, CacheTypeOK
  <2> QED BY <2>1, <2>2, <2>3, <2>4
<1> QED BY <1>1, <1>2 DEF IndexesAgree

LEMMA UnregisterAgrees ==
  ASSUME CacheTypeOK, IndexesAgree, NEW i \in Ids, Unregister(i)
  PROVE  CacheTypeOK' /\ IndexesAgree'
<1>1. CacheTypeOK'
  BY DEF CacheTypeOK, Unregister
<1>2. ASSUME NEW y \in Relations
      PROVE  byRelation'[y] = {j \in Ids : byLogical'[j] = y}
  <2>1. byRelation[y] = {j \in Ids : byLogical[j] = y}
    BY DEF IndexesAgree
  <2>2. \A j \in Ids : byLogical'[j] = IF j = i THEN None ELSE byLogical[j]
    BY DEF Unregister, CacheTypeOK
  <2>3. byRelation'[y] = IF y = byLogical[i] THEN byRelation[y] \ {i} ELSE byRelation[y]
    BY CacheAssumption DEF Unregister, CacheTypeOK, Registered
  <2>4. y # None
    BY CacheAssumption
  <2> QED BY <2>1, <2>2, <2>3, <2>4
<1> QED BY <1>1, <1>2 DEF IndexesAgree

LEMMA ClearAgrees ==
  ASSUME Clear PROVE CacheTypeOK' /\ IndexesAgree'
<1>1. CacheTypeOK'
  BY DEF CacheTypeOK, Clear
<1>2. \A i \in Ids : byLogical'[i] = None
  BY DEF Clear
<1>3. \A x \in Relations : byRelation'[x] = {} /\ x # None
  BY CacheAssumption DEF Clear
<1> QED BY <1>1, <1>2, <1>3 DEF IndexesAgree

(* An id whose record is None can be registered with any relation; one with a
   record only with the relation of its record, for Uses are functional. *)
FunctionalUse == \A i \in Ids : byLogical[i] # None => <<i, byLogical[i]>> \in Uses

LEMMA CacheStep ==
  ASSUME Functional, CacheTypeOK, IndexesAgree, FunctionalUse, [CacheNext]_cache
  PROVE  CacheTypeOK' /\ IndexesAgree' /\ FunctionalUse'
<1>1. ASSUME NEW u \in Uses, Register(u[1], u[2])
      PROVE  CacheTypeOK' /\ IndexesAgree' /\ FunctionalUse'
  <2>1. u[1] \in Ids /\ u[2] \in Relations /\ u = <<u[1], u[2]>>
    BY CacheAssumption
  <2>2. byLogical[u[1]] \in {u[2], None}
    <3>1. CASE byLogical[u[1]] # None
      <4>1. <<u[1], byLogical[u[1]]>> \in Uses
        BY <2>1, <3>1 DEF FunctionalUse
      <4> QED BY <4>1 DEF Functional
    <3> QED BY <3>1
  <2>3. FunctionalUse'
    BY <1>1, <2>1 DEF FunctionalUse, Register, CacheTypeOK
  <2> QED BY <1>1, <2>1, <2>2, <2>3, RegisterAgrees
<1>2. ASSUME NEW i \in Ids, Unregister(i)
      PROVE  CacheTypeOK' /\ IndexesAgree' /\ FunctionalUse'
  <2>1. FunctionalUse'
    BY <1>2 DEF FunctionalUse, Unregister, CacheTypeOK
  <2> QED BY <1>2, <2>1, UnregisterAgrees
<1>3. ASSUME Clear PROVE CacheTypeOK' /\ IndexesAgree' /\ FunctionalUse'
  BY <1>3, ClearAgrees DEF FunctionalUse, Clear
<1>4. ASSUME UNCHANGED cache PROVE CacheTypeOK' /\ IndexesAgree' /\ FunctionalUse'
  BY <1>4 DEF cache, CacheTypeOK, IndexesAgree, FunctionalUse
<1> QED BY <1>1, <1>2, <1>3, <1>4 DEF CacheNext

(* As long as every id is registered with one relation only, the two dictionaries
   agree after every sequence of register(), unregister() and clear(), which
   update them one after the other. *)
THEOREM CacheAgrees == ASSUME Functional PROVE CacheSpec => []IndexesAgree
<1>1. CacheInit => CacheTypeOK /\ IndexesAgree /\ FunctionalUse
  BY CacheAssumption DEF CacheInit, CacheTypeOK, IndexesAgree, FunctionalUse
<1>2. CacheTypeOK /\ IndexesAgree /\ FunctionalUse /\ [CacheNext]_cache
        => (CacheTypeOK /\ IndexesAgree /\ FunctionalUse)'
  BY CacheStep
<1> QED BY <1>1, <1>2, PTL DEF CacheSpec

-----------------------------------------------------------------------------
(* The cache implements its contract *)

LEMMA RegisterRefines ==
  ASSUME NEW i \in Ids, NEW x \in Relations, Register(i, x), CacheTypeOK', IndexesAgree'
  PROVE  Contract!Register(i, x)
<1>1. byRelation' = Contract!Answers(byLogical)'
  BY DEF CacheTypeOK, IndexesAgree, Contract!Answers, Contract!MembersOf
<1>2. byLogical' = [byLogical EXCEPT ![i] = x]
  BY DEF Register
<1> QED BY <1>1, <1>2 DEF Contract!Register, Contract!Update, Contract!Answers,
                          Contract!MembersOf

LEMMA UnregisterRefines ==
  ASSUME NEW i \in Ids, Unregister(i), CacheTypeOK', IndexesAgree'
  PROVE  Contract!Unregister(i)
<1>1. byRelation' = Contract!Answers(byLogical)'
  BY DEF CacheTypeOK, IndexesAgree, Contract!Answers, Contract!MembersOf
<1>2. byLogical' = [byLogical EXCEPT ![i] = None]
  BY DEF Unregister
<1> QED BY <1>1, <1>2 DEF Contract!Unregister, Contract!Update, Contract!Answers,
                          Contract!MembersOf

-----------------------------------------------------------------------------
(* Registration *)

LEMMA TasksFinite == IsFiniteSet(Tasks) /\ Cardinality(Tasks) = 2
<1>1. IsFiniteSet({"main"}) /\ Cardinality({"main"}) = 1
  BY FS_Singleton
<1>2. Tasks = {"main"} \union {"ws"}
  BY DEF Tasks
<1> QED BY <1>1, <1>2, FS_AddElement

(* The tasks that await the SDK for entity e. *)
AnnouncersOf(e) == {t \in Tasks : Announcing(t, e)}

(* No entity ever leaves the cache, so that the table and the cache are the same;
   OneStory leaves room for removals that would take entities out. *)
Story ==
    /\ known = {e \in Entities : Registered(e)}
    /\ \A e \in Entities : Registered(e) <=> accepted[e] > 0
    /\ known \subseteq announced

IInv ==
    /\ TypeOK
    /\ IndexesAgree
    /\ Story
    /\ RegisteredOncePerTask
    /\ \A i \in Ids : Registered(i) => byLogical[i] = i /\ i \in Entities

LEMMA InitInv == Init => IInv
<1> SUFFICES ASSUME Init PROVE IInv
  OBVIOUS
<1>1. CacheTypeOK /\ IndexesAgree
  BY CacheAssumption DEF Init, CacheInit, CacheTypeOK, IndexesAgree
<1>2. \A i \in Ids : ~Registered(i)
  BY DEF Init, CacheInit, Registered
<1>3. disturbances \in 0..MaxDisturbances
  BY RegistrationAssumption DEF Init
<1>4. TypeOK
  BY <1>1, <1>3 DEF Init, TypeOK, Tasks
<1>5. Story
  BY <1>2, RegistrationAssumption DEF Init, Story
<1>6. RegisteredOncePerTask
  <2>1. \A e \in Entities : {t \in Tasks : Announcing(t, e)} = {}
    BY DEF Init, Announcing
  <2>2. \A e \in Entities : accepted[e] = 0
    BY DEF Init
  <2>3. \A e \in Entities : Cardinality({t \in Tasks : Announcing(t, e)}) = 0
    BY <2>1, FS_EmptySet
  <2> QED BY <2>2, <2>3, TasksFinite DEF RegisteredOncePerTask
<1> QED BY <1>1, <1>2, <1>4, <1>5, <1>6 DEF IInv

LEMMA DisturbType == ASSUME TypeOK, Disturb PROVE disturbances' \in 0..MaxDisturbances
  BY RegistrationAssumption DEF TypeOK, Disturb

(* What the loop over the entities changes, whatever the step does before. *)
LEMMA ProceedType ==
  ASSUME TypeOK, NEW t \in Tasks, NEW rest \in Seq(Entities), Proceed(t, rest)
  PROVE  /\ known' \subseteq Entities
         /\ pc' \in [Tasks -> {"fetching", "announcing", "setting", "idle"}]
         /\ todo' \in [Tasks -> Seq(Entities)]
         /\ \A u \in Tasks : pc'[u] \in {"announcing", "setting"} => todo'[u] # <<>>
<1>1. rest # <<>> => Head(rest) \in Entities
  OBVIOUS
<1>2. known' \subseteq Entities
  BY <1>1 DEF TypeOK, Proceed
<1>3. todo' \in [Tasks -> Seq(Entities)] /\ todo' = [todo EXCEPT ![t] = rest]
  BY DEF TypeOK, Proceed
<1>4. pc' \in [Tasks -> {"fetching", "announcing", "setting", "idle"}]
  BY DEF TypeOK, Proceed
<1>5. \A u \in Tasks : pc'[u] \in {"announcing", "setting"} => todo'[u] # <<>>
  BY <1>3, <1>4 DEF TypeOK, Proceed
<1> QED BY <1>2, <1>3, <1>4, <1>5

LEMMA ProceedKnown ==
  ASSUME IInv, NEW t \in Tasks, NEW rest \in Seq(Entities), Proceed(t, rest)
  PROVE  known' = known
<1>1. rest # <<>> => Head(rest) \in Entities
  OBVIOUS
<1> QED BY <1>1 DEF IInv, Story, Proceed

LEMMA TailType ==
  ASSUME TypeOK, NEW t \in Tasks, pc[t] \in {"announcing", "setting"}
  PROVE  /\ todo[t] # <<>> /\ todo[t] \in Seq(Entities)
         /\ Head(todo[t]) \in Entities /\ Tail(todo[t]) \in Seq(Entities)
<1>1. todo[t] # <<>> /\ todo[t] \in Seq(Entities)
  BY DEF TypeOK
<1> QED BY <1>1

LEMMA TypeStep == ASSUME IInv, [Next]_vars PROVE TypeOK'
<1> USE DEF IInv
<1>1. ASSUME NEW t \in Tasks, Fetched(t) PROVE TypeOK'
  <2>1. Listing[present] \in Seq(Entities)
    BY RegistrationAssumption DEF TypeOK
  <2> QED BY <1>1, <2>1, ProceedType DEF Fetched, TypeOK, cache, pairing, CacheTypeOK
<1>2. ASSUME NEW t \in Tasks, Announced(t) PROVE TypeOK'
  <2>1. Head(todo[t]) \in Entities /\ todo[t] # <<>>
    BY <1>2, TailType DEF Announced
  <2>2. CacheTypeOK'
    BY <1>2, <2>1, RegistrationAssumption DEF Announced, Register, TypeOK, CacheTypeOK
  <2> QED BY <1>2, <2>1, <2>2 DEF Announced, TypeOK, pairing
<1>3. ASSUME NEW t \in Tasks, AnnounceFails(t) PROVE TypeOK'
  <2>1. Head(todo[t]) \in Entities /\ Tail(todo[t]) \in Seq(Entities)
    BY <1>3, TailType DEF AnnounceFails
  <2> QED BY <1>3, <2>1, ProceedType, DisturbType
          DEF AnnounceFails, TypeOK, cache, pairing, CacheTypeOK
<1>4. ASSUME NEW t \in Tasks, AvailabilitySet(t) PROVE TypeOK'
  <2>1. Tail(todo[t]) \in Seq(Entities)
    BY <1>4, TailType DEF AvailabilitySet
  <2> QED BY <1>4, <2>1, ProceedType DEF AvailabilitySet, TypeOK, cache, pairing, CacheTypeOK
<1>5. ASSUME FetchFails \/ Rediscover PROVE TypeOK'
  BY <1>5, DisturbType DEF FetchFails, Rediscover, TypeOK, cache, pairing, CacheTypeOK, Tasks
<1>6. ASSUME NEW d \in Devices, Removed(d) PROVE TypeOK'
  <2>1. d \in Ids
    BY RegistrationAssumption
  <2>2. CacheTypeOK'
    BY <1>6, <2>1, UnregisterAgrees DEF Removed, TypeOK
  <2> QED BY <1>6, <2>2 DEF Removed, TypeOK
<1>7. ASSUME NEW d \in Devices, HubAdds(d) \/ HubRemoves(d) PROVE TypeOK'
  BY <1>7, DisturbType DEF HubAdds, HubRemoves, TypeOK, cache, CacheTypeOK
<1>8. ASSUME UNCHANGED vars PROVE TypeOK'
  BY <1>8 DEF vars, pairing, cache, TypeOK, CacheTypeOK
<1> QED BY <1>1, <1>2, <1>3, <1>4, <1>5, <1>6, <1>7, <1>8 DEF Next, Discovery, Finished

(* How the cache changes in a step: an entity is registered under itself, or the
   id of a device is unregistered, which changes nothing. *)
LEMMA CacheChange ==
  ASSUME IInv, [Next]_vars
  PROVE  \/ \E t \in Tasks : Announced(t) /\ Head(todo[t]) \in Entities
         \/ UNCHANGED cache /\ accepted' = accepted
               /\ known' = known /\ announced \subseteq announced'
<1> USE DEF IInv
<1>1. ASSUME NEW t \in Tasks, Fetched(t) PROVE known' = known
  <2>1. Listing[present] \in Seq(Entities)
    BY RegistrationAssumption DEF TypeOK
  <2> QED BY <1>1, <2>1, ProceedKnown DEF Fetched
<1>2. ASSUME NEW t \in Tasks, Announced(t) PROVE Head(todo[t]) \in Entities
  BY <1>2, TailType DEF Announced
<1>3. ASSUME NEW t \in Tasks, AnnounceFails(t) \/ AvailabilitySet(t) PROVE known' = known
  BY <1>3, TailType, ProceedKnown DEF AnnounceFails, AvailabilitySet
<1>4. ASSUME NEW d \in Devices, Removed(d) PROVE UNCHANGED cache
  <2>1. d \in Ids /\ ~Registered(d)
    BY RegistrationAssumption
  <2> QED BY <1>4, <2>1 DEF Removed, Unregister, Registered, cache, TypeOK, CacheTypeOK
<1> QED BY <1>1, <1>2, <1>3, <1>4
        DEF Next, Discovery, Finished, Fetched, AnnounceFails, AvailabilitySet, FetchFails,
            Rediscover, Removed, HubAdds, HubRemoves, vars

LEMMA CacheInvStep ==
  ASSUME IInv, [Next]_vars
  PROVE  /\ CacheTypeOK' /\ IndexesAgree'
         /\ (\A i \in Ids : Registered(i) => byLogical[i] = i /\ i \in Entities)'
<1> USE DEF IInv
<1>1. ASSUME NEW t \in Tasks, Announced(t), Head(todo[t]) \in Entities
      PROVE  /\ CacheTypeOK' /\ IndexesAgree'
             /\ (\A i \in Ids : Registered(i) => byLogical[i] = i /\ i \in Entities)'
  <2> DEFINE e == Head(todo[t])
  <2>1. e \in Ids /\ e \in Relations /\ Register(e, e) /\ byLogical[e] \in {e, None}
    BY <1>1, RegistrationAssumption DEF Announced, Registered
  <2>2. CacheTypeOK' /\ IndexesAgree'
    BY <2>1, RegisterAgrees DEF TypeOK
  <2>3. \A i \in Ids : byLogical'[i] = IF i = e THEN e ELSE byLogical[i]
    BY <2>1 DEF Register, TypeOK, CacheTypeOK
  <2> QED BY <1>1, <2>2, <2>3 DEF Registered
<1>2. ASSUME UNCHANGED cache
      PROVE  /\ CacheTypeOK' /\ IndexesAgree'
             /\ (\A i \in Ids : Registered(i) => byLogical[i] = i /\ i \in Entities)'
  BY <1>2 DEF cache, CacheTypeOK, IndexesAgree, Registered, TypeOK
<1> QED BY <1>1, <1>2, CacheChange

LEMMA StoryStep == ASSUME IInv, [Next]_vars PROVE Story'
<1> USE DEF IInv
<1>1. ASSUME NEW t \in Tasks, Announced(t), Head(todo[t]) \in Entities PROVE Story'
  <2> DEFINE e == Head(todo[t])
  <2>1. e \in Ids /\ e # None
    BY <1>1, RegistrationAssumption, CacheAssumption
  <2>2. \A f \in Entities : Registered(f)' <=> f = e \/ Registered(f)
    BY <1>1, <2>1, RegistrationAssumption DEF Announced, Register, Registered, TypeOK, CacheTypeOK
  <2>3. \A f \in Entities : accepted'[f] = IF f = e THEN accepted[e] + 1 ELSE accepted[f]
    BY <1>1 DEF Announced, TypeOK
  <2>4. accepted \in [Entities -> Nat]
    BY DEF TypeOK
  <2>5. known' = known \union {e} /\ announced' = announced \union {e}
    BY <1>1 DEF Announced
  <2> QED BY <1>1, <2>2, <2>3, <2>4, <2>5 DEF Story
<1>2. ASSUME UNCHANGED cache, accepted' = accepted, known' = known,
             announced \subseteq announced'
      PROVE  Story'
  BY <1>2 DEF Story, cache, Registered
<1> QED BY <1>1, <1>2, CacheChange

(* Whoever begins to await the SDK for e finds e neither registered nor accepted. *)
LEMMA AnnouncersChange ==
  ASSUME IInv, [Next]_vars, NEW e \in Entities, accepted[e] > 0, NEW t \in Tasks,
         Announcing(t, e)'
  PROVE  Announcing(t, e)
<1> USE DEF IInv
<1>1. Registered(e)
  BY DEF Story
<1>2. ASSUME NEW u \in Tasks, NEW rest \in Seq(Entities), Proceed(u, rest)
      PROVE  Announcing(t, e)
  BY <1>1, <1>2 DEF Proceed, Announcing, TypeOK
<1>3. ASSUME NEW u \in Tasks, Fetched(u) PROVE Announcing(t, e)
  <2>1. Listing[present] \in Seq(Entities)
    BY RegistrationAssumption DEF TypeOK
  <2> QED BY <1>2, <1>3, <2>1 DEF Fetched
<1>4. ASSUME NEW u \in Tasks, AnnounceFails(u) \/ AvailabilitySet(u) PROVE Announcing(t, e)
  BY <1>2, <1>4, TailType DEF AnnounceFails, AvailabilitySet
<1>5. ASSUME NEW u \in Tasks, Announced(u) PROVE Announcing(t, e)
  BY <1>5 DEF Announced, Announcing, TypeOK
<1>6. ASSUME FetchFails \/ Rediscover PROVE Announcing(t, e)
  BY <1>6 DEF FetchFails, Rediscover, Announcing, TypeOK
<1>7. ASSUME UNCHANGED <<pc, todo>> PROVE Announcing(t, e)
  BY <1>7 DEF Announcing
<1> QED BY <1>3, <1>4, <1>5, <1>6, <1>7
        DEF Next, Discovery, Finished, Removed, HubAdds, HubRemoves, vars

LEMMA OnceStep == ASSUME IInv, [Next]_vars PROVE RegisteredOncePerTask'
<1> SUFFICES ASSUME NEW e \in Entities
             PROVE  (accepted[e] + Cardinality(AnnouncersOf(e)) <= Cardinality(Tasks))'
  BY DEF RegisteredOncePerTask, AnnouncersOf
<1> USE DEF IInv
<1>1. /\ accepted[e] \in Nat
      /\ accepted[e] + Cardinality(AnnouncersOf(e)) <= 2
      /\ Cardinality(Tasks) = 2
  BY TasksFinite DEF TypeOK, RegisteredOncePerTask, AnnouncersOf
<1>2. /\ IsFiniteSet(AnnouncersOf(e)) /\ Cardinality(AnnouncersOf(e)) \in Nat
      /\ IsFiniteSet(AnnouncersOf(e)') /\ Cardinality(AnnouncersOf(e)') \in Nat
      /\ Cardinality(AnnouncersOf(e)') <= 2
  <2>1. AnnouncersOf(e) \in SUBSET Tasks /\ AnnouncersOf(e)' \in SUBSET Tasks
    BY DEF AnnouncersOf, Tasks
  <2> QED BY <2>1, TasksFinite, FS_Subset, FS_CardinalityType
<1>3. CASE accepted'[e] = 0
  BY <1>1, <1>2, <1>3, TasksFinite DEF Tasks
<1>4. CASE accepted[e] > 0 /\ accepted'[e] = accepted[e]
  <2>1. AnnouncersOf(e)' \in SUBSET AnnouncersOf(e)
    BY <1>4, AnnouncersChange DEF AnnouncersOf, Tasks
  <2>2. Cardinality(AnnouncersOf(e)') <= Cardinality(AnnouncersOf(e))
    BY <1>2, <2>1, FS_Subset
  <2> QED BY <1>1, <1>2, <1>4, <2>2 DEF Tasks
<1>5. ASSUME NEW t \in Tasks, Announced(t), Head(todo[t]) = e
      PROVE  (accepted[e] + Cardinality(AnnouncersOf(e)) <= Cardinality(Tasks))'
  <2>1. accepted'[e] = accepted[e] + 1
    BY <1>5 DEF Announced, TypeOK
  <2>2. t \in AnnouncersOf(e)
    BY <1>5 DEF Announced, AnnouncersOf, Announcing
  <2>3. AnnouncersOf(e)' = AnnouncersOf(e) \ {t}
    BY <1>5 DEF Announced, AnnouncersOf, Announcing, TypeOK, Tasks
  <2>4. Cardinality(AnnouncersOf(e)') = Cardinality(AnnouncersOf(e)) - 1
    BY <1>2, <2>2, <2>3, FS_RemoveElement
  <2> QED BY <1>1, <1>2, <2>1, <2>4 DEF Tasks
<1>6. ASSUME NEW t \in Tasks, Announced(t), Head(todo[t]) # e
      PROVE  accepted'[e] = accepted[e]
  BY <1>6 DEF Announced, TypeOK
<1>7. accepted'[e] = accepted[e] \/ \E t \in Tasks : Announced(t) /\ Head(todo[t]) = e
  BY <1>6, CacheChange
<1> QED BY <1>1, <1>3, <1>4, <1>5, <1>7

LEMMA NextInv == IInv /\ [Next]_vars => IInv'
<1> SUFFICES ASSUME IInv, [Next]_vars PROVE IInv'
  OBVIOUS
<1> QED BY TypeStep, CacheInvStep, StoryStep, OnceStep DEF IInv

LEMMA Invariance == Spec => []IInv
  BY InitInv, NextInv, PTL DEF Spec

(* The types of the state, for every set of devices and any number of faults. *)
THEOREM TypeCorrect == Spec => []TypeOK
<1>1. IInv => TypeOK
  BY DEF IInv
<1> QED BY <1>1, Invariance, PTL

(* In the bridge the dictionaries of the cache agree at every await, although
   each registration updates them after an await of its own. *)
THEOREM BridgeCacheAgrees == Spec => []IndexesAgree
<1>1. IInv => IndexesAgree
  BY DEF IInv
<1> QED BY <1>1, Invariance, PTL

(* Entity table, cache and Home Assistant are in step at every await. *)
THEOREM StoryHolds == Spec => []OneStory
<1>1. IInv => OneStory
  BY DEF IInv, Story, OneStory
<1> QED BY <1>1, Invariance, PTL

(* No entity is registered more often than there are tasks that discover. *)
THEOREM OncePerTask == Spec => []RegisteredOncePerTask
<1>1. IInv => RegisteredOncePerTask
  BY DEF IInv
<1> QED BY <1>1, Invariance, PTL

LEMMA ContractStep ==
  ASSUME IInv, [Next]_vars, CacheTypeOK', IndexesAgree'
  PROVE  [Contract!Next]_<<byLogical, byRelation>>
<1>1. ASSUME NEW t \in Tasks, Announced(t), Head(todo[t]) \in Entities
      PROVE  Contract!Next
  <2>1. Head(todo[t]) \in Ids /\ Head(todo[t]) \in Relations
    BY <1>1, RegistrationAssumption
  <2>2. Register(Head(todo[t]), Head(todo[t]))
    BY <1>1 DEF Announced
  <2> QED BY <2>1, <2>2, RegisterRefines DEF Contract!Next
<1> QED BY <1>1, CacheChange DEF cache

(* The cache as the bridge uses it is one table with right answers. *)
THEOREM RegistrationImplementsContract == Spec => ImplementsContract
<1>1. Init => Contract!Init
  BY CacheAssumption DEF Init, CacheInit, Contract!Init, Contract!Answers, Contract!MembersOf
<1>2. IInv /\ IInv' /\ [Next]_vars => [Contract!Next]_<<byLogical, byRelation>>
  BY ContractStep DEF IInv, TypeOK
<1> QED BY <1>1, <1>2, Invariance, PTL DEF Spec, ImplementsContract, Contract!Spec
=============================================================================
