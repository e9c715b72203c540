--------------------------- MODULE DiscoveryCache ---------------------------
(***************************************************************************)
(* class DiscoveryCache: which ids are registered in Home Assistant, in    *)
(* two dictionaries that are updated one after the other.  All methods are *)
(* synchronous, so each is one step.  Domains and names, which no decision *)
(* depends on, are left out of a registration record.                      *)
(***************************************************************************)
EXTENDS FiniteSets

CONSTANTS
    Ids,            \* what is registered
    Relations,      \* the relation ids that are registered with
    Uses,           \* the pairs (id, relation) that register() is called with
    None            \* no record

ASSUME CacheAssumption ==
    /\ Uses \subseteq Ids \X Relations
    /\ None \notin Relations

VARIABLES
    byLogical,      \* _by_logical_id: the relation of the record of an id, or None
    byRelation      \* _by_relation_id: the set of a relation, {} for no entry

cache == <<byLogical, byRelation>>

CacheInit ==
    /\ byLogical = [i \in Ids |-> None]
    /\ byRelation = [x \in Relations |-> {}]

\* is_registered()
Registered(i) == byLogical[i] # None

\* Mutant: an id leaves the set of its old relation after it joined that of the
\* new one, which may be the same.
RegisterMoves(i, x) ==
    /\ byLogical' = [byLogical EXCEPT ![i] = x]
    /\ byRelation' = [y \in Relations |->
                         (byRelation[y] \union IF y = x THEN {i} ELSE {})
                            \ IF y = byLogical[i] THEN {i} ELSE {}]

\* register(): the new record replaces an old one, the set of the old relation is
\* left as it is.
Register(i, x) ==
    /\ byLogical' = [byLogical EXCEPT ![i] = x]
    /\ byRelation' = [byRelation EXCEPT ![x] = @ \union {i}]

\* unregister(): the id leaves the set of its record's relation.
Unregister(i) ==
    /\ byLogical' = [byLogical EXCEPT ![i] = None]
    /\ byRelation' = IF Registered(i)
                     THEN [byRelation EXCEPT ![byLogical[i]] = @ \ {i}]
                     ELSE byRelation

\* clear()
Clear ==
    /\ byLogical' = [i \in Ids |-> None]
    /\ byRelation' = [x \in Relations |-> {}]

CacheNext ==
    \/ \E u \in Uses : Register(u[1], u[2])
    \/ \E i \in Ids : Unregister(i)
    \/ Clear

CacheSpec == CacheInit /\ [][CacheNext]_cache

-----------------------------------------------------------------------------
CacheTypeOK ==
    /\ byLogical \in [Ids -> Relations \union {None}]
    /\ byRelation \in [Relations -> SUBSET Ids]

\* Every id is registered with one relation only.
Functional == \A u, v \in Uses : u[1] = v[1] => u[2] = v[2]

\* The two dictionaries agree: the set of a relation holds the ids whose records
\* name it, and no other.
IndexesAgree == \A x \in Relations : byRelation[x] = {i \in Ids : byLogical[i] = x}

\* The cache is one table with right answers.
Contract == INSTANCE DiscoveryContract WITH relation <- byLogical, members <- byRelation
ImplementsContract == Contract!Spec
=============================================================================
