-------------------------- MODULE DiscoveryContract --------------------------
(***************************************************************************)
(* What the discovery cache promises its users: one table that says which  *)
(* ids are registered and to which relation (a physical device) each       *)
(* belongs, and at every moment the right answer to "which registered ids  *)
(* belong to this relation?".                                              *)
(***************************************************************************)
CONSTANTS Ids, Relations, None

VARIABLES
    relation,   \* the relation of each registered id, None of any other
    members     \* the answer for each relation

\* The ids that a table r assigns to relation x.
MembersOf(r, x) == {i \in Ids : r[i] = x}

Answers(r) == [x \in Relations |-> MembersOf(r, x)]

Init == relation = [i \in Ids |-> None] /\ members = Answers(relation)

Update(r) == relation' = r /\ members' = Answers(r)

Register(i, x) == Update([relation EXCEPT ![i] = x])
Unregister(i) == Update([relation EXCEPT ![i] = None])
Clear == Update([i \in Ids |-> None])

Next ==
    \/ \E i \in Ids, x \in Relations : Register(i, x)
    \/ \E i \in Ids : Unregister(i)
    \/ Clear

Spec == Init /\ [][Next]_<<relation, members>>
=============================================================================
