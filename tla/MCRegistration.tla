--------------------------- MODULE MCRegistration ---------------------------
(* Two devices, one of them with two entities. *)
EXTENDS Registration

CONSTANTS d1, d2, e1, e2, e3

MCOwnerOf == [e \in {e1, e2, e3} |-> IF e = e3 THEN d2 ELSE d1]
MCListing ==
    [ds \in SUBSET {d1, d2} |-> SelectSeq(<<e1, e2, e3>>, LAMBDA e : MCOwnerOf[e] \in ds)]
MCUses == {<<e, e>> : e \in {e1, e2, e3}}
=============================================================================
