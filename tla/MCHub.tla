------------------------------- MODULE MCHub -------------------------------
(* A client of a world with two entities, one of them there from the start.  *)
EXTENDS Hub

CONSTANTS c1, e1, e2, v, x, y

MCFirst == {[e \in {e1, e2} |-> IF e = e1 THEN v ELSE None]}
=============================================================================
