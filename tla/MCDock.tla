------------------------------- MODULE MCDock -------------------------------
(* Three windows in two sessions.  The second window was named by its user,  *)
(* the first or the third is too narrow for a column; a second client comes. *)
EXTENDS Dock

CONSTANTS s1, s2, w1, w2, w3, p1, p2, b1, b2, c1

MCSessOf == [w \in Window |-> IF w = w3 THEN s2 ELSE s1]
=============================================================================
