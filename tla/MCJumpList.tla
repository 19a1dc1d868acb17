----------------------------- MODULE MCJumpList -----------------------------
(* Two clients, two sessions, four windows and a pane that may move or die.  *)
EXTENDS JumpList, TLC

CONSTANTS c1, c2, s1, s2, w1, w2, w3, w4, p1

MCSessOf == [w \in {w1, w2, w3, w4} |-> IF w = w4 THEN s2 ELSE s1]

\* The clients are alike, and so are the three windows of s1.
Alike == Permutations({c1, c2}) \cup Permutations({w1, w2, w3})
=============================================================================
