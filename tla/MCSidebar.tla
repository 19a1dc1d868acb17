------------------------------ MODULE MCSidebar ------------------------------
(* Two sessions, one of them with a branch and two agents.                   *)
EXTENDS Sidebar, TLC

CONSTANTS s1, s2, a1, a2
MCSessions == {s1, s2}
MCAgents   == {a1, a2}
MCHome     == [a \in MCAgents |-> s1]
MCBranched == {s1}
MCSymmetry == Permutations(MCAgents)
=============================================================================
