------------------------------ MODULE MCDetect ------------------------------
(* One pane between two windows: agents share nothing but the tick.          *)
EXTENDS Detect

CONSTANTS p1, w1, w2, claude, codex
=============================================================================
