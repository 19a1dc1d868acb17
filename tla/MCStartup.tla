------------------------------ MODULE MCStartup ------------------------------
(* Two clients, and as many daemons as they and two faults can start.        *)
EXTENDS Startup, TLC

CONSTANTS c1, c2, d1, d2, d3
MCClients == {c1, c2}
MCReaders == {c2}
MCDaemons == {d1, d2, d3}
=============================================================================
