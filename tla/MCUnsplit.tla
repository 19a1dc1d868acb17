------------------------------ MODULE MCUnsplit ------------------------------
(* The handler of hello joins two commands by itself and sends them as one    *)
(* (router.go:221); the next one of the loop sends a command.                 *)
EXTENDS Control

Unsplit == {<<[n |-> 1, cmds |-> 1]>>, <<[n |-> 1, cmds |-> 2]>>}
=============================================================================
