------------------------------ MODULE MCControl ------------------------------
(* The calls of the handlers: one command, a line of two, two lines in one    *)
(* write, a diff that is empty on one side.                                   *)
EXTENDS Control

MCCalls == {<<[n |-> 1, cmds |-> 1]>>,
            <<[n |-> 2, cmds |-> 2]>>,
            <<[n |-> 2, cmds |-> 2], [n |-> 1, cmds |-> 1]>>,
            <<[n |-> 0, cmds |-> 0], [n |-> 1, cmds |-> 1]>>}

ASSUME WellFormed
=============================================================================
