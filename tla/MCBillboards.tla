---------------------------- MODULE MCBillboards ----------------------------
(* Two windows, alike, of one row; see the README for the bounds. *)
EXTENDS Billboards

CONSTANTS a, b
=============================================================================
