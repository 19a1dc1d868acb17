--------------------------- MODULE MCOwnedOptions ---------------------------
(* A small instance: one option on each of two sessions and of one window.   *)
EXTENDS OwnedOptions, TLC

CONSTANTS s1, s2, w1, format1, format2, rename1, u1, pad, scrub, off, unset

MCWithin == w1 :> s2
MCObjOf  == format1 :> s1 @@ format2 :> s2 @@ rename1 :> w1
MCRank  == format1 :> 1 @@ format2 :> 2 @@ rename1 :> 3
MCInitially == {format1 :> u1 @@ format2 :> unset @@ rename1 :> u1}
=============================================================================
