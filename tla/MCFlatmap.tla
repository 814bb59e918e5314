------------------------------- MODULE MCFlatmap -------------------------------
(* Six keys that collide at the end of the first table (slots 6 and 7 of   *)
(* 8, so that probes wrap), two pairs of them in the second (of 32) too.   *)
(* With six entries the next insertion, even of a key already there, makes *)
(* the table grow; four at slot 6 can reach the small kMaxDistance.        *)
EXTENDS Flatmap

MCKey == 1..6
MCHash == <<6, 38, 14, 46, 7, 0>>
===============================================================================
