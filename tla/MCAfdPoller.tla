----------------------------- MODULE MCAfdPoller -----------------------------
(* Two sockets, two addresses and one direction for TLC.              *)
EXTENDS AfdPoller

CONSTANTS s1, s2, o1, o2

MCSock == {s1, s2}
MCObj == {o1, o2}
MCDir == {"in"}
MCMasks == {{}, {"in"}, {"in", "oneshot"}}
===============================================================================
