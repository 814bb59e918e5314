---------------------------- MODULE MCEpollBinding ----------------------------
(* Two socket numbers, two socket objects and one value for TLC.         *)
EXTENDS EpollBinding, TLC

CONSTANTS f1, f2, s1, s2, u

MCFd == {f1, f2}
MCSock == {s1, s2}
MCValue == {u}

(* Nothing tells two sockets, or two numbers, apart. *)
MCSymmetry == Permutations(MCSock) \cup Permutations(MCFd)
===============================================================================
