----------------------------- MODULE MCSubprocess ------------------------------
(* Two handles, two pids and two descriptors beside 0: each number can go  *)
(* from one handle to a stranger or to the other handle.                   *)
EXTENDS Subprocess, TLC

CONSTANTS h1, h2, p1, p2, f0, f1, f2

MCHandle == {h1, h2}
MCPid == {p1, p2}
MCFd == {f0, f1, f2}

MCSymmetry == Permutations(MCHandle) \cup Permutations(MCPid) \cup Permutations({f1, f2})
===============================================================================
