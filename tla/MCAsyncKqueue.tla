----------------------------- MODULE MCAsyncKqueue ----------------------------
(* Two sockets; two requests that compete for a read filter, one for a     *)
(* write filter, and a file request that takes room from the span.         *)
EXTENDS AsyncKqueue

CONSTANTS f1, f2, r, p, w, x

MCFd == {f1, f2}
MCId == {r, p, w, x}
MCWanted == {[id |-> r, kind |-> "read"], [id |-> p, kind |-> "fd_poll"],
             [id |-> w, kind |-> "write"], [id |-> w, kind |-> "connect"],
             [id |-> x, kind |-> "file_read"]}
===============================================================================
