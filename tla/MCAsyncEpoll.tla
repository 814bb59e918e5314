---------------------------- MODULE MCAsyncEpoll -----------------------------
(* The epoll backend with two sockets, for TLC.  Two requests of the in    *)
(* direction take turns on the socket that is written to, so that it       *)
(* always has one, and two of files, so that one always takes room in the  *)
(* span: a read of the other socket competes for what is left.             *)
EXTENDS AsyncEpoll

CONSTANTS f1, f2, r, s, t, w, x, y

MCFd == {f1, f2}
MCId == {r, s, t, w, x, y}

MCKind == [id \in MCId |-> CASE id = t -> "fd_poll" [] id = w -> "write"
                            [] id \in {x, y} -> "file_read" [] OTHER -> "read"]

MCSocket == [id \in MCId |-> CASE id \in {r, t, w} -> {f1} [] id = s -> {f2} [] OTHER -> {}]

MCRequest(id) == [id |-> id, kind |-> MCKind[id], len |-> 1]
MCWanted == [q \in {MCRequest(id) : id \in MCId} |-> MCSocket[q.id]]
===============================================================================
