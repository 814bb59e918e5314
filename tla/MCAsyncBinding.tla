---------------------------- MODULE MCAsyncBinding ----------------------------
(* One socket, one or two write_bufs and one read_buf under the binding,   *)
(* for TLC.                                                                *)
EXTENDS AsyncBinding

CONSTANTS f1, w1, w2, b1, ur, uw

MCFd == {f1}
MCWB == {w1}
MCTwoWB == {w1, w2}
MCRB == {b1}
MCUdata == {ur, uw}
MCId == ({0, NOREF} \cup 2..MaxStack) \X ({NOREF} \cup 2..MaxStack)

(* An accept stands for the fd_poll and a file_read for the file_write     *)
(* that are handled alike.  A write is made beside one request of any      *)
(* other kind.                                                             *)
MCUdataOf(kind) == IF kind = "write" THEN {uw} ELSE {ur}

MCOneBesides == [tok \in Udata |-> IF tok = uw THEN 2 ELSE 1]
MCTwoEach == [tok \in Udata |-> 2]

Only(kinds) == [kind \in Kind |-> IF kind \in kinds THEN MCUdataOf(kind) ELSE {}]

MCStreamOnly == Only({"read", "write"})
MCAll == Only({"read", "write", "accept", "connect", "file_read"})

(* The binding makes the backend's requests. *)
MCNoRequests == <<>>
===============================================================================
