------------------------------ MODULE AsyncIface ------------------------------
(***************************************************************************)
(* What the interface bee::async::async (bee/async/async.h) promises its   *)
(* caller, whatever the backend: a request that was accepted is reported   *)
(* at most once, in one call of poll or wait, and nothing is reported that *)
(* was not accepted.  Only cancel, for its own socket, and stop may make   *)
(* a request disappear without a report, and never inside poll or wait.    *)
(***************************************************************************)
CONSTANTS Id,    (* request ids                                            *)
          Fd,    (* sockets                                                *)
          NoFd   (* where a request that waits on no socket is filed       *)

VARIABLES pending,  (* accepted and not yet reported: <<id, fd>>           *)
          handed,   (* ids written to the caller's span by the last call   *)
          calling,  (* inside poll or wait                                 *)
          stopped   (* stop was called                                     *)

vars == <<pending, handed, calling, stopped>>

Init == pending = {} /\ handed = {} /\ calling = FALSE /\ stopped = FALSE

Ids(S) == {p[1] : p \in S}

(* submit_*: the caller reuses an id only once it has been reported. *)
Submit(id, fd) ==
    /\ ~calling /\ id \notin Ids(pending)
    /\ pending' = pending \cup {<<id, fd>>}
    /\ UNCHANGED <<handed, calling, stopped>>

(* poll or wait begins: the span is written again from its start. *)
Begin == \E S \in SUBSET pending :
    /\ ~calling /\ calling' \in BOOLEAN
    /\ pending' = pending \ S
    /\ handed' = Ids(S)
    /\ UNCHANGED stopped

(* Later in the same call: more requests are reported, and it returns. *)
Report == \E S \in SUBSET pending :
    /\ calling /\ calling' \in BOOLEAN
    /\ pending' = pending \ S
    /\ handed' = handed \cup Ids(S)
    /\ UNCHANGED stopped

Cancel(fd) ==
    /\ ~calling
    /\ \E S \in SUBSET {p \in pending : p[2] = fd} : pending' = pending \ S
    /\ UNCHANGED <<handed, calling, stopped>>

Stop ==
    /\ ~calling /\ stopped' = TRUE
    /\ \E S \in SUBSET pending : pending' = pending \ S
    /\ UNCHANGED <<handed, calling>>

Next == \/ \E id \in Id, fd \in Fd \cup {NoFd} : Submit(id, fd)
        \/ Begin \/ Report \/ Stop
        \/ \E fd \in Fd : Cancel(fd)

Spec == Init /\ [][Next]_vars
===============================================================================
