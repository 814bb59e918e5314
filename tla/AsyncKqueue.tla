------------------------------ MODULE AsyncKqueue ------------------------------
(***************************************************************************)
(* bee/async/async_bsd.cpp: the kqueue backend of bee.async.  Every        *)
(* request is an allocated pending_op whose address the kernel keeps as    *)
(* the udata of a one-shot event, keyed by socket and filter; an event     *)
(* that is fetched is no longer registered.  m_pending_ops owns the        *)
(* objects.  What a completion carries besides its id is left out.         *)
(***************************************************************************)
EXTENDS Integers, Sequences, FiniteSets

CONSTANTS Fd,         (* socket numbers                                    *)
          Id,         (* request ids                                       *)
          NoOp,       (* no registration; the socket of a file request     *)
          Room,       (* size of the completions span (max_completions)    *)
          kMaxEvents, (* events fetched by one kevent call                 *)
          Wanted      (* bound: the requests the script makes              *)

Filter == {"read", "write"}              (* EVFILT_READ, EVFILT_WRITE      *)
ReadKind == {"read", "accept", "fd_poll"}
WriteKind == {"write", "connect"}
SocketKind == ReadKind \cup WriteKind
FileKind == {"file_read", "file_write"}

Request == [id : Id, kind : SocketKind \cup FileKind]
PendingOp == [id : Id, kind : SocketKind, fd : Fd]

ASSUME Constants == /\ Room \in Nat \ {0} /\ kMaxEvents \in Nat \ {0}
                    /\ Wanted \subseteq Request
                    /\ NoOp \notin PendingOp \cup Fd

VARIABLES open,     (* m_kqfd >= 0                                         *)
          pending,  (* m_pending_ops                                       *)
          sync,     (* m_sync_completions: the ids                         *)
          kq,       (* the kernel: socket, filter -> udata                 *)
          phase,    (* "lua", "drain" before kevent, "events" after it     *)
          batch,    (* the udata of the events fetched and not yet handled *)
          out,      (* the caller's span: ids, as far as it is written     *)
          up,       (* the open sockets                                    *)
          ready,    (* the kernel: socket -> filters that would fire       *)
          replaced, (* history: pending ops whose event another took over, *)
          dropped,  (* was fetched for a span without room,                *)
          lapsed    (* or ended with its socket, closed without cancel     *)

world == <<up, ready>>
call == <<phase, batch, out>>
history == <<replaced, dropped, lapsed>>
vars == <<open, pending, sync, kq, call, world, history>>

Unregistered == [f \in Filter |-> NoOp]

Init ==
    /\ open = TRUE /\ pending = {} /\ sync = <<>>
    /\ kq = [fd \in Fd |-> Unregistered]
    /\ phase = "lua" /\ batch = {} /\ out = <<>>
    /\ up = Fd /\ ready = [fd \in Fd |-> {}]
    /\ replaced = {} /\ dropped = {} /\ lapsed = {}

(* The filter that submit_* and handle_event name for each kind. *)
EVFILT(kind) == IF kind \in WriteKind THEN "write" ELSE "read"

-------------------------------------------------------------------------------
(* Submissions.  A refusal changes nothing, so only acceptance is a step.  *)

(* EV_ADD of a socket and filter already there replaces its udata. *)
kqueue_register(op) ==
    LET f == EVFILT(op.kind) IN
    /\ open /\ op.fd \in up
    /\ kq' = [kq EXCEPT ![op.fd][f] = op]
    /\ replaced' = replaced \cup ({kq[op.fd][f]} \ {NoOp})

Submit(r, fd) ==
    LET op == [id |-> r.id, kind |-> r.kind, fd |-> fd] IN
    /\ phase = "lua" /\ r.kind \in SocketKind
    /\ kqueue_register(op)
    /\ pending' = pending \cup {op}
    /\ UNCHANGED <<open, sync, call, world, dropped, lapsed>>

(* Files are read and written on the spot, and a connect may succeed so. *)
Complete(r) ==
    /\ phase = "lua" /\ r.kind \in FileKind \cup {"connect"}
    /\ sync' = Append(sync, r.id)
    /\ UNCHANGED <<open, pending, kq, call, world, history>>

Forget(ops) == /\ pending' = pending \ ops
               /\ replaced' = replaced \ ops
               /\ dropped' = dropped \ ops
               /\ lapsed' = lapsed \ ops

(* Mutant of op_filter: a pending connect is looked for among the reads. *)
op_filter_connect(kind) == IF kind = "write" THEN "write" ELSE "read"

op_filter(kind) == IF kind \in {"write", "connect"} THEN "write" ELSE "read"

(* Each op of the socket is deleted, after the event of its filter. *)
cancel(fd) ==
    /\ phase = "lua"
    /\ LET ops == {op \in pending : op.fd = fd} IN
          /\ Forget(ops)
          /\ kq' = [kq EXCEPT ![fd] = [f \in Filter |->
                        IF \E op \in ops : op_filter(op.kind) = f THEN NoOp ELSE @[f]]]
    /\ UNCHANGED <<open, sync, call, world>>

stop ==
    /\ phase = "lua"
    /\ open' = FALSE
    /\ kq' = [fd \in Fd |-> Unregistered]
    /\ Forget(pending)
    /\ UNCHANGED <<sync, call, world>>

-------------------------------------------------------------------------------
(* poll and wait *)

(* The synchronous completions that fit come first.  poll goes on to the   *)
(* kernel if there is room left, wait only if there were none.             *)
Begin(mode) ==
    /\ phase = "lua"
    /\ LET k == IF Len(sync) < Room THEN Len(sync) ELSE Room
       IN  /\ out' = SubSeq(sync, 1, k)
           /\ sync' = SubSeq(sync, k + 1, Len(sync))
           /\ phase' = IF (mode = "poll" /\ k < Room) \/ (mode = "wait" /\ k = 0)
                       THEN "drain" ELSE "lua"
    /\ UNCHANGED <<open, pending, kq, batch, world, history>>

Firing == {k \in Fd \X Filter : kq[k[1]][k[2]] # NoOp /\ k[2] \in ready[k[1]]}

(* kevent fetches what fires, as much as its array holds, and each event   *)
(* fetched is deleted from the queue (EV_ONESHOT); it fetches nothing on a *)
(* timeout, a signal, or a closed kqueue.                                  *)
kevent ==
    /\ phase = "drain"
    /\ \E keys \in SUBSET Firing :
          /\ Cardinality(keys) = IF Cardinality(Firing) < kMaxEvents
                                 THEN Cardinality(Firing) ELSE kMaxEvents
          /\ batch' = {kq[k[1]][k[2]] : k \in keys}
          /\ kq' = [fd \in Fd |-> [f \in Filter |->
                        IF <<fd, f>> \in keys THEN NoOp ELSE kq[fd][f]]]
          /\ phase' = IF keys = {} THEN "lua" ELSE "events"
    /\ UNCHANGED <<open, pending, sync, out, world, history>>

(* Mutant of Report: the op stays in m_pending_ops. *)
Report_kept(op) ==
    /\ phase = "events" /\ op \in batch /\ Len(out) < Room
    /\ op.kind \in {"connect", "fd_poll"} \/ EVFILT(op.kind) \in ready[op.fd]
    /\ out' = Append(out, op.id)
    /\ batch' = batch \ {op}
    /\ UNCHANGED <<open, pending, sync, kq, phase, world, history>>

(* handle_event: the attempt gives a result, and the op is deleted.        *)
Report(op) ==
    /\ phase = "events" /\ op \in batch /\ Len(out) < Room
    /\ op.kind \in {"connect", "fd_poll"} \/ EVFILT(op.kind) \in ready[op.fd]
    /\ out' = Append(out, op.id)
    /\ pending' = pending \ {op}
    /\ batch' = batch \ {op}
    /\ \E gone \in SUBSET {EVFILT(op.kind)} : ready' = [ready EXCEPT ![op.fd] = @ \ gone]
    /\ UNCHANGED <<open, sync, kq, phase, up, history>>

(* Mutant of kqueue_rearm: a spurious wakeup just forgets the event. *)
kqueue_rearm_not(op) ==
    /\ phase = "events" /\ op \in batch /\ Len(out) < Room
    /\ op.kind \in {"read", "accept", "write"} /\ EVFILT(op.kind) \notin ready[op.fd]
    /\ batch' = batch \ {op}
    /\ UNCHANGED <<open, pending, sync, kq, phase, out, world, history>>

(* handle_event: the attempt says wait (somebody else took what kevent     *)
(* reported).  The op is registered again, or, when the kernel refuses,    *)
(* reported with EAGAIN and deleted.                                       *)
kqueue_rearm(op) ==
    /\ phase = "events" /\ op \in batch /\ Len(out) < Room
    /\ op.kind \in {"read", "accept", "write"} /\ EVFILT(op.kind) \notin ready[op.fd]
    /\ kqueue_register(op)
    /\ batch' = batch \ {op}
    /\ UNCHANGED <<open, pending, sync, phase, out, world, dropped, lapsed>>

rearm_refused(op) ==
    /\ phase = "events" /\ op \in batch /\ Len(out) < Room
    /\ op.kind \in {"read", "accept", "write"} /\ EVFILT(op.kind) \notin ready[op.fd]
    /\ out' = Append(out, op.id)
    /\ pending' = pending \ {op}
    /\ batch' = batch \ {op}
    /\ UNCHANGED <<open, sync, kq, phase, world, history>>

(* The loop ends with the events, or with the room: the events left over   *)
(* are registered nowhere.                                                 *)
Return ==
    /\ phase = "events" /\ (batch = {} \/ Len(out) = Room)
    /\ phase' = "lua" /\ batch' = {}
    /\ dropped' = dropped \cup batch
    /\ UNCHANGED <<open, pending, sync, kq, out, world, replaced, lapsed>>

-------------------------------------------------------------------------------
(* The world: peers, other users of the sockets, and the script's close,   *)
(* which makes the kernel delete the socket's events.                      *)

Arrive(fd, f) == /\ fd \in up /\ ready' = [ready EXCEPT ![fd] = @ \cup {f}]
                 /\ UNCHANGED <<open, pending, sync, kq, call, up, history>>

Depart(fd, f) == /\ ready' = [ready EXCEPT ![fd] = @ \ {f}]
                 /\ UNCHANGED <<open, pending, sync, kq, call, up, history>>

CloseFd(fd) ==
    /\ phase = "lua" /\ fd \in up
    /\ up' = up \ {fd}
    /\ ready' = [ready EXCEPT ![fd] = {}]
    /\ kq' = [kq EXCEPT ![fd] = Unregistered]
    /\ lapsed' = lapsed \cup ({kq[fd][f] : f \in Filter} \ {NoOp})
    /\ UNCHANGED <<open, pending, sync, call, replaced, dropped>>

OpenFd(fd) == /\ phase = "lua" /\ fd \notin up
              /\ up' = up \cup {fd}
              /\ UNCHANGED <<open, pending, sync, kq, call, ready, history>>

-------------------------------------------------------------------------------
Span(s) == {s[i] : i \in DOMAIN s}

(* The caller counts its requests: an id comes back once it was reported. *)
Unused(id) == /\ \A op \in pending : op.id # id
              /\ id \notin Span(sync) \cup Span(out)

Submission(r) == Unused(r.id) /\ (Complete(r) \/ \E fd \in Fd : Submit(r, fd))

PollOrWait == \E mode \in {"poll", "wait"} : Begin(mode)

Next == \/ \E r \in Wanted : Submission(r)
        \/ \E fd \in Fd : cancel(fd) \/ CloseFd(fd) \/ OpenFd(fd)
        \/ stop \/ PollOrWait \/ kevent \/ Return
        \/ \E op \in pending : Report(op) \/ kqueue_rearm(op) \/ rearm_refused(op)
        \/ \E fd \in Fd, f \in Filter : Arrive(fd, f) \/ Depart(fd, f)

Spec == Init /\ [][Next]_vars

(* The script keeps calling, and not only when queued completions keep it  *)
(* from the kernel; the calls run to their end.                            *)
Fairness == /\ WF_vars(PollOrWait) /\ SF_vars(PollOrWait /\ phase' = "drain")
            /\ WF_vars(kevent) /\ WF_vars(Return)
            /\ WF_vars(\E op \in pending :
                           Report(op) \/ kqueue_rearm(op) \/ rearm_refused(op))

FairSpec == Spec /\ Fairness
-------------------------------------------------------------------------------
TypeOK == /\ open \in BOOLEAN
          /\ pending \in SUBSET PendingOp
          /\ sync \in Seq(Id) /\ out \in Seq(Id)
          /\ kq \in [Fd -> [Filter -> PendingOp \cup {NoOp}]]
          /\ phase \in {"lua", "drain", "events"}
          /\ batch \in SUBSET PendingOp
          /\ up \in SUBSET Fd /\ ready \in [Fd -> SUBSET Filter]
          /\ replaced \in SUBSET PendingOp
          /\ dropped \in SUBSET PendingOp
          /\ lapsed \in SUBSET PendingOp

Registered == {kq[k[1]][k[2]] : k \in Fd \X Filter} \ {NoOp}

(* The kernel, and the events fetched from it, hold only the addresses of  *)
(* pending_ops that are allocated, each in one place: no event dereferences *)
(* a request that was cancelled, reported or reported already in this loop. *)
UdataIsPending == /\ Registered \cup batch \subseteq pending
                  /\ Registered \cap batch = {}

(* A request is given up only in three ways: another took over its socket  *)
(* and filter, the span had no room left for its event, or its socket was  *)
(* closed under it.  All others wait in the kernel, spurious wakeups       *)
(* included.                                                               *)
WaitingIsRegistered ==
    pending \subseteq Registered \cup batch \cup replaced \cup dropped \cup lapsed

(* The interface's promise, for every request: reported at most once, and  *)
(* none leaves the backend inside poll or wait without a report.  (One of  *)
(* the three kinds above stays pending until cancel or stop.)              *)
Filed == {<<op.id, op.fd>> : op \in pending} \cup {<<i, NoOp>> : i \in Span(sync)}
Iface == INSTANCE AsyncIface WITH
             NoFd <- NoOp, pending <- Filed, handed <- Span(out),
             calling <- phase # "lua", stopped <- ~open
ImplementsIface == Iface!Spec

(* A request whose filter stays ready is reported, or cancelled, unless it *)
(* is lost in one of the three ways: neither queued completions nor a      *)
(* spurious wakeup starves it.                                             *)
Waiting(fd, f) == {op \in pending \ (replaced \cup dropped \cup lapsed) :
                       op.fd = fd /\ EVFILT(op.kind) = f}
ReadyIsServed ==
    \A fd \in Fd, f \in Filter :
        <>[](f \in ready[fd]) => []<>(Waiting(fd, f) = {})
===============================================================================
