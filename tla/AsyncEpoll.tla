------------------------------ MODULE AsyncEpoll ------------------------------
(***************************************************************************)
(* bee/async/async_epoll_linux.cpp: the epoll backend of bee.async.  Each  *)
(* socket has at most one request per direction; epoll (level-triggered)   *)
(* says when to try it; file requests and immediate connects are queued    *)
(* as synchronous completions.  One Lua thread makes every call, while the *)
(* peers change what is ready at any time, inside poll and wait too.  Who  *)
(* is served first follows from the order of epoll's own list of ready     *)
(* sockets, which the model keeps.                                         *)
(***************************************************************************)
EXTENDS Integers, Sequences, FiniteSets

CONSTANTS Fd,           (* socket numbers                                  *)
          Id,           (* request ids                                     *)
          NoOp,         (* the null pending_op pointer                     *)
          Room,         (* size of the completions span (max_completions)  *)
          kMaxEvents,   (* the most events one epoll_wait reports          *)
          MaxLen,       (* bound: most bytes a request asks for            *)
          Status,       (* the results of an attempt the caller tells apart*)
          Wanted,       (* bound: the requests the script makes, each with *)
                        (* the sockets it makes it for                     *)
          CancelFirst   (* the script calls cancel before it closes a fd   *)

ASSUME RoomIsPositive == Room \in Nat \ {0}
ASSUME kMaxEventsIsPositive == kMaxEvents \in Nat \ {0}
ASSUME MaxLenIsPositive == MaxLen \in Nat \ {0}
ASSUME CancelFirstIsBoolean == CancelFirst \in BOOLEAN

Dir == {"in", "out"}                     (* EPOLLIN, EPOLLOUT               *)
InKind == {"read", "accept", "fd_poll"}
OutKind == {"write", "connect"}
FileKind == {"file_read", "file_write"}
Kind == InKind \cup OutKind \cup FileKind

Request == [id : Id, kind : Kind, len : 1..MaxLen]
ASSUME NoOpIsNoRequest == NoOp \notin Request
ASSUME WantedAreRequests ==
    /\ DOMAIN Wanted \subseteq Request
    /\ \A r \in DOMAIN Wanted : Wanted[r] \subseteq Fd

ASSUME StatusOK == {"success"} \subseteq Status /\ Status \subseteq {"success", "close", "error"}
Completion == [id : Id, kind : Kind, status : Status, bytes : 0..MaxLen]

VARIABLES open,   (* m_epfd >= 0                                           *)
          state,  (* m_fd_states: fd -> its two requests and events mask   *)
          sync,   (* m_sync_completions                                    *)
          armed,  (* the kernel: fd -> mask registered with epoll_ctl      *)
          list,   (* the kernel: the sockets to look at in the next        *)
                  (* epoll_wait, in order: <<g, fd>> when g is fd or is    *)
                  (* ahead of it                                           *)
          phase,  (* "lua": in the script; "drain": before epoll_wait;     *)
                  (* "events": in the loop over its events                 *)
          batch,  (* fd -> events fetched by epoll_wait, not yet handled   *)
          out,    (* the caller's span, as far as it has been written      *)
          up,     (* the open sockets                                      *)
          ready   (* the kernel: fd -> readable, writable, hung up         *)

world == <<up, ready>>
call == <<phase, batch, out>>
backend == <<open, state, sync, armed, list>>
vars == <<backend, call, world>>

Idle == [op |-> [d \in Dir |-> NoOp], events |-> {}]   (* no map entry *)
NoEvents == [fd \in Fd |-> {}]

Init ==
    /\ open = TRUE /\ sync = <<>>
    /\ state = [fd \in Fd |-> Idle] /\ armed = NoEvents /\ list = {}
    /\ phase = "lua" /\ batch = NoEvents /\ out = <<>>
    /\ up = Fd /\ ready = NoEvents

Mask(ops) == {d \in Dir : ops[d] # NoOp}

Entry(ops) == [op |-> ops, events |-> Mask(ops)]

Listed == {fd \in Fd : <<fd, fd>> \in list}

(* The list once fd is registered for mask with ev ready: a socket that    *)
(* shows an event goes to the end, unless it has a place already; one that *)
(* has no event left keeps its place until it is looked at; one that is no *)
(* longer registered is taken out.                                         *)
ListWith(fd, mask, ev) ==
    IF mask = {} THEN {p \in list : fd \notin {p[1], p[2]}}
    ELSE IF ev \cap (mask \cup {"hup"}) = {} \/ fd \in Listed THEN list
    ELSE list \cup ((Listed \cup {fd}) \X {fd})

-------------------------------------------------------------------------------
(* Submissions.  A refusal changes nothing, so only acceptance is a step.  *)

(* epoll_ctl: ADD of an absent fd, MOD of a present one.  The code asks    *)
(* for ADD when it has recorded no events for the fd.                      *)
CtlAccepts(fd) == open /\ fd \in up /\ (state[fd].events = {} <=> armed[fd] = {})

FdArm(fd, e) ==
    /\ CtlAccepts(fd)
    /\ state' = [state EXCEPT ![fd] = e]
    /\ armed' = [armed EXCEPT ![fd] = e.events]
    /\ list' = ListWith(fd, e.events, ready[fd])

Submit(fd, d, r) ==
    /\ phase = "lua" /\ state[fd].op[d] = NoOp
    /\ FdArm(fd, Entry([state[fd].op EXCEPT ![d] = r]))
    /\ UNCHANGED <<open, sync, world>>

SubmitIn(fd, r) == r.kind \in InKind /\ Submit(fd, "in", r)
SubmitWrite(fd, r) == r.kind = "write" /\ Submit(fd, "out", r)

Queue(r, status, n) ==
    /\ phase = "lua"
    /\ sync' = Append(sync, [id |-> r.id, kind |-> r.kind, status |-> status, bytes |-> n])
    /\ UNCHANGED <<open, state, armed, list, world>>

(* connect succeeds at once, or waits for the socket to become writable. *)
SubmitConnect(fd, r) ==
    /\ r.kind = "connect" /\ fd \in up
    /\ Queue(r, "success", 0) \/ Submit(fd, "out", r)

(* pread and pwrite are called on the spot. *)
SubmitFile(r) ==
    /\ r.kind \in FileKind
    /\ \/ \E n \in 0..r.len : Queue(r, "success", n)
       \/ "error" \in Status /\ Queue(r, "error", 0)

(* Mutant of Cancel: the registration outlives the requests. *)
CancelKeepingEpoll(fd) ==
    /\ phase = "lua"
    /\ state' = [state EXCEPT ![fd] = Idle]
    /\ UNCHANGED <<open, sync, armed, list, call, world>>

Cancel(fd) ==
    /\ phase = "lua"
    /\ state' = [state EXCEPT ![fd] = Idle]
    /\ armed' = [armed EXCEPT ![fd] = {}]
    /\ list' = ListWith(fd, {}, {})
    /\ UNCHANGED <<open, sync, call, world>>

Stop ==
    /\ phase = "lua"
    /\ open' = FALSE /\ armed' = NoEvents /\ list' = {}
    /\ state' = [fd \in Fd |-> Idle]
    /\ UNCHANGED <<sync, call, world>>

-------------------------------------------------------------------------------
(* poll and wait *)

(* Mutant of Take: the queue is copied, not drained. *)
TakeCopy(k) == out' = SubSeq(sync, 1, k) /\ sync' = sync

Take(k) == out' = SubSeq(sync, 1, k) /\ sync' = SubSeq(sync, k + 1, Len(sync))

(* The synchronous completions that fit come first.  poll goes on to the   *)
(* sockets if there is room left, wait only if there were none.            *)
Begin(mode) ==
    /\ phase = "lua"
    /\ LET k == IF Len(sync) < Room THEN Len(sync) ELSE Room
       IN  /\ Take(k)
           /\ phase' = IF (mode = "poll" /\ k < Room) \/ (mode = "wait" /\ k = 0)
                       THEN "drain" ELSE "lua"
    /\ UNCHANGED <<open, state, armed, list, batch, world>>

Events(fd) == IF armed[fd] = {} THEN {} ELSE ready[fd] \cap (armed[fd] \cup {"hup"})

Due == {fd \in Listed : Events(fd) # {}}

(* epoll_wait goes down the list until it has kMaxEvents sockets with an   *)
(* event.                                                                  *)
Reached ==
    {fd \in Listed : Cardinality({g \in Due \ {fd} : <<g, fd>> \in list}) < kMaxEvents}

(* What it reports goes back to the end of the list (level-triggered), in  *)
(* the order of the report; what had no event is out of it.                *)
ListAfter(fetched, rest) ==
    {p \in list : {p[1], p[2]} \subseteq fetched \/ {p[1], p[2]} \subseteq rest}
    \cup (rest \X fetched)

(* It comes back without any event on a timeout, a signal, or a closed     *)
(* epoll fd.                                                               *)
Fetch ==
    /\ phase = "drain"
    /\ batch' = [fd \in Fd |-> IF fd \in Reached THEN Events(fd) ELSE {}]
    /\ list' = ListAfter(Reached \cap Due, Listed \ Reached)
    /\ phase' = IF batch' = NoEvents THEN "lua" ELSE "events"
    /\ UNCHANGED <<out, open, state, sync, armed, world>>

(* A hang-up or error is passed on to both directions. *)
Reported(fd) == IF "hup" \in batch[fd] THEN Dir ELSE batch[fd]

(* Whether the attempt gives a result: recv, send and accept may say wait  *)
(* when somebody else took what epoll reported; the others always answer.  *)
Answers(fd, d) ==
    \/ state[fd].op[d].kind \in {"fd_poll", "connect"}
    \/ ready[fd] \cap {d, "hup"} # {}

(* The directions whose request completes: the read half first, the write  *)
(* half only if there is room left for its completion.                     *)
Served(fd) ==
    LET both == {d \in Reported(fd) : state[fd].op[d] # NoOp /\ Answers(fd, d)}
    IN  IF both = Dir /\ Len(out) + 1 = Room THEN {"in"} ELSE both

(* What the attempt at a request may report. *)
Outcomes(r) ==
    {c \in [id : {r.id}, kind : {r.kind}, status : Status, bytes : 0..r.len] :
        /\ c.status = "close" => r.kind = "read"
        /\ c.status = "error" => r.kind # "fd_poll"
        /\ c.bytes > 0 <=> c.status = "success" /\ r.kind \in {"read", "write"}}

Reports(fd, d) == IF d \in Served(fd) THEN {<<c>> : c \in Outcomes(state[fd].op[d])}
                                     ELSE {<<>>}

(* Mutant of Without: the write request is forgotten with the read one. *)
WithoutMask(e, served) ==
    [op |-> [d \in Dir |-> IF d \in served THEN NoOp ELSE e.op[d]], events |-> {}]

(* Mutant of Without: the request stays in its slot. *)
WithoutNone(e, served) == e

(* The requests served are deleted; the mask follows what is left. *)
Without(e, served) == Entry([d \in Dir |-> IF d \in served THEN NoOp ELSE e.op[d]])

(* One iteration of the loop over the events, which come in the order of   *)
(* the list.  What was read or written may leave the socket no longer      *)
(* ready (gone).                                                           *)
Handle(fd) ==
    /\ phase = "events" /\ batch[fd] # {} /\ Len(out) < Room
    /\ \A g \in Fd \ {fd} : batch[g] # {} => <<g, fd>> \notin list
    /\ \E i \in Reports(fd, "in"), o \in Reports(fd, "out") : out' = out \o i \o o
    /\ \E gone \in SUBSET Served(fd) : ready' = [ready EXCEPT ![fd] = @ \ gone]
    /\ IF Served(fd) = {} THEN UNCHANGED <<state, armed, list>>
       ELSE LET e == Without(state[fd], Served(fd))
            IN  /\ state' = [state EXCEPT ![fd] = e]
                /\ armed' = [armed EXCEPT ![fd] = e.events]
                /\ list' = ListWith(fd, e.events, ready[fd])
    /\ batch' = [batch EXCEPT ![fd] = {}]
    /\ UNCHANGED <<open, sync, phase, up>>

(* The loop ends with the events, or with the room: what was fetched and   *)
(* not handled is reported again by the next epoll_wait.                   *)
Return ==
    /\ phase = "events" /\ (batch = NoEvents \/ Len(out) = Room)
    /\ phase' = "lua" /\ batch' = NoEvents
    /\ UNCHANGED <<out, backend, world>>

-------------------------------------------------------------------------------
(* The world: peers, other users of the sockets, and the script's own      *)
(* close, which makes the kernel forget the registration.                  *)

Arrive(fd, ev) ==
    /\ fd \in up /\ ready' = [ready EXCEPT ![fd] = @ \cup {ev}]
    /\ list' = ListWith(fd, armed[fd], ready'[fd])
    /\ UNCHANGED <<open, state, sync, armed, call, up>>

Depart(fd, d) ==
    /\ ready' = [ready EXCEPT ![fd] = @ \ {d}]
    /\ UNCHANGED <<backend, call, up>>

CloseFd(fd) ==
    /\ phase = "lua" /\ fd \in up
    /\ CancelFirst => state[fd] = Idle
    /\ up' = up \ {fd}
    /\ armed' = [armed EXCEPT ![fd] = {}]
    /\ ready' = [ready EXCEPT ![fd] = {}]
    /\ list' = ListWith(fd, {}, {})
    /\ UNCHANGED <<open, state, sync, call>>

OpenFd(fd) ==
    /\ phase = "lua" /\ fd \notin up
    /\ up' = up \cup {fd}
    /\ UNCHANGED <<ready, backend, call>>

-------------------------------------------------------------------------------
Ops(fd) == {state[fd].op[d] : d \in Mask(state[fd].op)}

Ids(s) == {s[i].id : i \in DOMAIN s}

Pending == (UNION {{r.id : r \in Ops(fd)} : fd \in Fd}) \cup Ids(sync)

(* An id the script may use: reported, and the report is behind it. *)
Unused(id) == id \notin Pending \cup Ids(out)

Submission(r) ==
    /\ \/ \E fd \in Wanted[r] : SubmitIn(fd, r) \/ SubmitWrite(fd, r) \/ SubmitConnect(fd, r)
       \/ SubmitFile(r)
    /\ UNCHANGED call

PollOrWait == \E mode \in {"poll", "wait"} : Begin(mode)

Next ==
    \/ \E r \in DOMAIN Wanted : Unused(r.id) /\ Submission(r)
    \/ \E fd \in Fd : Cancel(fd) \/ Handle(fd) \/ CloseFd(fd) \/ OpenFd(fd)
    \/ Stop \/ PollOrWait \/ Fetch \/ Return
    \/ \E fd \in Fd, ev \in Dir \cup {"hup"} : Arrive(fd, ev)
    \/ \E fd \in Fd, d \in Dir : Depart(fd, d)

Spec == Init /\ [][Next]_vars

(* The script keeps polling, and not only when completions are queued that *)
(* keep it from the sockets; and the calls themselves run to their end.    *)
(* Whose turn it is among the sockets is for the list to say.              *)
Fairness ==
    /\ WF_vars(PollOrWait) /\ SF_vars(PollOrWait /\ phase' = "drain")
    /\ WF_vars(Fetch) /\ WF_vars(\E fd \in Fd : Handle(fd)) /\ WF_vars(Return)

FairSpec == Spec /\ Fairness

-------------------------------------------------------------------------------
TypeOK ==
    /\ open \in BOOLEAN
    /\ state \in [Fd -> [op : [Dir -> Request \cup {NoOp}], events : SUBSET Dir]]
    /\ \A fd \in Fd : /\ state[fd].op["in"] # NoOp => state[fd].op["in"].kind \in InKind
                      /\ state[fd].op["out"] # NoOp => state[fd].op["out"].kind \in OutKind
    /\ sync \in Seq(Completion)
    /\ armed \in [Fd -> SUBSET Dir]
    /\ list \in SUBSET (Fd \X Fd)
    /\ phase \in {"lua", "drain", "events"}
    /\ batch \in [Fd -> SUBSET (Dir \cup {"hup"})]
    /\ out \in Seq(Completion) /\ Len(out) <= Room
    /\ up \in SUBSET Fd
    /\ ready \in [Fd -> SUBSET (Dir \cup {"hup"})]

(* fd_state::events is what the kernel has registered, and asks for the    *)
(* directions that have a request and for no other: a request cannot wait  *)
(* for an event nobody watches, and no event finds an empty slot.          *)
EventsAreRegistered ==
    \A fd \in Fd : /\ state[fd].events = armed[fd]
                   /\ armed[fd] = Mask(state[fd].op)

(* No call gets as far as epoll_wait, where it may block, while a          *)
(* completion that is already known stays in the queue.                    *)
NoBlockingOnQueued == phase # "lua" => sync = <<>>

(* The interface's promise: every accepted request is reported at most     *)
(* once, none is lost inside poll or wait when the span is too short, when *)
(* the attempt says wait, or when one event completes both directions.     *)
Filed == (UNION {{<<r.id, fd>> : r \in Ops(fd)} : fd \in Fd})
         \cup {<<sync[i].id, NoOp>> : i \in DOMAIN sync}
Iface == INSTANCE AsyncIface WITH
             NoFd <- NoOp, pending <- Filed, handed <- Ids(out),
             calling <- phase # "lua", stopped <- ~open
ImplementsIface == Iface!Spec

(* A read whose socket stays ready is served, or cancelled, and so is a    *)
(* write unless reads on the same socket keep completing, whatever short   *)
(* spans, attempts that say wait and the queue do in between: as long as   *)
(* one epoll_wait can report every socket, and unless another socket has   *)
(* requests in both directions again and again.  (The requests of such a   *)
(* socket are only ever modified out of the mask, never deleted, so that   *)
(* it keeps its place at the head of the list; with one slot left for the  *)
(* sockets in each call it takes it every time.  Reads on the same socket  *)
(* starve the write in this way too, since the read half comes first.)     *)
ReadyIsServed ==
    Cardinality(Fd) <= kMaxEvents =>
    \A fd \in Fd :
        LET Has(d) == state[fd].op[d] # NoOp
            OthersOneWay == \A g \in Fd \ {fd} : <>[](Mask(state[g].op) # Dir)
        IN  OthersOneWay =>
            /\ <>[]("in" \in ready[fd]) => []<>~Has("in")
            /\ <>[]("out" \in ready[fd]) /\ (<>[]Has("in") \/ <>[]~Has("in"))
               => []<>~Has("out")
===============================================================================
