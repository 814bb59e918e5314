------------------------------- MODULE AfdPoller -------------------------------
(***************************************************************************)
(* bee/win/afd: epoll for Windows.  Each registered socket has a poller_fd,*)
(* which asks the AFD driver for one poll at a time and finds the answer   *)
(* in a completion port.  A poll that is under way cannot be changed, only *)
(* cancelled, and completes even then: changes are queued (update_queue)   *)
(* and made at the start of wait, and a poller_fd whose poll is under way  *)
(* is freed when that completes.                                           *)
(***************************************************************************)
EXTENDS Integers, FiniteSets

CONSTANTS Sock,         (* socket handles: numbers that are used again     *)
          Obj,          (* addresses of poller_fd objects                  *)
          Dir,          (* the directions a socket can be ready for        *)
          Masks,        (* what scripts ask for, of Dir and "oneshot"      *)
          Freed, NoObj, (* what is at an address, or for a handle: nothing *)
          Room          (* events.size()                                   *)

ASSUME RoomIsPositive == Room \in Nat \ {0}
ASSUME FlagsAreNoDirections == Dir \cap {"err", "oneshot", "closed"} = {}
ASSUME MasksAreMasks == Masks \subseteq SUBSET (Dir \cup {"oneshot"})
ASSUME NothingIsNoObject == NoObj \notin Obj

VARIABLES pc,      (* idle between calls; where wait is; gone              *)
          obj,     (* the poller_fd at each address                        *)
          fds,     (* poller::fds                                          *)
          queue,   (* update_queue; in its loop, what iter has not reached *)
          poll,    (* the poll of each poller_fd: whether the driver has   *)
                   (* it, or the port, or wait's batch; what was asked, or *)
                   (* what was answered                                    *)
          events,  (* what wait has put into events                        *)
          open,    (* sockets that are open                                *)
          ready,   (* directions that are ready                            *)
          missed,  (* history: erased over by the update loop              *)
          strayed  (* history: a socket was closed before ctl_del          *)

calls == <<pc, obj, fds, queue, poll, events, missed>>
vars == <<calls, open, ready, strayed>>

(* bpoll_event::err, which is always asked for, stands for hup too.        *)
Event == Dir \cup {"err"}
Mask == SUBSET (Event \cup {"oneshot"})
Asked(mask) == mask \ {"oneshot"}
Poller_fd == [sock : Sock, user : Mask, pend : SUBSET Event,
              status : {"idle", "pending", "cancelled"}, del : BOOLEAN]
NoPoll == [at |-> "none", ev |-> {}]

ASSUME FreedIsNoObject == Freed \notin Poller_fd

Init ==
    /\ pc = "idle" /\ queue = {} /\ events = {}
    /\ obj = [o \in Obj |-> Freed] /\ fds = [s \in Sock |-> NoObj]
    /\ poll = [o \in Obj |-> NoPoll]
    /\ open = {} /\ ready = [s \in Sock |-> {}]
    /\ missed = {} /\ strayed = FALSE

-------------------------------------------------------------------------------
(* afd_cancel_poll: a poll that has completed is left as it is.            *)
Cancelled(o) == IF poll[o].at = "kernel" THEN [at |-> "port", ev |-> {}] ELSE poll[o]

Cancel(o) == poll' = [poll EXCEPT ![o] = Cancelled(o)]
CancelFails(o) == poll[o].at = "kernel" /\ UNCHANGED poll

(* destory_fd's unregister; its delete is Free. *)
Unregister(o) ==
    /\ fds' = [fds EXCEPT ![obj[o].sock] = NoObj]
    /\ missed' = missed \ {o}

Free(o) == obj' = [obj EXCEPT ![o] = Freed]

(* request_update *)
Enqueued(o) == queue \cup {o}

(* Whether the poll under way lacks something that is asked for.           *)
Lacking(o) == Asked(obj[o].user) \ obj[o].pend # {}

(* set_event *)
Fresh(o, user) == Asked(user) \ obj[o].pend # {}

-------------------------------------------------------------------------------
(* A call that fails without an effect is no step.                         *)

ctl_add(s, ev) ==
    /\ pc = "idle" /\ fds[s] = NoObj /\ s \in open
    /\ \E o \in Obj :
        /\ obj[o] = Freed
        /\ obj' = [obj EXCEPT ![o] = [sock |-> s, user |-> ev \cup {"err"}, pend |-> {},
                                      status |-> "idle", del |-> FALSE]]
        /\ fds' = [fds EXCEPT ![s] = o] /\ queue' = Enqueued(o)
    /\ UNCHANGED <<pc, poll, events, missed, open, ready, strayed>>

ctl_mod(s, ev) ==
    /\ pc = "idle" /\ fds[s] # NoObj
    /\ LET o == fds[s] user == ev \cup {"err"} IN
        /\ obj' = [obj EXCEPT ![o].user = user]
        /\ IF Fresh(o, user) THEN queue' = Enqueued(o) /\ missed' = missed \ {o}
                             ELSE UNCHANGED <<queue, missed>>
    /\ UNCHANGED <<pc, fds, poll, events, open, ready, strayed>>

(* The masks of a deleted object are not looked at any more.               *)
Deleted(o, status) ==
    obj' = [obj EXCEPT ![o].del = TRUE, ![o].status = status, ![o].user = {}, ![o].pend = {}]

(* Mutant of destroy_busy: the object goes although its poll is under way. *)
destroy_now(o) == (Cancel(o) \/ CancelFails(o)) /\ Free(o)

(* destroy of an object whose poll is under way.                           *)
destroy_busy(o) ==
    \/ obj[o].status = "pending" /\ Cancel(o) /\ Deleted(o, "cancelled")
    \/ obj[o].status = "pending" /\ CancelFails(o) /\ Deleted(o, "pending")
    \/ obj[o].status = "cancelled" /\ Deleted(o, "cancelled") /\ UNCHANGED poll

ctl_del(s) ==
    /\ pc = "idle" /\ fds[s] # NoObj
    /\ LET o == fds[s] IN
        /\ Unregister(o) /\ queue' = queue \ {o}
        /\ IF obj[o].status = "idle" THEN Free(o) /\ UNCHANGED poll ELSE destroy_busy(o)
    /\ UNCHANGED <<pc, events, open, ready, strayed>>

(* ~poller: closing the driver's handle ends the polls, but objects that   *)
(* wait for theirs are in fds no more.                                     *)
bpoll_close ==
    /\ pc = "idle" /\ pc' = "gone"
    /\ obj' = [o \in Obj |-> IF \E s \in Sock : fds[s] = o THEN Freed ELSE obj[o]]
    /\ fds' = [s \in Sock |-> NoObj] /\ poll' = [o \in Obj |-> NoPoll]
    /\ queue' = {} /\ missed' = {}
    /\ UNCHANGED <<events, open, ready, strayed>>

-------------------------------------------------------------------------------
wait ==
    /\ pc = "idle" /\ pc' = "update"
    /\ UNCHANGED <<obj, fds, queue, poll, events, missed, open, ready, strayed>>

(* update of one object that needs nothing, or that is given a poll for    *)
(* what is asked now.  A visited object stays in update_queue until it is  *)
(* cleared, but nobody looks at it there.                                  *)
update_kept(o) ==
    /\ pc = "update" /\ o \in queue /\ queue' = queue \ {o}
    /\ obj[o].status = "cancelled" \/ (obj[o].status = "pending" /\ ~Lacking(o))
    /\ UNCHANGED <<pc, obj, fds, poll, events, missed, open, ready, strayed>>

update_cancels(o) ==
    /\ pc = "update" /\ o \in queue /\ queue' = queue \ {o}
    /\ obj[o].status = "pending" /\ Lacking(o) /\ Cancel(o)
    /\ obj' = [obj EXCEPT ![o].status = "cancelled", ![o].pend = {}]
    /\ UNCHANGED <<pc, fds, events, missed, open, ready, strayed>>

update_polls(o) ==
    /\ pc = "update" /\ o \in queue /\ queue' = queue \ {o}
    /\ obj[o].status = "idle" /\ obj[o].sock \in open
    /\ poll' = [poll EXCEPT ![o] = [at |-> "kernel", ev |-> Asked(obj[o].user)]]
    /\ obj' = [obj EXCEPT ![o].status = "pending", ![o].pend = Asked(obj[o].user)]
    /\ UNCHANGED <<pc, fds, events, missed, open, ready, strayed>>

(* What else the erase of o takes away from the loop.  Erasing shifts the  *)
(* followers of a flatset's slot back, and the iterator then goes on       *)
(* behind the slot: it may miss the next one.  (One that wraps around may  *)
(* be visited twice, which changes nothing.)                               *)
ErasedOver(o) == {{}} \cup {{x} : x \in queue \ {o}}

(* The driver knows no such handle: the object is destroyed in the loop.   *)
update_closes(o) ==
    /\ pc = "update" /\ o \in queue
    /\ obj[o].status = "idle" /\ obj[o].sock \notin open
    /\ \E x \in ErasedOver(o) :
        /\ queue' = queue \ ({o} \cup x)
        /\ fds' = [fds EXCEPT ![obj[o].sock] = NoObj] /\ missed' = (missed \cup x) \ {o}
    /\ Free(o)
    /\ UNCHANGED <<pc, poll, events, open, ready, strayed>>

(* Mutant of update_failed: the failing one is not kept. *)
update_failed_behind(o) ==
    /\ pc = "update" /\ o \in queue
    /\ obj[o].status = "idle" \/ (obj[o].status = "pending" /\ Lacking(o) /\ CancelFails(o))
    /\ pc' = "idle" /\ queue' = queue \ {o}
    /\ UNCHANGED <<obj, fds, poll, events, missed, open, ready, strayed>>

(* wait returns -1; what the loop has not done stays queued.               *)
update_failed(o) ==
    /\ pc = "update" /\ o \in queue
    /\ obj[o].status = "idle" \/ (obj[o].status = "pending" /\ Lacking(o) /\ CancelFails(o))
    /\ pc' = "idle"
    /\ UNCHANGED <<obj, fds, queue, poll, events, missed, open, ready, strayed>>

InPort == {o \in Obj : poll[o].at = "port"}
InBatch == {o \in Obj : poll[o].at = "batch"}

(* afd_wait *)
dequeue(batch) ==
    /\ pc = "update" /\ queue = {} /\ pc' = "feed"
    /\ poll' = [o \in Obj |-> IF o \in batch THEN [poll[o] EXCEPT !.at = "batch"] ELSE poll[o]]
    /\ UNCHANGED <<obj, fds, queue, events, missed, open, ready, strayed>>

Batches ==
    {b \in SUBSET InPort : Cardinality(b) = Room \/ (b = InPort /\ Cardinality(b) \in 1..Room)}

(* WAIT_TIMEOUT, or another error; without a timeout wait stays here.      *)
timed_out ==
    /\ pc = "update" /\ queue = {} /\ InPort = {} /\ pc' = "idle"
    /\ UNCHANGED <<obj, fds, queue, poll, events, missed, open, ready, strayed>>

(* feed_event of a deleted object, or of a socket that was closed.         *)
feed_closed(o) ==
    /\ pc = "feed" /\ o \in InBatch
    /\ obj[o].del \/ "closed" \in poll[o].ev
    /\ poll' = [poll EXCEPT ![o] = NoPoll] /\ Free(o)
    /\ IF obj[o].del THEN UNCHANGED <<fds, queue, missed>>
                     ELSE Unregister(o) /\ queue' = queue \ {o}
    /\ UNCHANGED <<pc, events, open, ready, strayed>>

(* Mutant of AfterFeed: status is not reset. *)
AfterFeedBusy(o, told) ==
    [obj[o] EXCEPT !.pend = {}, !.user = IF told # {} /\ "oneshot" \in @ THEN {} ELSE @]

AfterFeed(o, told) ==
    [obj[o] EXCEPT !.status = "idle", !.pend = {},
                   !.user = IF told # {} /\ "oneshot" \in @ THEN {} ELSE @]

(* feed_event of the others: an event, or nothing that is asked for.       *)
feed_event(o) ==
    /\ pc = "feed" /\ o \in InBatch
    /\ ~obj[o].del /\ "closed" \notin poll[o].ev
    /\ LET told == poll[o].ev \cap obj[o].user IN
        /\ obj' = [obj EXCEPT ![o] = AfterFeed(o, told)]
        /\ events' = events \cup {<<obj[o].sock, e>> : e \in told}
    /\ poll' = [poll EXCEPT ![o] = NoPoll]
    /\ queue' = Enqueued(o) /\ missed' = missed \ {o}
    /\ UNCHANGED <<pc, fds, open, ready, strayed>>

(* The batch is done: the caller takes what was found, or wait goes on, or *)
(* the deadline has come.                                                  *)
fed ==
    /\ pc = "feed" /\ InBatch = {} /\ events' = {}
    /\ pc' \in (IF events = {} THEN {"update", "idle"} ELSE {"idle"})
    /\ UNCHANGED <<obj, fds, queue, poll, missed, open, ready, strayed>>

-------------------------------------------------------------------------------
(* The driver answers a poll when something asked is ready or the poll     *)
(* fails, and when the socket is closed.                                   *)
Answer(o, ev) ==
    /\ poll[o].at = "kernel"
    /\ poll' = [poll EXCEPT ![o] = [at |-> "port", ev |-> ev]]
    /\ UNCHANGED <<pc, obj, fds, queue, events, missed, open, ready, strayed>>

afd_ready(o) ==
    /\ poll[o].at = "kernel" /\ poll[o].ev \cap ready[obj[o].sock] # {}
    /\ Answer(o, poll[o].ev \cap ready[obj[o].sock])

afd_fails(o) == Answer(o, {"err"})

socket_close(s) ==
    /\ pc = "idle" /\ s \in open /\ open' = open \ {s}
    /\ ready' = [ready EXCEPT ![s] = {}]
    /\ poll' = [o \in Obj |-> IF poll[o].at = "kernel" /\ obj[o].sock = s
                              THEN [at |-> "port", ev |-> {"closed"}] ELSE poll[o]]
    /\ strayed' = (strayed \/ fds[s] # NoObj)
    /\ UNCHANGED <<pc, obj, fds, queue, events, missed>>

socket_create(s) ==
    /\ pc = "idle" /\ s \notin open /\ open' = open \cup {s}
    /\ UNCHANGED <<calls, ready, strayed>>

Changes(s) ==
    /\ pc # "gone" /\ s \in open /\ ready' \in {[ready EXCEPT ![s] = d] : d \in SUBSET Dir}
    /\ UNCHANGED <<calls, open, strayed>>

-------------------------------------------------------------------------------
update(o) ==
    update_kept(o) \/ update_cancels(o) \/ update_polls(o) \/ update_closes(o) \/ update_failed(o)

InWait ==
    \/ wait \/ timed_out \/ fed
    \/ \E o \in Obj : update(o) \/ feed_closed(o) \/ feed_event(o)
    \/ \E b \in Batches : dequeue(b)

Next ==
    \/ \E s \in Sock :
        \/ \E ev \in Masks : ctl_add(s, ev) \/ ctl_mod(s, ev)
        \/ ctl_del(s) \/ socket_close(s) \/ socket_create(s) \/ Changes(s)
    \/ bpoll_close \/ InWait
    \/ \E o \in Obj : afd_ready(o) \/ afd_fails(o)

Spec == Init /\ [][Next]_vars

(* The script keeps calling wait.  A call of the driver that may fail does *)
(* not fail for ever, the port is a queue, and the driver answers.         *)
Fairness ==
    /\ WF_vars(InWait)
    /\ \A o \in Obj :
        /\ SF_vars(update_polls(o) \/ update_cancels(o))
        /\ SF_vars(\E b \in Batches : o \in b /\ dequeue(b))
        /\ WF_vars(afd_ready(o) \/ afd_fails(o))

FairSpec == Spec /\ Fairness
-------------------------------------------------------------------------------
TypeOK ==
    /\ pc \in {"idle", "update", "feed", "gone"}
    /\ obj \in [Obj -> Poller_fd \cup {Freed}] /\ fds \in [Sock -> Obj \cup {NoObj}]
    /\ queue \subseteq Obj /\ missed \subseteq Obj
    /\ poll \in [Obj -> [at : {"none", "kernel", "port", "batch"},
                         ev : SUBSET (Event \cup {"closed"})]]
    /\ events \subseteq Sock \X Event
    /\ open \subseteq Sock /\ ready \in [Sock -> SUBSET Dir] /\ strayed \in BOOLEAN

Registered(o) == obj[o] # Freed /\ ~obj[o].del

(* Memory: the driver and the port hold the addresses of objects that are  *)
(* there and that wait for them, one poll each; an object is known by its  *)
(* own handle only, or is freed when its poll completes; the update queue  *)
(* (poller_fd::update asserts it) holds registered objects only.           *)
ObjectsHeld ==
    pc # "gone" =>
        \A o \in Obj :
            /\ poll[o].at # "none" <=> obj[o] # Freed /\ obj[o].status # "idle"
            /\ o \in queue => Registered(o)
            /\ \A s \in Sock : fds[s] = o <=> Registered(o) /\ obj[o].sock = s
            /\ obj[o] # Freed /\ obj[o].del => poll[o].at # "none"

(* No registration is forgotten: the driver watches for all that is asked, *)
(* or the object is queued to see to it, or will be when its poll is       *)
(* answered.  The exception needs a script that closes before it deletes.  *)
NothingForgotten ==
    /\ \A s \in Sock : fds[s] # NoObj =>
        LET o == fds[s] IN
        \/ o \in queue \cup missed \/ poll[o].at \in {"port", "batch"}
        \/ poll[o].at = "kernel" /\ Asked(obj[o].user) \subseteq poll[o].ev
    /\ missed # {} => strayed

(* What is asked for and stays ready is reported again and again, or its   *)
(* failure is, through changes of the mask and cancelled polls.            *)
Wanted(s, d) ==
    /\ fds[s] # NoObj /\ ~strayed /\ d \in ready[s]
    /\ d \in obj[fds[s]].user /\ "oneshot" \notin obj[fds[s]].user

ReadyIsReported ==
    \A s \in Sock, d \in Dir : (<>[]Wanted(s, d)) => []<>({<<s, d>>, <<s, "err">>} \cap events # {})
===============================================================================
