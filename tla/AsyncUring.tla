------------------------------- MODULE AsyncUring ------------------------------
(***************************************************************************)
(* bee/async/async_uring_linux.cpp: the io_uring backend of bee.async.     *)
(* Requests go to the kernel through a submission ring and come back       *)
(* through a completion ring; both are arrays indexed by counters of       *)
(* uint32_t that wrap.  The kernel takes submissions inside io_uring_enter *)
(* and completes them at any time; what does not fit in the completion     *)
(* ring waits in a list of the kernel's.                                   *)
(***************************************************************************)
EXTENDS Integers, Sequences, FiniteSets

CONSTANTS Id,          (* request ids                                      *)
          NoId,        (* the id 0 of the backend's own timeout entries    *)
          SqSize,      (* entries of the submission ring (kEntries)        *)
          CqSize,      (* entries of the completion ring                   *)
          Wrap,        (* 2^32 in the code: where the counters wrap        *)
          Room,        (* size of the completions span (max_completions)   *)
          Wanted,      (* bound: the requests the script makes             *)
          MaxTimers,   (* bound: timeout entries in the kernel and the CQ  *)
          Kernels      (* whether the kernel knows IORING_ENTER_EXT_ARG    *)

ASSUME RingsDivideWrap ==
    /\ SqSize \in Nat \ {0} /\ CqSize \in Nat \ {0} /\ Wrap \in Nat
    /\ Wrap > SqSize /\ Wrap > CqSize /\ Wrap % SqSize = 0 /\ Wrap % CqSize = 0
ASSUME RoomIsPositive == Room \in Nat \ {0}
ASSUME KernelsAreBoolean == Kernels \subseteq BOOLEAN

Iov == {"read", "write"}      (* the requests that own an iov_ctx *)
Request == [id : Id, op : Iov \cup {"accept", "connect", "file_read", "file_write", "fd_poll"}]
ASSUME WantedAreRequests == Wanted \subseteq Request

(* user_data: the request's op and id (a pin is below 2^20, so the mask of *)
(* 56 bits cuts nothing), or a timeout entry of the backend's own.         *)
Timeout == [id |-> NoId, op |-> "timeout"]
UserData == Request \cup {Timeout}

VARIABLES valid,    (* m_ring is not null                                  *)
          sq, cq,   (* the rings: head, tail and slots                     *)
          iov,      (* io_pending: ids with a msghdr the kernel may read   *)
          ext,      (* ext_arg_supported                                   *)
          extArg,   (* the kernel does know EXT_ARG (5.11)                 *)
          phase,    (* "lua", or where wait is: "enter", "blocked",        *)
                    (* "harvest", "copy", "flush"                          *)
          mode,     (* the timeout of wait: "none" (0), "timed", "forever" *)
          seen,     (* harvest_cqes: the tail it loaded                    *)
          out,      (* the caller's span, as far as it has been written    *)
          flight,   (* the kernel: requests it works on                    *)
          timers,   (* the kernel: timeouts that have not expired          *)
          backlog   (* the kernel: completions that did not fit in the CQ  *)

kernel == <<extArg, flight, timers, backlog>>
call == <<phase, mode, seen, out>>
vars == <<valid, sq, cq, iov, ext, call, kernel>>

Used(ring) == (ring.tail - ring.head) % Wrap

Put(ring, size, u) ==
    [ring EXCEPT !.tail = (@ + 1) % Wrap, !.slot[ring.tail % size] = u]

(* The first n entries of a ring, oldest first. *)
Entries(ring, size, n) == [i \in 1..n |-> ring.slot[(ring.head + i - 1) % size]]

Empty(size) == [head |-> 0, tail |-> 0, slot |-> [i \in 0..(size - 1) |-> Timeout]]

(* A ring whose first n entries were taken; their slots are not read again *)
(* and are blank here.                                                     *)
Taken(ring, size, n) ==
    [ring EXCEPT !.head = (@ + n) % Wrap,
                 !.slot = [i \in DOMAIN @ |->
                     IF (i - ring.head) % size < n THEN Timeout ELSE @[i]]]

(* The requests among entries: as a set, and in order among the first k    *)
(* entries, for each k.                                                    *)
In(s) == {s[i] : i \in DOMAIN s} \ {Timeout}
Scan(s) == LET got[k \in 0..Len(s)] ==
                   IF k = 0 THEN <<>>
                   ELSE IF s[k] = Timeout THEN got[k - 1] ELSE Append(got[k - 1], s[k])
           IN  got
Requests(s) == Scan(s)[Len(s)]

Init ==
    /\ valid = TRUE /\ ext = TRUE /\ extArg \in Kernels
    /\ sq = Empty(SqSize) /\ cq = Empty(CqSize) /\ iov = {}
    /\ phase = "lua" /\ mode = "none" /\ seen = 0 /\ out = <<>>
    /\ flight = {} /\ timers = 0 /\ backlog = <<>>

-------------------------------------------------------------------------------
(* Submissions.  A refusal changes nothing, so only acceptance is a step.  *)

(* Mutant of SqFree: one entry more than the ring has. *)
SqFreeInclusive == Used(sq) <= SqSize

(* uring_get_sqe finds a slot. *)
SqFree == Used(sq) < SqSize

Submit(r) ==
    /\ phase = "lua" /\ valid /\ SqFree
    /\ sq' = Put(sq, SqSize, r)
    /\ iov' = IF r.op \in Iov THEN iov \cup {r.id} ELSE iov
    /\ UNCHANGED <<valid, cq, ext, call, kernel>>

(* Closing the ring makes the kernel drop what it had of it. *)
Stop ==
    /\ phase = "lua" /\ valid
    /\ valid' = FALSE /\ iov' = {}
    /\ sq' = Empty(SqSize) /\ cq' = Empty(CqSize)
    /\ flight' = {} /\ timers' = 0 /\ backlog' = <<>>
    /\ UNCHANGED <<ext, extArg, call>>

-------------------------------------------------------------------------------
(* wait; poll is wait with a timeout of 0.                                 *)

InCq == Entries(cq, CqSize, Used(cq))

Timeouts(s) == Len(s) - Len(Requests(s))
Timers == timers + Timeouts(InCq) + Timeouts(backlog)

(* The fallback for kernels without EXT_ARG: a timeout entry of its own,   *)
(* if the ring has room for it.                                            *)
WithTimer == IF SqFree THEN Put(sq, SqSize, Timeout) ELSE sq

Call(m) ==
    /\ phase = "lua" /\ valid
    /\ m = "timed" /\ ~extArg => Timers < MaxTimers
    /\ mode' = m /\ out' = <<>>
    /\ phase' = IF m = "none" /\ Used(sq) = 0 THEN "harvest" ELSE "enter"
    /\ sq' = IF m = "timed" /\ ~ext THEN WithTimer ELSE sq
    /\ UNCHANGED <<valid, cq, iov, ext, seen, kernel>>

(* The first io_uring_enter with EXT_ARG fails on a kernel without it. *)
Probe ==
    /\ phase = "enter" /\ mode = "timed" /\ ext /\ ~extArg
    /\ ext' = FALSE
    /\ sq' = WithTimer
    /\ UNCHANGED <<valid, cq, iov, call, kernel>>

(* io_uring_enter: the kernel takes the first n of what is pending, and    *)
(* waits only if it could take them all.                                   *)
Enter ==
    /\ phase = "enter" /\ ~(mode = "timed" /\ ext /\ ~extArg)
    /\ \E n \in 0..Used(sq) :
        LET new == Entries(sq, SqSize, n)
        IN  /\ phase' \in {"harvest"} \cup IF n = Used(sq) THEN {"blocked"} ELSE {}
            /\ sq' = Taken(sq, SqSize, n)
            /\ flight' = flight \cup In(new)
            /\ timers' = timers + Timeouts(new)
    /\ UNCHANGED <<valid, cq, iov, ext, extArg, mode, seen, out, backlog>>

(* The kernel moves what fits of the backlog to the completion ring. *)
Fitting == LET free == CqSize - Used(cq)
           IN  IF Len(backlog) < free THEN Len(backlog) ELSE free

FlushBacklog ==
    /\ cq' = [cq EXCEPT !.tail = (@ + Fitting) % Wrap,
                        !.slot = [i \in DOMAIN @ |->
                            LET k == (i - cq.tail) % CqSize
                            IN  IF k < Fitting THEN backlog[k + 1] ELSE @[i]]]
    /\ backlog' = SubSeq(backlog, Fitting + 1, Len(backlog))

(* It comes back: at once, when a completion is there, or on the timeout   *)
(* that it was passed.                                                     *)
Unblock ==
    /\ phase = "blocked"
    /\ IF mode = "none" THEN UNCHANGED <<cq, backlog>>
       ELSE /\ FlushBacklog
            /\ Used(cq') > 0 \/ (mode = "timed" /\ ext)
    /\ phase' = "harvest"
    /\ UNCHANGED <<valid, sq, iov, ext, mode, seen, out, extArg, flight, timers>>

(* harvest_cqes: the tail is loaded once ... *)
Load ==
    /\ phase = "harvest"
    /\ seen' = cq.tail /\ phase' = "copy"
    /\ UNCHANGED <<valid, sq, cq, iov, ext, mode, out, kernel>>

(* Mutant of Scanned: the whole ring is copied. *)
ScannedAll(s) == Len(s)

(* ... the loop over s ends with the entries, or with the span full; ...   *)
Scanned(s) ==
    CHOOSE n \in 0..Len(s) :
        /\ n = Len(s) \/ Len(Scan(s)[n]) = Room
        /\ \A k \in 0..(n - 1) : Len(Scan(s)[k]) < Room

(* Mutant of IovOf: the msghdr of a write is kept. *)
IovOfReads(s) == {s[i].id : i \in {j \in DOMAIN s : s[j].op = "read"}}

IovOf(s) == {s[i].id : i \in {j \in DOMAIN s : s[j].op \in Iov}}

(* ... and the head is published if anything was copied. *)
Copy ==
    /\ phase = "copy"
    /\ LET all == Entries(cq, CqSize, (seen - cq.head) % Wrap)
           n   == Scanned(all)
       IN  /\ out' = Scan(all)[n]
           /\ cq' = IF out' # <<>> THEN Taken(cq, CqSize, n) ELSE cq
    /\ iov' = iov \ IovOf(out')
    /\ phase' = "flush"
    /\ UNCHANGED <<valid, sq, ext, mode, seen, kernel>>

Return == phase' = "lua" /\ mode' = "none" /\ seen' = 0

(* Mutant of Flush: the overflow flag is not looked at. *)
FlushIgnored ==
    /\ phase = "flush"
    /\ Return
    /\ UNCHANGED <<valid, sq, cq, iov, ext, out, kernel>>

(* SQ_CQ_OVERFLOW: the kernel is told to flush. *)
Flush ==
    /\ phase = "flush"
    /\ FlushBacklog
    /\ Return
    /\ UNCHANGED <<valid, sq, iov, ext, out, extArg, flight, timers>>

-------------------------------------------------------------------------------
(* The kernel completes a request, or a timeout expires, at any time.      *)

Post(u) ==
    IF Used(cq) < CqSize /\ backlog = <<>>
    THEN cq' = Put(cq, CqSize, u) /\ UNCHANGED backlog
    ELSE backlog' = Append(backlog, u) /\ UNCHANGED cq

Complete(r) ==
    /\ r \in flight /\ flight' = flight \ {r} /\ Post(r)
    /\ UNCHANGED <<valid, sq, iov, ext, call, extArg, timers>>

Expire ==
    /\ timers > 0 /\ timers' = timers - 1 /\ Post(Timeout)
    /\ UNCHANGED <<valid, sq, iov, ext, call, extArg, flight>>

-------------------------------------------------------------------------------
InSq == Entries(sq, SqSize, Used(sq))

Completed == In(InCq) \cup In(backlog)
InKernel == In(InSq) \cup flight
Pending == InKernel \cup Completed

(* An id the script may use: reported, and the report is behind it. *)
Unused(id) == \A r \in Pending \cup In(out) : r.id # id

Calls == \E m \in {"none", "timed", "forever"} : Call(m)

Next ==
    \/ \E r \in Wanted : (Unused(r.id) /\ Submit(r)) \/ Complete(r)
    \/ Stop \/ Calls \/ Probe \/ Enter \/ Unblock \/ Load \/ Copy \/ Flush \/ Expire

Spec == Init /\ [][Next]_vars

(* The script keeps calling, calls run to their end, timeouts expire. *)
Fairness ==
    /\ WF_vars(Calls) /\ WF_vars(Probe \/ Enter) /\ WF_vars(Unblock)
    /\ WF_vars(Load) /\ WF_vars(Copy) /\ WF_vars(Flush) /\ WF_vars(Expire)

FairSpec == Spec /\ Fairness

-------------------------------------------------------------------------------
RingOK(ring, size) ==
    /\ ring \in [head : 0..(Wrap - 1), tail : 0..(Wrap - 1), slot : [0..(size - 1) -> UserData]]
    /\ Used(ring) <= size

(* Both rings hold at most what they have slots for, their counters stay  *)
(* below the wrap, and no call writes more completions than its span has.  *)
TypeOK ==
    /\ valid \in BOOLEAN /\ ext \in BOOLEAN /\ extArg \in BOOLEAN
    /\ RingOK(sq, SqSize) /\ RingOK(cq, CqSize)
    /\ iov \subseteq Id
    /\ phase \in {"lua", "enter", "blocked", "harvest", "copy", "flush"}
    /\ mode \in {"none", "timed", "forever"}
    /\ seen \in 0..(Wrap - 1)
    /\ out \in Seq(Request) /\ Len(out) <= Room
    /\ flight \subseteq Request /\ timers \in Nat /\ backlog \in Seq(UserData)

(* The msghdr and the iovecs of a read or write live exactly until its     *)
(* completion is reported: the kernel, which works on them at its own pace *)
(* while other entries are submitted and harvested, never reads freed      *)
(* memory, and nothing is left behind.                                     *)
IovHeld == valid => iov = {r.id : r \in {u \in Pending : u.op \in Iov}}

(* The interface's promise.  No entry is overwritten before the kernel has *)
(* taken it, none is copied twice or skipped when the counters wrap, when  *)
(* the span is short, when the ring overflows or between timeouts.         *)
Iface == INSTANCE AsyncIface WITH
             Fd <- {}, NoFd <- "ring",
             pending <- {<<r.id, "ring">> : r \in Pending}, handed <- {r.id : r \in In(out)},
             calling <- phase # "lua", stopped <- ~valid
ImplementsIface == Iface!Spec

(* What the kernel has completed is reported, if the script keeps calling, *)
(* by whatever mixture of poll and wait: the overflow list, which the      *)
(* kernel flushes only when asked, does not hold it back.                  *)
CompletedIsReported == \A r \in Wanted : r \in Completed ~> r \notin Completed

(* The completion ring is full of expired timeouts of the fallback.        *)
Stuffed == Used(cq) = CqSize /\ In(InCq) = {}

(* So it is, unless the backend's own timeouts have filled the ring: they  *)
(* leave it together with a request's completion only.                     *)
ReportedUnlessStuffed == \A r \in Wanted : r \in Completed ~> r \notin Completed \/ Stuffed
===============================================================================
