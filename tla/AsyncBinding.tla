----------------------------- MODULE AsyncBinding -----------------------------
(***************************************************************************)
(* binding/lua_async.cpp over the epoll backend: what a script sees of     *)
(* bee.async.  A request id is a pair of luaref references that pin the    *)
(* request's buffer and the script's udata until the completion iterator   *)
(* reports it.  A write_buf (bee/async/write_buf.h) is a queue of strings  *)
(* drained by one write at a time, which the iterator resubmits until the  *)
(* queue is empty; a read_buf (bee/async/read_buf.h) is a bounded buffer   *)
(* that the iterator commits received bytes to.                            *)
(***************************************************************************)
EXTENDS AsyncEpoll

CONSTANTS WB, RB,        (* write_buf and read_buf objects                 *)
          Udata,         (* values the script submits as udata             *)
          Other,         (* whatever else is pinned: endpoint, string, blob*)
          NIL, MaxStack, (* of LuaRef: the stack that holds the pins       *)
          Cap,           (* capacity of a read_buf                         *)
          MaxWrote,      (* bound: bytes the script writes to a write_buf  *)
          MaxReuse,      (* bound: how often a socket number is reused     *)
          MaxRequests,   (* bound: for each udata, the requests that have it*)
          UdataFor,      (* bound: for each kind, the udata it is made with*)
          Happens,       (* bound: what peers cause: Dir and "hup"         *)
          CtlFails,      (* epoll_ctl may fail for reasons of the kernel's *)
          OneReadPerBuf  (* the script has no two reads into one read_buf  *)

NOREF == -2              (* LUA_NOREF *)

ASSUME IdsArePairs == ({0, NOREF} \cup 2..MaxStack) \X ({NOREF} \cup 2..MaxStack) \subseteq Id
ASSUME MaxStackIsPositive == MaxStack \in Nat \ {0}
ASSUME BoundsFit == Cap \in 0..MaxLen /\ MaxWrote \in 0..MaxLen /\ MaxReuse \in Nat
ASSUME BuffersDiffer == WB \cap RB = {} /\ {Other, NIL} \cap (WB \cup RB) = {}
ASSUME UdataForIsUdata == UdataFor \in [Kind -> SUBSET Udata]
ASSUME MaxRequestsIsPerUdata == MaxRequests \in [Udata -> Nat]
ASSUME HappensIsEvents == Happens \subseteq Dir \cup {"hup"}
ASSUME OneReadIsBoolean == OneReadPerBuf \in BOOLEAN

VARIABLES refs,    (* lua_async::refs                                      *)
          wbuf,    (* the write_bufs                                       *)
          rsize,   (* read_buf::size() of each read_buf                    *)
          closed,  (* history: write_bufs the script is done with          *)
          cut,     (* history: write_bufs that lost bytes without an error *)
          asked,   (* history: what each outstanding id was submitted with *)
          leaked,  (* history: references of requests that were dropped    *)
          wrote,   (* history: bytes written to each write_buf             *)
          wire,    (* history: bytes of each write_buf the kernel took     *)
          socket   (* history: how often each socket number was reused     *)

buffers == <<wbuf, rsize, closed, cut, wrote>>
bvars == <<vars, refs, buffers, asked, leaked, wire, socket>>

Values == WB \cup RB \cup Udata \cup {Other, NIL}

R == INSTANCE LuaRef WITH Value <- Values, tbl <- refs, given <- NOREF, peak <- 0

(* A write_buf with no write under way: its fd and id mean nothing then. *)
Landed(w) == [w EXCEPT !.flying = FALSE, !.fd = NoOp, !.id = NoOp]

NewWriteBuf == [q |-> <<>>, buffered |-> 0, flying |-> FALSE, fd |-> NoOp, id |-> NoOp]

BindInit ==
    /\ Init
    /\ refs = R!EmptyTable
    /\ wbuf = [b \in WB |-> NewWriteBuf] /\ rsize = [b \in RB |-> 0]
    /\ closed = {} /\ cut = {} /\ asked = <<>> /\ leaked = {}
    /\ wrote = [b \in WB |-> 0] /\ wire = [b \in WB |-> 0]
    /\ socket = [fd \in Fd |-> 0]

(* In the script's hands, out is the part of the span the iterator has yet *)
(* to reach: lua_async::completions from i to n.                           *)
Outstanding == Pending \cup Ids(out)

-------------------------------------------------------------------------------
(* Pins.  An id is <<buf_ref, udata_ref>>; buf_ref 0 stands for no buffer. *)

(* luaref_ref: the ways to reference v, with the table that results.  With *)
(* the stack at its limit it is LUA_NOREF, and v is not pinned.            *)
luaref_ref(t, v) ==
    IF R!CanRef(t) THEN {[ref |-> r, tbl |-> R!AfterRef(t, r, v)] : r \in R!RefSlots(t)}
                   ELSE {[ref |-> NOREF, tbl |-> t]}

(* Nobody looks at what luaref_ref returned: it is packed into the id. *)
Pin(buf, tok) ==
    UNION {{[id |-> <<b.ref, u.ref>>, tbl |-> u.tbl] : u \in luaref_ref(b.tbl, tok)} :
           b \in luaref_ref(refs, buf)}

PinUdata(tok) == {[id |-> <<0, u.ref>>, tbl |-> u.tbl] : u \in luaref_ref(refs, tok)}

(* Mutant of PinRelease: the udata reference is left behind. *)
PinReleaseBufOnly(t, id) == R!AfterUnref(t, id[1])

PinRelease(t, id) == R!AfterUnref(R!AfterUnref(t, id[1]), id[2])

Unpinned(id) == NOREF \in {id[1], id[2]}

(* Bound: such requests share their ids; the model follows one at a time. *)
OneUnpinned(id) == Unpinned(id) => \A other \in Outstanding : ~Unpinned(other)

FewWith(tok) == Cardinality({id \in Outstanding : asked[id].tok = tok}) < MaxRequests[tok]

Accepted(p, info) ==
    /\ OneUnpinned(p.id) /\ FewWith(info.tok)
    /\ refs' = p.tbl
    /\ asked' = [id \in Outstanding \cup {p.id} |->
                    IF id = p.id THEN info ELSE asked[id]]

(* The slot is taken, or epoll_ctl fails: for a closed socket or epoll fd, *)
(* or for want of memory or watches.                                       *)
MayRefuse(fd, d) == state[fd].op[d] # NoOp \/ ~CtlAccepts(fd) \/ CtlFails

(* The backend said no: it changed nothing, and both pins are released. *)
Refused(p) ==
    /\ phase = "lua" /\ refs' = PinRelease(p.tbl, p.id)
    /\ UNCHANGED <<backend, world, asked>>

(* The sums of the first k counts of a sequence, for each k. *)
Sums(s) == LET sum[k \in 0..Len(s)] == IF k = 0 THEN 0 ELSE sum[k - 1] + s[k] IN sum

Total(s) == Sums(s)[Len(s)]

Queued(q) == Total([k \in DOMAIN q |-> q[k].len])
Unsent(q) == Total([k \in DOMAIN q |-> q[k].len - q[k].offset])

Info(buf, tok) == [buf |-> buf, tok |-> tok, fd |-> NoOp, socket |-> 0, from |-> 0]

(* For a write also where it goes and where in the stream it starts. *)
WriteInfo(wb, tok, fd) ==
    [buf |-> wb, tok |-> tok, fd |-> fd, socket |-> socket[fd],
     from |-> wrote[wb] - Unsent(wbuf[wb].q)]

-------------------------------------------------------------------------------
(* Submissions.  Returning false or true without a request is no step.     *)

(* Mutant of FreeCap: bytes that wait to be read are not counted. *)
FreeCapWhole(rb) == Cap

(* read_buf::free_cap; write_len, and with it the iovecs, is 0 when it is. *)
FreeCap(rb) == Cap - rsize[rb]

async_submit_read(fd, rb, tok) ==
    /\ FreeCap(rb) > 0
    /\ OneReadPerBuf => \A id \in Outstanding : asked[id].buf # rb
    /\ \E p \in Pin(rb, tok) :
        \/ /\ SubmitIn(fd, [id |-> p.id, kind |-> "read", len |-> FreeCap(rb)])
           /\ Accepted(p, Info(rb, tok))
        \/ MayRefuse(fd, "in") /\ Refused(p)
    /\ UNCHANGED <<call, buffers, leaked, wire, socket>>

(* async_submit_accept and async_submit_poll *)
async_submit_udata(fd, kind, tok) ==
    /\ \E p \in PinUdata(tok) :
        \/ /\ SubmitIn(fd, [id |-> p.id, kind |-> kind, len |-> 1])
           /\ Accepted(p, Info(NIL, tok))
        \/ MayRefuse(fd, "in") /\ Refused(p)
    /\ UNCHANGED <<call, buffers, leaked, wire, socket>>

(* connect itself may fail at once. *)
async_submit_connect(fd, tok) ==
    /\ \E p \in Pin(Other, tok) :
        \/ /\ SubmitConnect(fd, [id |-> p.id, kind |-> "connect", len |-> 1])
           /\ Accepted(p, Info(Other, tok))
        \/ Refused(p)
    /\ UNCHANGED <<call, buffers, leaked, wire, socket>>

(* async_submit_file_read and async_submit_file_write *)
async_submit_file(kind, tok) ==
    /\ \E p \in Pin(Other, tok) :
        /\ SubmitFile([id |-> p.id, kind |-> kind, len |-> 1])
        /\ Accepted(p, Info(Other, tok))
    /\ UNCHANGED <<call, buffers, leaked, wire, socket>>

-------------------------------------------------------------------------------
(* write_buf: a queue of strings, each with the bytes of it already sent.  *)

wb_write(wb, n) ==
    /\ phase = "lua" /\ wb \notin closed /\ wrote[wb] + n <= MaxWrote
    /\ wbuf' = [wbuf EXCEPT ![wb].q = Append(@, [len |-> n, offset |-> 0]),
                            ![wb].buffered = @ + n]
    /\ wrote' = [wrote EXCEPT ![wb] = @ + n]
    /\ UNCHANGED <<vars, refs, rsize, closed, cut, asked, leaked, wire, socket>>

(* Mutant of Cleared: the strings stay in the queue. *)
ClearedCountOnly(w) == [w EXCEPT !.buffered = 0]

(* write_buf::clear *)
Cleared(w) == [w EXCEPT !.q = <<>>, !.buffered = 0]

(* wb:close(), which the script calls once it has cancelled what the       *)
(* backend still has of the stream; it does not use the write_buf again.   *)
wb_close(wb) ==
    /\ phase = "lua" /\ wb \notin closed
    /\ \A fd \in Fd : \A r \in Ops(fd) : asked[r.id].buf # wb
    /\ wbuf' = [wbuf EXCEPT ![wb] = Cleared(@)]
    /\ closed' = closed \cup {wb}
    /\ UNCHANGED <<vars, refs, rsize, cut, wrote, asked, leaked, wire, socket>>

(* Mutant of SentWhole: a string sent to its end waits for one more byte. *)
SentMoreThanWhole(left, e) == left > e.len - e.offset

(* Mutant of SentInPart: the string is sent again from its beginning. *)
SentAgain(left, e) == e

SentWhole(left, e) == left > 0 /\ left >= e.len - e.offset
Counted(e) == e.len
SentInPart(left, e) == [e EXCEPT !.offset = @ + left]

(* One turn of consume's loop: the first string is sent whole, and leaves  *)
(* the queue, or in part, or not at all when nothing is left to consume.   *)
Pass(s, e) ==
    IF SentWhole(s.left, e)
    THEN [s EXCEPT !.left = @ - (e.len - e.offset), !.buffered = @ - Counted(e)]
    ELSE [s EXCEPT !.left = 0, !.q = Append(@, SentInPart(s.left, e))]

Passes(w, bytes) ==
    LET after[k \in 0..Len(w.q)] ==
            IF k = 0 THEN [left |-> bytes, q |-> <<>>, buffered |-> w.buffered]
                     ELSE Pass(after[k - 1], w.q[k])
    IN  after

(* write_buf::consume: strings sent to their end leave the queue. *)
Consumed(w, bytes) == Passes(w, bytes)[Len(w.q)]

WriteRequest(w) == [id |-> w.id, kind |-> "write", len |-> Unsent(w.q)]

(* Mutant of WbIdle: a second write may fly beside the first. *)
WbIdleWhenEmpty(wb) == wbuf[wb].q = <<>>

WbIdle(wb) == wbuf[wb].flying \/ wbuf[wb].q = <<>>

async_submit_write(fd, wb, tok) ==
    /\ ~WbIdle(wb)
    /\ \E p \in Pin(wb, tok) :
        LET w == [wbuf[wb] EXCEPT !.fd = fd, !.id = p.id]
        IN  \/ /\ SubmitWrite(fd, WriteRequest(w))
               /\ wbuf' = [wbuf EXCEPT ![wb] = [w EXCEPT !.flying = TRUE]]
               /\ Accepted(p, WriteInfo(wb, tok, fd))
            \/ MayRefuse(fd, "out") /\ Refused(p) /\ UNCHANGED wbuf
    /\ UNCHANGED <<call, rsize, closed, cut, wrote, leaked, wire, socket>>

-------------------------------------------------------------------------------
(* The completion iterator *)

(* The request is over: its pins are released and the script gets udata.   *)
(* luaref_get asserts that there is one.                                   *)
Emit(c) ==
    /\ c.id[2] \in R!Live(refs)
    /\ refs' = PinRelease(refs, c.id)
    /\ asked' = [id \in DOMAIN asked \ {c.id} |-> asked[id]]
    /\ UNCHANGED <<backend, world>>

(* wb_on_completion: consume what was sent and resubmit the rest under the *)
(* same id; report when nothing is left, on an error, or on a resubmission *)
(* that is refused, which the script sees as the success of the last part. *)
(* The script is done with a write_buf whose write was reported to fail.   *)
wb_on_completion(c, wb) ==
    LET s    == Consumed(wbuf[wb], c.bytes)
        w    == [wbuf[wb] EXCEPT !.q = s.q, !.buffered = s.buffered]
        rest == c.status = "success" /\ w.q # <<>>
    IN  \/ /\ rest /\ SubmitWrite(w.fd, WriteRequest(w))
           /\ wbuf' = [wbuf EXCEPT ![wb] = w]
           /\ asked' = [asked EXCEPT ![w.id].from = wrote[wb] - Unsent(w.q)]
           /\ UNCHANGED <<refs, closed, cut>>
        \/ /\ rest => MayRefuse(w.fd, "out")
           /\ Emit(c)
           /\ wbuf' = [wbuf EXCEPT ![wb] =
                          IF c.status = "success" /\ ~rest THEN Landed(w)
                                                           ELSE Landed(Cleared(@))]
           /\ cut' = IF rest THEN cut \cup {wb} ELSE cut
           /\ closed' = IF c.status = "success" THEN closed ELSE closed \cup {wb}

Committed(c) == c.kind = "read" /\ c.status = "success"

(* The buffer is got first, with the same assertion. *)
async_completions ==
    /\ phase = "lua" /\ out # <<>>
    /\ Head(out).id[1] \in {0} \cup R!Live(refs)
    /\ out' = Tail(out) /\ UNCHANGED <<phase, batch>>
    /\ LET c   == Head(out)
           buf == IF c.id[1] = 0 THEN NIL ELSE refs.slot[c.id[1]]
       IN  IF c.kind = "write"
           THEN wb_on_completion(c, buf) /\ UNCHANGED rsize
           ELSE /\ Emit(c)
                /\ rsize' = IF Committed(c) THEN [rsize EXCEPT ![buf] = @ + c.bytes]
                                            ELSE rsize
                /\ UNCHANGED <<wbuf, closed, cut>>
    /\ UNCHANGED <<wrote, leaked, wire, socket>>

(* rb:read and rb:readline take n of the bytes buffered. *)
rb_read(rb, n) ==
    /\ phase = "lua" /\ n <= rsize[rb]
    /\ rsize' = [rsize EXCEPT ![rb] = @ - n]
    /\ UNCHANGED <<vars, refs, wbuf, closed, cut, wrote, asked, leaked, wire, socket>>

-------------------------------------------------------------------------------
(* poll, wait, cancel and stop: what they forget is never reported.        *)

References(id) == {id[1], id[2]} \ {0, NOREF}

Forget(ids) ==
    /\ leaked' = leaked \cup UNION {References(id) : id \in ids}
    /\ asked' = [id \in DOMAIN asked \ ids |-> asked[id]]
    /\ UNCHANGED <<refs, buffers, wire, socket>>

async_poll(mode) == Begin(mode) /\ Forget(Ids(out))

async_cancel(fd) == Cancel(fd) /\ Forget({r.id : r \in Ops(fd)})

async_stop ==
    /\ Stop /\ Forget(UNION {{r.id : r \in Ops(fd)} : fd \in Fd})

InCall ==
    /\ Fetch \/ Return
    /\ UNCHANGED <<refs, buffers, asked, leaked, wire, socket>>

(* The completions that this step adds to the span, at most one a write. *)
Fresh == {out'[i] : i \in (Len(out) + 1)..Len(out')}

HandleEvent(fd) ==
    /\ Handle(fd)
    /\ wire' = [b \in WB |->
                   LET sent == {c \in Fresh : asked[c.id].buf = b}
                   IN  IF sent = {} THEN wire[b] ELSE wire[b] + (CHOOSE c \in sent : TRUE).bytes]
    /\ UNCHANGED <<refs, buffers, asked, leaked, socket>>

(* The script closes a stream: it has cancelled the socket and closed the  *)
(* write_buf first, so that no completion it still gets goes on writing.   *)
close(fd) ==
    /\ CloseFd(fd)
    /\ CancelFirst => \A id \in Outstanding :
           asked[id].fd = fd => asked[id].buf \in closed
    /\ UNCHANGED <<refs, buffers, asked, leaked, wire, socket>>

open_socket(fd) ==
    /\ OpenFd(fd) /\ socket[fd] < MaxReuse
    /\ socket' = [socket EXCEPT ![fd] = @ + 1]
    /\ UNCHANGED <<refs, buffers, asked, leaked, wire>>

(* What happens while the script runs shows at the next epoll_wait; nobody *)
(* else uses the sockets.                                                  *)
Peer ==
    /\ phase = "drain"
    /\ \E fd \in Fd, ev \in Happens : Arrive(fd, ev)
    /\ UNCHANGED <<refs, buffers, asked, leaked, wire, socket>>

BindNext ==
    \/ \E fd \in Fd, kind \in Kind : \E tok \in UdataFor[kind] :
        \/ kind = "read" /\ \E rb \in RB : async_submit_read(fd, rb, tok)
        \/ kind = "write" /\ \E wb \in WB : async_submit_write(fd, wb, tok)
        \/ kind \in {"accept", "fd_poll"} /\ async_submit_udata(fd, kind, tok)
        \/ kind \in FileKind /\ async_submit_file(kind, tok)
        \/ kind = "connect" /\ async_submit_connect(fd, tok)
    \/ \E fd \in Fd : async_cancel(fd) \/ HandleEvent(fd) \/ close(fd) \/ open_socket(fd)
    \/ \E wb \in WB : wb_close(wb) \/ \E n \in 1..2 : wb_write(wb, n)
    \/ \E rb \in RB, n \in 1..Cap : rb_read(rb, n)
    \/ \E mode \in {"poll", "wait"} : async_poll(mode)
    \/ async_completions \/ async_stop \/ InCall \/ Peer

BindSpec == BindInit /\ [][BindNext]_bvars

-------------------------------------------------------------------------------
RequestInfo == [buf : WB \cup RB \cup {Other, NIL}, tok : Udata, fd : Fd \cup {NoOp},
                socket : 0..MaxReuse, from : 0..MaxWrote]

BindTypeOK ==
    /\ TypeOK
    /\ refs \in [top : 1..MaxStack, free : SUBSET (2..MaxStack),
                 slot : [2..refs.top -> Values]]
    /\ \A b \in WB :
        /\ wbuf[b].q \in Seq([len : 1..MaxWrote, offset : 0..MaxWrote])
        /\ \A k \in DOMAIN wbuf[b].q : wbuf[b].q[k].offset < wbuf[b].q[k].len
        /\ wbuf[b].buffered \in 0..MaxWrote /\ wbuf[b].flying \in BOOLEAN
    /\ rsize \in [RB -> Nat] /\ closed \in SUBSET WB /\ cut \in SUBSET WB
    /\ DOMAIN asked = Outstanding
    /\ \A id \in DOMAIN asked : asked[id] \in RequestInfo
    /\ leaked \in SUBSET (2..MaxStack)
    /\ wrote \in [WB -> 0..MaxWrote] /\ wire \in [WB -> 0..MaxWrote]
    /\ socket \in [Fd -> 0..MaxReuse]

(* Until a request is reported, the references that its id packs are its   *)
(* own and hold the buffer and the udata it was submitted with, however    *)
(* submissions, refusals, reports and resubmissions are interleaved: the   *)
(* script gets back the value it passed, and the backend's buffer is not   *)
(* collected.  A LUA_NOREF in the id holds nothing.                        *)
PinsHeld ==
    /\ \A id \in Outstanding :
        /\ References(id) \subseteq R!Live(refs)
        /\ id[2] # NOREF => refs.slot[id[2]] = asked[id].tok
        /\ id[1] \notin {0, NOREF} => refs.slot[id[1]] = asked[id].buf
    /\ \A id, other \in Outstanding :
        id # other => References(id) \cap References(other) = {}

(* What a comment says of pin: a request has both of its values pinned.    *)
RequestsArePinned == \A id \in Outstanding : ~Unpinned(id)

(* No reference stays behind: what is pinned belongs to a request that     *)
(* will be reported, or was dropped by cancel, stop or an iterator that    *)
(* the script abandoned (those are never released).                        *)
PinsAccounted == R!Live(refs) = leaked \cup UNION {References(id) : id \in Outstanding}

(* A write_buf has one write under way at most, and knows it.              *)
OneWritePerBuf ==
    \A id, other \in Outstanding :
        asked[id].buf = asked[other].buf /\ asked[id].buf \in WB
        => id = other /\ wbuf[asked[id].buf].flying /\ wbuf[asked[id].buf].id = id

Writes == UNION {{<<fd, r>> : r \in {r \in Ops(fd) : r.kind = "write"}} : fd \in Fd}

(* Every write, resubmitted ones included, starts at the first byte that   *)
(* the kernel has not taken: the peer sees each byte once, in order.       *)
StreamInOrder ==
    \A x \in Writes : LET info == asked[x[2].id]
                      IN  info.buf \notin cut => info.from = wire[info.buf]

(* What a pending write points to is still in the write_buf's queue, which *)
(* keeps the strings alive.                                                *)
IovBacked == \A x \in Writes : x[2].len <= Unsent(wbuf[asked[x[2].id].buf].q)

(* wb:buffered() counts the strings in the queue, whole ones and the one   *)
(* that is sent in part, so back-pressure ends when the queue does.        *)
BufferedIsQueued ==
    \A b \in WB : wbuf[b].buffered = Queued(wbuf[b].q)

(* A write_buf agrees with what is under way of it through every partial   *)
(* send, refusal and resubmission: one write, strings that are still       *)
(* there, and a count that returns to zero.                                *)
WriteBufSound == OneWritePerBuf /\ IovBacked /\ BufferedIsQueued

(* A resubmitted write never goes to another socket that got the number of *)
(* the one it was meant for.                                               *)
WritesStayOnSocket == \A x \in Writes : asked[x[2].id].socket = socket[x[1]]

(* read_buf's invariant size() <= cap, which commit asserts: the space a   *)
(* read was given is still free when its bytes are committed.              *)
ReadBufWithinCap == \A rb \in RB : rsize[rb] <= Cap

(* The script is told that a write succeeded when the kernel has taken     *)
(* every byte the script wrote, unless the instance was stopped before:    *)
(* a success means that the queue was drained, not dropped.                *)
WriteSuccessMeansSent ==
    [][LET c == Head(out)
       IN  /\ async_completions /\ c.id \notin DOMAIN asked' /\ open
           /\ asked[c.id].buf \in WB \ closed /\ c.status = "success"
           => wire[asked[c.id].buf] = wrote[asked[c.id].buf]]_bvars
===============================================================================
