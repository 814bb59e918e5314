------------------------------ MODULE AsyncProofs ------------------------------
(***************************************************************************)
(* Proofs about the epoll backend and the binding on top of it.  First the *)
(* backend by itself, for any sockets, requests and span size: type        *)
(* correctness, the registration masks, and the refinement of the          *)
(* interface AsyncIface.  Then the binding, for any buffers, stack limit   *)
(* and capacities: its pins, its streams and its read buffers.             *)
(***************************************************************************)
EXTENDS AsyncBinding, SequenceTheorems, WellFoundedInduction, TLAPS

(* The length that Begin takes off the queue.                              *)
Fit == IF Len(sync) < Room THEN Len(sync) ELSE Room

StateType == [Fd -> [op : [Dir -> Request \cup {NoOp}], events : SUBSET Dir]]

KindsOK(s) ==
    \A fd \in Fd : /\ s[fd].op["in"] # NoOp => s[fd].op["in"].kind \in InKind
                   /\ s[fd].op["out"] # NoOp => s[fd].op["out"].kind \in OutKind

(* What the state of the sockets must satisfy, apart from the rest.        *)
StateOK == state \in StateType /\ KindsOK(state)

EntryOK(e) ==
    /\ e \in [op : [Dir -> Request \cup {NoOp}], events : SUBSET Dir]
    /\ e.op["in"] # NoOp => e.op["in"].kind \in InKind
    /\ e.op["out"] # NoOp => e.op["out"].kind \in OutKind

LEMMA EntryUpdate ==
    ASSUME StateOK, NEW fd \in Fd, NEW e, EntryOK(e)
    PROVE  LET s == [state EXCEPT ![fd] = e] IN s \in StateType /\ KindsOK(s)
BY DEF StateOK, StateType, KindsOK, EntryOK

LEMMA IdleOK == EntryOK(Idle)
<1>1. [d \in Dir |-> NoOp] \in [Dir -> Request \cup {NoOp}]
  OBVIOUS
<1>2. QED
  BY <1>1 DEF EntryOK, Idle, Dir

LEMMA ConstantFacts ==
    /\ Room \in Nat /\ Room > 0 /\ MaxLen \in Nat /\ MaxLen > 0
    /\ DOMAIN Wanted \subseteq Request /\ NoOp \notin Request
BY RoomIsPositive, MaxLenIsPositive, WantedAreRequests, NoOpIsNoRequest

-------------------------------------------------------------------------------
(* Sequences of completions.                                               *)

LEMMA TakeFacts ==
    ASSUME NEW s \in Seq(Completion), NEW k \in 0..Len(s)
    PROVE  /\ SubSeq(s, 1, k) \in Seq(Completion) /\ Len(SubSeq(s, 1, k)) = k
           /\ \A i \in 1..k : SubSeq(s, 1, k)[i] = s[i]
           /\ SubSeq(s, k + 1, Len(s)) \in Seq(Completion)
           /\ Len(SubSeq(s, k + 1, Len(s))) = Len(s) - k
           /\ \A i \in 1..(Len(s) - k) : SubSeq(s, k + 1, Len(s))[i] = s[k + i]
<1>1. Len(s) \in Nat /\ \A i \in 1..Len(s) : s[i] \in Completion
  BY LenProperties, ElementOfSeq
<1>2. \A i \in 1..k : s[i] \in Completion
  BY <1>1
<1>3. /\ SubSeq(s, 1, k) \in Seq(Completion) /\ Len(SubSeq(s, 1, k)) = k
      /\ \A i \in 1..k : SubSeq(s, 1, k)[i] = s[i]
  BY <1>1, <1>2, SubSeqProperties
<1>4. \A i \in (k + 1)..Len(s) : s[i] \in Completion
  BY <1>1
<1>5. /\ SubSeq(s, k + 1, Len(s)) \in Seq(Completion)
      /\ Len(SubSeq(s, k + 1, Len(s))) = Len(s) - k
      /\ \A i \in 1..(Len(s) - k) : SubSeq(s, k + 1, Len(s))[i] = s[k + i]
  <2>1. k + 1 \in Int /\ Len(s) \in Int
    BY <1>1
  <2>2. QED
    BY <1>1, <1>4, <2>1, SubSeqProperties
<1>6. QED
  BY <1>3, <1>5

(* What an attempt reports is a completion of the request it is made for.  *)
LEMMA OutcomeFacts ==
    ASSUME NEW r \in Request, NEW c \in Outcomes(r)
    PROVE  c \in Completion /\ c.id = r.id
<1>1. r.id \in Id /\ r.kind \in Kind /\ r.len \in 1..MaxLen
  BY DEF Request
<1>2. c \in [id : {r.id}, kind : {r.kind}, status : Status, bytes : 0..r.len]
  BY DEF Outcomes
<1>3. 0..r.len \subseteq 0..MaxLen
  BY <1>1, ConstantFacts
<1>4. QED
  BY <1>1, <1>2, <1>3 DEF Completion

(* A report is empty, or the one completion of a request that is served.   *)
LEMMA ReportFacts ==
    ASSUME StateOK, NEW fd \in Fd, NEW d \in Dir, NEW s \in Reports(fd, d)
    PROVE  /\ s \in Seq(Completion)
           /\ Len(s) = IF d \in Served(fd) THEN 1 ELSE 0
           /\ d \in Served(fd) => s[1].id = state[fd].op[d].id
<1>1. CASE d \in Served(fd)
  <2>1. state[fd].op[d] \in Request
    BY <1>1 DEF StateOK, StateType, Served
  <2>2. PICK c \in Outcomes(state[fd].op[d]) : s = <<c>>
    BY <1>1 DEF Reports
  <2>3. c \in Completion /\ c.id = state[fd].op[d].id
    BY <2>1, <2>2, OutcomeFacts
  <2>4. QED
    BY <1>1, <2>2, <2>3
<1>2. CASE d \notin Served(fd)
  <2>1. s = <<>>
    BY <1>2 DEF Reports
  <2>2. QED
    BY <1>2, <2>1, EmptySeq
<1>3. QED
  BY <1>1, <1>2

(* The completions of one event fit into the span.                         *)
LEMMA HandleOut ==
    ASSUME TypeOK, StateOK, NEW fd \in Fd, Handle(fd),
           NEW i \in Reports(fd, "in"), NEW o \in Reports(fd, "out"),
           out' = out \o i \o o
    PROVE  /\ out' \in Seq(Completion)
           /\ Len(out') = Len(out) + Len(i) + Len(o) /\ Len(out') <= Room
<1>1. "in" \in Dir /\ "out" \in Dir /\ Dir = {"in", "out"}
  BY DEF Dir
<1>2. /\ i \in Seq(Completion) /\ Len(i) = IF "in" \in Served(fd) THEN 1 ELSE 0
      /\ o \in Seq(Completion) /\ Len(o) = IF "out" \in Served(fd) THEN 1 ELSE 0
  BY <1>1, ReportFacts
<1>3. out \in Seq(Completion) /\ Len(out) \in Nat /\ Len(out) < Room
  BY LenProperties DEF TypeOK, Handle
<1>4. out' \in Seq(Completion) /\ Len(out') = Len(out) + Len(i) + Len(o)
  <2>1. out \o i \in Seq(Completion) /\ Len(out \o i) = Len(out) + Len(i)
    BY <1>2, <1>3, ConcatProperties
  <2>2. /\ (out \o i) \o o \in Seq(Completion)
        /\ Len((out \o i) \o o) = Len(out \o i) + Len(o)
    BY <1>2, <2>1, ConcatProperties
  <2>3. QED
    BY <2>1, <2>2
<1>5. Len(out) + 1 = Room => Served(fd) # Dir
  <2> DEFINE both == {d \in Reported(fd) : state[fd].op[d] # NoOp /\ Answers(fd, d)}
  <2>1. Len(out) + 1 = Room /\ both = Dir => Served(fd) = {"in"}
    BY DEF Served
  <2>2. both # Dir => Served(fd) # Dir
    BY DEF Served
  <2>3. {"in"} # Dir
    BY <1>1
  <2>4. QED
    BY <2>1, <2>2, <2>3
<1>6. Len(i) + Len(o) = 2 => Served(fd) = Dir
  <2>1. Len(i) + Len(o) = 2 => "in" \in Served(fd) /\ "out" \in Served(fd)
    BY <1>2
  <2>2. Served(fd) \subseteq Dir
    <3>1. batch[fd] \in SUBSET (Dir \cup {"hup"})
      BY DEF TypeOK
    <3>2. Reported(fd) \subseteq Dir
      BY <3>1 DEF Reported
    <3>3. QED
      BY <1>1, <3>2 DEF Served
  <2>3. QED
    BY <1>1, <2>1, <2>2
<1>7. Len(i) + Len(o) \in 0..2
  BY <1>2
<1>8. QED
  BY <1>3, <1>4, <1>5, <1>6, <1>7, ConstantFacts

-------------------------------------------------------------------------------
(* Type correctness                                                        *)

(* The parts of TypeOK by the actions that share them.                     *)
QueueOK == sync \in Seq(Completion)
KernelOK == /\ armed \in [Fd -> SUBSET Dir] /\ up \in SUBSET Fd
            /\ list \in SUBSET (Fd \X Fd)
            /\ ready \in [Fd -> SUBSET (Dir \cup {"hup"})]
CallOK == /\ phase \in {"lua", "drain", "events"}
          /\ batch \in [Fd -> SUBSET (Dir \cup {"hup"})]
          /\ out \in Seq(Completion) /\ Len(out) <= Room

LEMMA TypeParts ==
    TypeOK <=> open \in BOOLEAN /\ StateOK /\ QueueOK /\ KernelOK /\ CallOK
BY DEF TypeOK, StateOK, StateType, KindsOK, QueueOK, KernelOK, CallOK

LEMMA TypePartsNext ==
    open' \in BOOLEAN /\ StateOK' /\ QueueOK' /\ KernelOK' /\ CallOK' => TypeOK'
BY DEF TypeOK, StateOK, StateType, KindsOK, QueueOK, KernelOK, CallOK

(* The list stays a relation on the sockets.                               *)
LEMMA ListWithOK ==
    ASSUME KernelOK, NEW fd \in Fd, NEW mask, NEW ev
    PROVE  ListWith(fd, mask, ev) \in SUBSET (Fd \X Fd)
<1>1. list \in SUBSET (Fd \X Fd) /\ Listed \in SUBSET Fd
  BY DEF KernelOK, Listed
<1>2. {p \in list : fd \notin {p[1], p[2]}} \in SUBSET (Fd \X Fd)
  BY <1>1
<1>3. list \cup ((Listed \cup {fd}) \X {fd}) \in SUBSET (Fd \X Fd)
  BY <1>1
<1>4. QED
  BY <1>1, <1>2, <1>3 DEF ListWith

LEMMA FetchListOK ==
    ASSUME KernelOK, Fetch
    PROVE  list' \in SUBSET (Fd \X Fd)
<1>1. list \in SUBSET (Fd \X Fd) /\ Listed \in SUBSET Fd
  BY DEF KernelOK, Listed
<1>2. Reached \cap Due \in SUBSET Fd /\ Listed \ Reached \in SUBSET Fd
  BY <1>1 DEF Reached, Due
<1>3. \A first, rest \in SUBSET Fd : ListAfter(first, rest) \in SUBSET (Fd \X Fd)
  BY <1>1 DEF ListAfter
<1>4. QED
  BY <1>2, <1>3 DEF Fetch

LEMMA InitTypeOK == Init => TypeOK
<1> SUFFICES ASSUME Init
             PROVE  TypeOK
  OBVIOUS
<1>1. StateOK
  BY IdleOK DEF Init, StateOK, StateType, KindsOK, EntryOK
<1>2. <<>> \in Seq(Completion) /\ Len(<<>>) = 0
  BY EmptySeq
<1>3. QueueOK /\ KernelOK /\ CallOK
  BY <1>2, ConstantFacts DEF Init, QueueOK, KernelOK, CallOK, NoEvents
<1>4. QED
  BY <1>1, <1>3, TypeParts DEF Init

LEMMA SubmitTypeOK ==
    ASSUME TypeOK, NEW fd \in Fd, NEW d \in Dir, NEW r \in Request,
           d = "in" => r.kind \in InKind, d = "out" => r.kind \in OutKind,
           Submit(fd, d, r)
    PROVE  StateOK' /\ QueueOK' /\ KernelOK' /\ open' \in BOOLEAN
<1> DEFINE ops == [state[fd].op EXCEPT ![d] = r]
<1>1. StateOK /\ state[fd].op \in [Dir -> Request \cup {NoOp}]
  BY TypeParts DEF StateOK, StateType
<1>2. EntryOK(Entry(ops))
  <2>1. ops \in [Dir -> Request \cup {NoOp}] /\ Mask(ops) \in SUBSET Dir
    BY <1>1 DEF Mask
  <2>2. "in" \in Dir /\ "out" \in Dir
    BY DEF Dir
  <2>3. /\ ops["in"] # NoOp => ops["in"].kind \in InKind
        /\ ops["out"] # NoOp => ops["out"].kind \in OutKind
    <3>1. EntryOK(state[fd])
      BY <1>1 DEF StateOK, StateType, KindsOK, EntryOK
    <3>2. QED
      BY <1>1, <2>2, <3>1 DEF EntryOK
  <2>4. QED
    BY <2>1, <2>3 DEF EntryOK, Entry
<1>3. StateOK'
  BY <1>1, <1>2, EntryUpdate DEF Submit, FdArm, StateOK
<1>4. armed' \in [Fd -> SUBSET Dir]
  BY <1>2 DEF Submit, FdArm, TypeOK, EntryOK
<1>5. list' \in SUBSET (Fd \X Fd)
  BY TypeParts, ListWithOK DEF Submit, FdArm
<1>6. QED
  BY <1>3, <1>4, <1>5 DEF Submit, TypeOK, QueueOK, KernelOK, world

LEMMA QueueTypeOK ==
    ASSUME TypeOK, NEW r \in Request, NEW status \in Status, NEW n \in 0..r.len,
           Queue(r, status, n)
    PROVE  StateOK' /\ QueueOK' /\ KernelOK' /\ open' \in BOOLEAN
<1> DEFINE c == [id |-> r.id, kind |-> r.kind, status |-> status, bytes |-> n]
<1>1. r.id \in Id /\ r.kind \in Kind /\ r.len \in 1..MaxLen
  BY DEF Request
<1>2. c \in Completion
  BY <1>1, ConstantFacts DEF Completion
<1>3. Append(sync, c) \in Seq(Completion)
  BY <1>2, AppendProperties DEF TypeOK
<1>4. StateOK'
  BY TypeParts DEF Queue, StateOK
<1>5. QED
  BY <1>3, <1>4 DEF Queue, TypeOK, QueueOK, KernelOK, world

(* The requests are accepted one at a time, in one of two ways.            *)
LEMMA SubmissionCases ==
    ASSUME NEW r \in DOMAIN Wanted, Submission(r)
    PROVE  \/ \E fd \in Fd, d \in Dir : /\ d = "in" => r.kind \in InKind
                                        /\ d = "out" => r.kind \in OutKind
                                        /\ Submit(fd, d, r)
           \/ \E status \in Status, n \in 0..r.len : Queue(r, status, n)
<1>1. "in" \in Dir /\ "out" \in Dir /\ "in" # "out"
  BY DEF Dir
<1>2. r.len \in Nat /\ 0 \in 0..r.len /\ "success" \in Status
  BY ConstantFacts, StatusOK DEF Request
<1>3. CASE \E fd \in Wanted[r] : SubmitIn(fd, r) \/ SubmitWrite(fd, r) \/ SubmitConnect(fd, r)
  <2>1. PICK fd \in Fd : SubmitIn(fd, r) \/ SubmitWrite(fd, r) \/ SubmitConnect(fd, r)
    BY <1>3, WantedAreRequests
  <2>2. CASE SubmitIn(fd, r)
    BY <1>1, <2>2 DEF SubmitIn
  <2>3. CASE SubmitWrite(fd, r)
    BY <1>1, <2>3 DEF SubmitWrite, OutKind
  <2>4. CASE SubmitConnect(fd, r)
    BY <1>1, <1>2, <2>4 DEF SubmitConnect, OutKind
  <2>5. QED
    BY <2>1, <2>2, <2>3, <2>4
<1>4. CASE SubmitFile(r)
  BY <1>2, <1>4 DEF SubmitFile
<1>5. QED
  BY <1>3, <1>4 DEF Submission

LEMMA BeginFacts ==
    ASSUME TypeOK, NEW mode, Begin(mode)
    PROVE  /\ Fit \in 0..Len(sync) /\ Fit <= Room
           /\ out' = SubSeq(sync, 1, Fit) /\ sync' = SubSeq(sync, Fit + 1, Len(sync))
           /\ phase' \in {"lua", "drain"} /\ (phase' = "drain" => Fit = Len(sync))
           /\ Fit < Len(sync) => Fit = Room
<1>1. Len(sync) \in Nat
  BY LenProperties DEF TypeOK
<1>2. Fit \in 0..Len(sync) /\ Fit <= Room /\ (Fit < Room => Fit = Len(sync))
  BY <1>1, ConstantFacts DEF Fit
<1>3. /\ out' = SubSeq(sync, 1, Fit) /\ sync' = SubSeq(sync, Fit + 1, Len(sync))
      /\ phase' = IF (mode = "poll" /\ Fit < Room) \/ (mode = "wait" /\ Fit = 0)
                  THEN "drain" ELSE "lua"
  BY DEF Begin, Take, Fit
<1>4. Fit = 0 => Fit < Room
  BY ConstantFacts
<1>5. QED
  BY <1>1, <1>2, <1>3, <1>4, ConstantFacts

LEMMA WithoutOK ==
    ASSUME StateOK, NEW fd \in Fd, NEW served
    PROVE  EntryOK(Without(state[fd], served))
<1> DEFINE ops == [d \in Dir |-> IF d \in served THEN NoOp ELSE state[fd].op[d]]
<1>1. ops \in [Dir -> Request \cup {NoOp}] /\ Mask(ops) \in SUBSET Dir
  BY DEF StateOK, StateType, Mask
<1>2. "in" \in Dir /\ "out" \in Dir
  BY DEF Dir
<1>3. /\ ops["in"] # NoOp => ops["in"].kind \in InKind
      /\ ops["out"] # NoOp => ops["out"].kind \in OutKind
  BY <1>2 DEF StateOK, KindsOK
<1>4. QED
  BY <1>1, <1>3 DEF EntryOK, Entry, Without

LEMMA HandleTypeOK ==
    ASSUME TypeOK, NEW fd \in Fd, Handle(fd)
    PROVE  TypeOK'
<1> DEFINE e == Without(state[fd], Served(fd))
<1>1. StateOK
  BY TypeParts
<1>2. PICK i \in Reports(fd, "in"), o \in Reports(fd, "out") : out' = out \o i \o o
  BY DEF Handle
<1>3. CallOK'
  <2>1. out' \in Seq(Completion) /\ Len(out') <= Room
    BY <1>1, <1>2, HandleOut
  <2>2. batch' \in [Fd -> SUBSET (Dir \cup {"hup"})] /\ phase' = phase
    BY DEF Handle, TypeOK
  <2>3. QED
    BY <2>1, <2>2 DEF TypeOK, CallOK
<1>4. StateOK' /\ armed' \in [Fd -> SUBSET Dir] /\ list' \in SUBSET (Fd \X Fd)
  <2>1. CASE Served(fd) = {}
    <3>1. state' = state /\ armed' = armed /\ list' = list
      BY <2>1 DEF Handle
    <3>2. QED
      BY <1>1, <3>1 DEF StateOK, TypeOK
  <2>2. CASE Served(fd) # {}
    <3>1. /\ state' = [state EXCEPT ![fd] = e] /\ armed' = [armed EXCEPT ![fd] = e.events]
          /\ list' = ListWith(fd, e.events, ready[fd])
      BY <2>2 DEF Handle
    <3>2. EntryOK(e)
      BY <1>1, WithoutOK
    <3>3. StateOK'
      BY <1>1, <3>1, <3>2, EntryUpdate DEF StateOK
    <3>4. e.events \in SUBSET Dir
      BY <3>2 DEF EntryOK
    <3>5. list' \in SUBSET (Fd \X Fd)
      BY <3>1, TypeParts, ListWithOK
    <3>6. QED
      BY <3>1, <3>3, <3>4, <3>5 DEF TypeOK
  <2>3. QED
    BY <2>1, <2>2
<1>5. KernelOK'
  <2>1. PICK gone \in SUBSET Served(fd) : ready' = [ready EXCEPT ![fd] = @ \ gone]
    BY DEF Handle
  <2>2. up' = up
    BY DEF Handle
  <2>3. QED
    BY <1>4, <2>1, <2>2 DEF TypeOK, KernelOK
<1>6. QueueOK' /\ open' \in BOOLEAN
  BY DEF Handle, TypeOK, QueueOK
<1>7. QED
  BY <1>3, <1>4, <1>5, <1>6, TypePartsNext

LEMMA NextTypeOK == TypeOK /\ [Next]_vars => TypeOK'
<1> SUFFICES ASSUME TypeOK, [Next]_vars
             PROVE  TypeOK'
  OBVIOUS
<1>0. StateOK /\ QueueOK /\ KernelOK /\ CallOK
  BY TypeParts
<1>1. ASSUME NEW r \in DOMAIN Wanted, Submission(r)
      PROVE  TypeOK'
  <2>1. r \in Request
    BY ConstantFacts
  <2>2. StateOK' /\ QueueOK' /\ KernelOK' /\ open' \in BOOLEAN
    <3>1. CASE \E fd \in Fd, d \in Dir : /\ d = "in" => r.kind \in InKind
                                         /\ d = "out" => r.kind \in OutKind
                                         /\ Submit(fd, d, r)
      BY <2>1, <3>1, SubmitTypeOK
    <3>2. CASE \E status \in Status, n \in 0..r.len : Queue(r, status, n)
      BY <2>1, <3>2, QueueTypeOK
    <3>3. QED
      BY <1>1, <2>1, <3>1, <3>2, SubmissionCases
  <2>3. CallOK'
    BY <1>0, <1>1 DEF Submission, call, CallOK
  <2>4. QED
    BY <2>2, <2>3, TypePartsNext
<1>2. ASSUME NEW fd \in Fd, Cancel(fd)
      PROVE  TypeOK'
  <2>1. StateOK'
    BY <1>0, <1>2, IdleOK, EntryUpdate DEF Cancel, StateOK
  <2>2. list' \in SUBSET (Fd \X Fd)
    BY <1>0, <1>2, ListWithOK DEF Cancel
  <2>3. QueueOK' /\ KernelOK' /\ CallOK' /\ open' \in BOOLEAN
    BY <1>2, <2>2 DEF Cancel, call, world, TypeOK, QueueOK, KernelOK, CallOK
  <2>4. QED
    BY <2>1, <2>3, TypePartsNext
<1>3. ASSUME NEW fd \in Fd, Handle(fd)
      PROVE  TypeOK'
  BY <1>3, HandleTypeOK
<1>4. CASE Stop
  <2>1. StateOK'
    BY <1>4, IdleOK DEF Stop, StateOK, StateType, KindsOK, EntryOK
  <2>2. QueueOK' /\ KernelOK' /\ CallOK' /\ open' \in BOOLEAN
    BY <1>4 DEF Stop, call, world, NoEvents, TypeOK, QueueOK, KernelOK, CallOK
  <2>3. QED
    BY <2>1, <2>2, TypePartsNext
<1>5. CASE PollOrWait
  <2>1. PICK mode \in {"poll", "wait"} : Begin(mode)
    BY <1>5 DEF PollOrWait
  <2>2. out' \in Seq(Completion) /\ Len(out') <= Room /\ QueueOK'
    <3>1. /\ Fit \in 0..Len(sync) /\ Fit <= Room
          /\ out' = SubSeq(sync, 1, Fit) /\ sync' = SubSeq(sync, Fit + 1, Len(sync))
      BY <2>1, BeginFacts
    <3>2. sync \in Seq(Completion)
      BY DEF TypeOK
    <3>3. QED
      BY <3>1, <3>2, TakeFacts DEF QueueOK
  <2>3. CallOK'
    BY <2>1, <2>2, BeginFacts DEF Begin, TypeOK, CallOK
  <2>4. StateOK' /\ KernelOK' /\ open' \in BOOLEAN
    BY <2>1, <1>0 DEF Begin, world, TypeOK, StateOK, KernelOK
  <2>5. QED
    BY <2>2, <2>3, <2>4, TypePartsNext
<1>6. CASE Fetch \/ Return
  <2>1. CallOK'
    <3>1. \A fd \in Fd : Events(fd) \in SUBSET (Dir \cup {"hup"})
      BY DEF Events, TypeOK
    <3>2. batch' \in [Fd -> SUBSET (Dir \cup {"hup"})]
      BY <1>6, <3>1 DEF Fetch, Return, NoEvents
    <3>3. phase' \in {"lua", "drain", "events"} /\ out' = out
      BY <1>6 DEF Fetch, Return
    <3>4. QED
      BY <3>2, <3>3 DEF TypeOK, CallOK
  <2>2. list' \in SUBSET (Fd \X Fd)
    <3>1. CASE Fetch
      BY <1>0, <3>1, FetchListOK
    <3>2. CASE Return
      BY <1>0, <3>2 DEF Return, backend, KernelOK
    <3>3. QED
      BY <1>6, <3>1, <3>2
  <2>3. StateOK' /\ QueueOK' /\ KernelOK' /\ open' \in BOOLEAN
    BY <1>6, <2>2
       DEF Fetch, Return, backend, world, TypeOK, StateOK, StateType, KindsOK, QueueOK, KernelOK
  <2>4. QED
    BY <2>1, <2>3, TypePartsNext
<1>7. ASSUME NEW fd \in Fd, CloseFd(fd) \/ OpenFd(fd)
      PROVE  TypeOK'
  <2>1. KernelOK'
    <3>1. list' \in SUBSET (Fd \X Fd)
      BY <1>0, <1>7, ListWithOK DEF CloseFd, OpenFd, backend, KernelOK
    <3>2. QED
      BY <1>7, <3>1 DEF CloseFd, OpenFd, backend, TypeOK, KernelOK
  <2>2. StateOK' /\ QueueOK' /\ CallOK' /\ open' \in BOOLEAN
    BY <1>7 DEF CloseFd, OpenFd, backend, call, TypeOK, StateOK, StateType, KindsOK, QueueOK, CallOK
  <2>3. QED
    BY <2>1, <2>2, TypePartsNext
<1>8. ASSUME NEW fd \in Fd,
             (\E ev \in Dir \cup {"hup"} : Arrive(fd, ev)) \/ (\E d \in Dir : Depart(fd, d))
      PROVE  TypeOK'
  <2>1. KernelOK'
    <3>1. ASSUME NEW ev \in Dir \cup {"hup"}, Arrive(fd, ev)
          PROVE  ready' \in [Fd -> SUBSET (Dir \cup {"hup"})]
      BY <3>1 DEF Arrive, TypeOK
    <3>2. ASSUME NEW d \in Dir, Depart(fd, d)
          PROVE  ready' \in [Fd -> SUBSET (Dir \cup {"hup"})]
      BY <3>2 DEF Depart, TypeOK
    <3>3. list' \in SUBSET (Fd \X Fd)
      BY <1>0, <1>8, ListWithOK DEF Arrive, Depart, backend, KernelOK
    <3>4. QED
      BY <1>8, <3>1, <3>2, <3>3 DEF Arrive, Depart, backend, TypeOK, KernelOK
  <2>2. StateOK' /\ QueueOK' /\ CallOK' /\ open' \in BOOLEAN
    BY <1>8 DEF Arrive, Depart, backend, call, TypeOK, StateOK, StateType, KindsOK, QueueOK, CallOK
  <2>3. QED
    BY <2>1, <2>2, TypePartsNext
<1>9. CASE UNCHANGED vars
  BY <1>9 DEF vars, backend, call, world, TypeOK
<1>10. QED
  BY <1>1, <1>2, <1>3, <1>4, <1>5, <1>6, <1>7, <1>8, <1>9 DEF Next

(* TypeOK: every variable of the backend keeps its type, and no call       *)
(* writes more completions than the caller's span has room for.            *)
THEOREM TypeCorrect == Spec => []TypeOK
BY InitTypeOK, NextTypeOK, PTL DEF Spec

-------------------------------------------------------------------------------
(* The queue and epoll_wait                                                *)

LEMMA NextNoBlocking ==
    ASSUME TypeOK, NoBlockingOnQueued, [Next]_vars
    PROVE  NoBlockingOnQueued'
<1>1. ASSUME NEW r \in DOMAIN Wanted, Submission(r)
      PROVE  NoBlockingOnQueued'
  <2>1. phase = "lua"
    <3>1. r \in Request
      BY ConstantFacts
    <3>2. QED
      BY <1>1, <3>1, SubmissionCases DEF Submit, Queue
  <2>2. QED
    BY <1>1, <2>1 DEF Submission, call, NoBlockingOnQueued
<1>2. CASE PollOrWait
  <2>1. PICK mode \in {"poll", "wait"} : Begin(mode)
    BY <1>2 DEF PollOrWait
  <2>2. /\ sync' = SubSeq(sync, Fit + 1, Len(sync)) /\ Fit \in 0..Len(sync)
        /\ phase' # "lua" => Fit = Len(sync)
    BY <2>1, BeginFacts
  <2>3. Len(sync) \in Nat
    BY LenProperties DEF TypeOK
  <2>4. SubSeq(sync, Len(sync) + 1, Len(sync)) = <<>>
    BY <2>3, SubSeqEmpty
  <2>5. QED
    BY <2>2, <2>4 DEF NoBlockingOnQueued
<1>3. CASE Fetch \/ Return
  BY <1>3 DEF Fetch, Return, backend, NoBlockingOnQueued
<1>4. ASSUME NEW fd \in Fd, Cancel(fd) \/ Handle(fd) \/ CloseFd(fd) \/ OpenFd(fd)
      PROVE  NoBlockingOnQueued'
  BY <1>4 DEF Cancel, Handle, CloseFd, OpenFd, call, backend, NoBlockingOnQueued
<1>5. CASE Stop
  BY <1>5 DEF Stop, call, NoBlockingOnQueued
<1>6. ASSUME NEW fd \in Fd,
             (\E ev \in Dir \cup {"hup"} : Arrive(fd, ev)) \/ (\E d \in Dir : Depart(fd, d))
      PROVE  NoBlockingOnQueued'
  BY <1>6 DEF Arrive, Depart, call, backend, NoBlockingOnQueued
<1>7. CASE UNCHANGED vars
  BY <1>7 DEF vars, backend, call, NoBlockingOnQueued
<1>8. QED
  BY <1>1, <1>2, <1>3, <1>4, <1>5, <1>6, <1>7 DEF Next

(* NoBlockingOnQueued: neither poll nor wait goes on to epoll_wait while a *)
(* synchronous completion stays in the queue.                              *)
THEOREM NeverBlocksOnQueued == Spec => []NoBlockingOnQueued
<1>1. Init => NoBlockingOnQueued
  BY DEF Init, NoBlockingOnQueued
<1>2. TypeOK /\ NoBlockingOnQueued /\ [Next]_vars => NoBlockingOnQueued'
  BY NextNoBlocking
<1>3. QED
  BY <1>1, <1>2, TypeCorrect, PTL DEF Spec

-------------------------------------------------------------------------------
(* The registrations.  The script cancels before it closes: otherwise the  *)
(* mask outlives the registration.                                         *)

RegisteredFor(e, mask) == e.events = mask /\ mask = Mask(e.op)

LEMMA RegisteredEntry ==
    ASSUME NEW ops, NEW m, m = Entry(ops).events
    PROVE  RegisteredFor(Entry(ops), m)
BY DEF RegisteredFor, Entry

LEMMA RegisteredIdle == RegisteredFor(Idle, {})
BY DEF RegisteredFor, Idle, Mask

LEMMA RegisteredUpdate ==
    ASSUME TypeOK, EventsAreRegistered, NEW fd \in Fd, NEW e, NEW m,
           RegisteredFor(e, m),
           state' = [state EXCEPT ![fd] = e], armed' = [armed EXCEPT ![fd] = m]
    PROVE  EventsAreRegistered'
<1>1. \A g \in Fd : /\ state'[g] = IF g = fd THEN e ELSE state[g]
                    /\ armed'[g] = IF g = fd THEN m ELSE armed[g]
  BY DEF TypeOK
<1>2. EventsAreRegistered' <=> \A g \in Fd : RegisteredFor(state'[g], armed'[g])
  BY DEF EventsAreRegistered, RegisteredFor, Mask
<1>3. \A g \in Fd : RegisteredFor(state[g], armed[g])
  BY DEF EventsAreRegistered, RegisteredFor
<1>4. QED
  BY <1>1, <1>2, <1>3

(* The steps that touch a registration.                                    *)
Registers ==
    \/ UNCHANGED <<state, armed>> \/ Stop
    \/ \E fd \in Fd : Cancel(fd) \/ Handle(fd) \/ CloseFd(fd)
    \/ \E fd \in Fd, d \in Dir : \E r : Submit(fd, d, r)

LEMMA StepRegistered ==
    ASSUME CancelFirst, TypeOK, EventsAreRegistered, Registers
    PROVE  EventsAreRegistered'
<1>1. ASSUME NEW fd \in Fd, NEW d \in Dir, NEW r, Submit(fd, d, r)
      PROVE  EventsAreRegistered'
  BY <1>1, RegisteredEntry, RegisteredUpdate DEF Submit, FdArm
<1>2. ASSUME NEW fd \in Fd, Cancel(fd)
      PROVE  EventsAreRegistered'
  BY <1>2, RegisteredIdle, RegisteredUpdate DEF Cancel
<1>3. ASSUME NEW fd \in Fd, Handle(fd)
      PROVE  EventsAreRegistered'
  <2>1. CASE Served(fd) = {}
    BY <1>3, <2>1 DEF Handle, EventsAreRegistered
  <2>2. CASE Served(fd) # {}
    <3> DEFINE e == Without(state[fd], Served(fd))
    <3>1. state' = [state EXCEPT ![fd] = e] /\ armed' = [armed EXCEPT ![fd] = e.events]
      BY <1>3, <2>2 DEF Handle
    <3>2. RegisteredFor(e, e.events)
      BY RegisteredEntry DEF Without
    <3>3. QED
      BY <3>1, <3>2, RegisteredUpdate
  <2>3. QED
    BY <2>1, <2>2
<1>4. CASE Stop
  BY <1>4, RegisteredIdle DEF Stop, NoEvents, EventsAreRegistered, RegisteredFor
<1>5. ASSUME NEW fd \in Fd, CloseFd(fd)
      PROVE  EventsAreRegistered'
  <2>1. state[fd] = Idle /\ state' = state /\ armed' = [armed EXCEPT ![fd] = {}]
    BY <1>5 DEF CloseFd
  <2>2. state' = [state EXCEPT ![fd] = Idle]
    BY <2>1 DEF TypeOK
  <2>3. QED
    BY <2>1, <2>2, RegisteredIdle, RegisteredUpdate
<1>6. CASE UNCHANGED <<state, armed>>
  BY <1>6 DEF EventsAreRegistered
<1>7. QED
  BY <1>1, <1>2, <1>3, <1>4, <1>5, <1>6 DEF Registers

LEMMA NextRegistered ==
    ASSUME CancelFirst, TypeOK, EventsAreRegistered, [Next]_vars
    PROVE  EventsAreRegistered'
<1>1. ASSUME NEW r \in DOMAIN Wanted, Submission(r)
      PROVE  Registers
  <2>1. r \in Request
    BY ConstantFacts
  <2>2. ASSUME NEW status \in Status, NEW n \in 0..r.len, Queue(r, status, n)
        PROVE  Registers
    BY <2>2 DEF Queue, Registers
  <2>3. QED
    BY <1>1, <2>1, <2>2, SubmissionCases DEF Registers
<1>2. PollOrWait \/ Fetch \/ Return => Registers
  BY DEF PollOrWait, Begin, Fetch, Return, backend, Registers
<1>3. ASSUME NEW fd \in Fd,
             \/ OpenFd(fd)
             \/ \E ev \in Dir \cup {"hup"} : Arrive(fd, ev)
             \/ \E d \in Dir : Depart(fd, d)
      PROVE  Registers
  BY <1>3 DEF OpenFd, Arrive, Depart, backend, Registers
<1>4. UNCHANGED vars => Registers
  BY DEF vars, backend, Registers
<1>5. Registers
  BY <1>1, <1>2, <1>3, <1>4 DEF Next, Registers
<1>6. QED
  BY <1>5, StepRegistered

LEMMA InitRegistered == Init => EventsAreRegistered
BY RegisteredIdle DEF Init, NoEvents, EventsAreRegistered, RegisteredFor

(* EventsAreRegistered: as long as the script cancels before it closes,    *)
(* the kernel watches each socket for exactly the directions that have a   *)
(* request.                                                                *)
THEOREM Registered == ASSUME CancelFirst PROVE Spec => []EventsAreRegistered
<1>1. TypeOK /\ EventsAreRegistered /\ [Next]_vars => EventsAreRegistered'
  BY NextRegistered
<1>2. QED
  BY InitRegistered, <1>1, TypeCorrect, PTL DEF Spec

-------------------------------------------------------------------------------
(* The refinement of AsyncIface                                            *)

(* Every id is filed once: in one slot, or at one place of the queue.      *)
SlotsDistinct ==
    \A f, g \in Fd, d, e \in Dir :
        /\ state[f].op[d] # NoOp /\ state[g].op[e] # NoOp
        /\ state[f].op[d].id = state[g].op[e].id
        => f = g /\ d = e
PlacesDistinct == \A i, j \in DOMAIN sync : sync[i].id = sync[j].id => i = j
SlotsApart == \A f \in Fd, d \in Dir, i \in DOMAIN sync :
                  state[f].op[d] # NoOp => state[f].op[d].id # sync[i].id
Distinct == SlotsDistinct /\ PlacesDistinct /\ SlotsApart

(* What it means for a pair to be filed, for a state and a queue.          *)
FiledIn(st, s, p) ==
    \/ \E fd \in Fd, d \in Dir : st[fd].op[d] # NoOp /\ p = <<st[fd].op[d].id, fd>>
    \/ \E i \in DOMAIN s : p = <<s[i].id, NoOp>>

LEMMA FiledIs ==
    ASSUME NEW p
    PROVE  /\ (p \in Filed) <=> FiledIn(state, sync, p)
           /\ (p \in Filed') <=> FiledIn(state', sync', p)
<1>1. p \in Filed <=> FiledIn(state, sync, p)
  BY DEF Filed, FiledIn, Ops, Mask
<1>2. (p \in Filed') <=> FiledIn(state', sync', p)
  BY DEF Filed, FiledIn, Ops, Mask
<1>3. QED
  BY <1>1, <1>2

LEMMA PendingIs ==
    ASSUME NEW id
    PROVE  id \in Pending <=> \/ \E fd \in Fd, d \in Dir : /\ state[fd].op[d] # NoOp
                                                           /\ id = state[fd].op[d].id
                              \/ \E i \in DOMAIN sync : id = sync[i].id
BY DEF Pending, Ops, Mask, Ids

LEMMA SubmitSlots ==
    ASSUME TypeOK, NEW fd \in Fd, NEW d \in Dir, NEW r, Submit(fd, d, r)
    PROVE  \A f \in Fd, e \in Dir :
               state'[f].op[e] = IF f = fd /\ e = d THEN r ELSE state[f].op[e]
<1>1. state' = [state EXCEPT ![fd] = Entry([state[fd].op EXCEPT ![d] = r])]
  BY DEF Submit, FdArm
<1>2. \A f \in Fd : state'[f].op = IF f = fd THEN [state[fd].op EXCEPT ![d] = r]
                                             ELSE state[f].op
  BY <1>1 DEF TypeOK, Entry
<1>3. \A e \in Dir : [state[fd].op EXCEPT ![d] = r][e] = IF e = d THEN r ELSE state[fd].op[e]
  BY DEF TypeOK
<1>4. QED
  BY <1>2, <1>3

LEMMA HandleSlots ==
    ASSUME TypeOK, NEW fd \in Fd, Handle(fd)
    PROVE  \A f \in Fd, e \in Dir :
               state'[f].op[e] = IF f = fd /\ e \in Served(fd) THEN NoOp ELSE state[f].op[e]
<1>1. CASE Served(fd) = {}
  BY <1>1 DEF Handle
<1>2. CASE Served(fd) # {}
  <2>1. state' = [state EXCEPT ![fd] = Without(state[fd], Served(fd))]
    BY <1>2 DEF Handle
  <2>2. \A e \in Dir : Without(state[fd], Served(fd)).op[e] =
                           IF e \in Served(fd) THEN NoOp ELSE state[fd].op[e]
    BY DEF Without, Entry
  <2>3. QED
    BY <2>1, <2>2 DEF TypeOK
<1>3. QED
  BY <1>1, <1>2

(* A step that only empties slots keeps the ids distinct.                  *)
LEMMA DistinctFewer ==
    ASSUME Distinct, UNCHANGED sync,
           \A f \in Fd, d \in Dir : state'[f].op[d] \in {NoOp, state[f].op[d]}
    PROVE  Distinct'
<1>1. SlotsDistinct'
  BY DEF Distinct, SlotsDistinct
<1>2. PlacesDistinct' /\ SlotsApart'
  BY DEF Distinct, PlacesDistinct, SlotsApart
<1>3. QED
  BY <1>1, <1>2 DEF Distinct

LEMMA SubmitDistinct ==
    ASSUME TypeOK, Distinct, NEW fd \in Fd, NEW d \in Dir, NEW r \in Request,
           r.id \notin Pending, Submit(fd, d, r)
    PROVE  Distinct'
<1>1. \A f \in Fd, e \in Dir : state[f].op[e] # NoOp => state[f].op[e].id # r.id
  BY PendingIs
<1>2. \A i \in DOMAIN sync : sync[i].id # r.id
  BY PendingIs
<1>3. sync' = sync
  BY DEF Submit
<1>4. \A f \in Fd, e \in Dir :
          state'[f].op[e] = IF f = fd /\ e = d THEN r ELSE state[f].op[e]
  BY SubmitSlots
<1>5. SlotsDistinct'
  BY <1>1, <1>4 DEF Distinct, SlotsDistinct
<1>6. PlacesDistinct' /\ SlotsApart'
  BY <1>2, <1>3, <1>4 DEF Distinct, PlacesDistinct, SlotsApart
<1>7. QED
  BY <1>5, <1>6 DEF Distinct

LEMMA QueueFacts ==
    ASSUME TypeOK, NEW r \in Request, NEW status \in Status, NEW n \in 0..r.len,
           Queue(r, status, n)
    PROVE  /\ state' = state /\ open' = open /\ phase = "lua"
           /\ DOMAIN sync = 1..Len(sync) /\ DOMAIN sync' = 1..(Len(sync) + 1)
           /\ Len(sync) \in Nat
           /\ \A i \in 1..Len(sync) : sync'[i] = sync[i]
           /\ sync'[Len(sync) + 1].id = r.id
<1> DEFINE c == [id |-> r.id, kind |-> r.kind, status |-> status, bytes |-> n]
<1>1. c \in Completion
  BY ConstantFacts DEF Completion, Request
<1>2. sync' = Append(sync, c) /\ state' = state /\ open' = open /\ phase = "lua"
  BY DEF Queue
<1>3. sync \in Seq(Completion)
  BY DEF TypeOK
<1>4. /\ Append(sync, c) \in Seq(Completion)
      /\ Len(Append(sync, c)) = Len(sync) + 1
      /\ \A i \in 1..Len(sync) : Append(sync, c)[i] = sync[i]
      /\ Append(sync, c)[Len(sync) + 1] = c
  BY <1>1, <1>3, AppendProperties
<1>5. QED
  BY <1>2, <1>3, <1>4, LenProperties

LEMMA QueueDistinct ==
    ASSUME TypeOK, Distinct, NEW r \in Request, NEW status \in Status, NEW n \in 0..r.len,
           r.id \notin Pending, Queue(r, status, n)
    PROVE  Distinct'
<1>1. \A f \in Fd, e \in Dir : state[f].op[e] # NoOp => state[f].op[e].id # r.id
  BY PendingIs
<1>2. \A i \in DOMAIN sync : sync[i].id # r.id
  BY PendingIs
<1>3. \A i \in DOMAIN sync' : i \in DOMAIN sync \/ i = Len(sync) + 1
  BY QueueFacts
<1>4. \A i \in DOMAIN sync : sync'[i] = sync[i]
  BY QueueFacts
<1>5. sync'[Len(sync) + 1].id = r.id /\ state' = state
  BY QueueFacts
<1>6. PlacesDistinct'
  BY <1>2, <1>3, <1>4, <1>5 DEF Distinct, PlacesDistinct
<1>7. SlotsApart'
  BY <1>1, <1>3, <1>4, <1>5 DEF Distinct, SlotsApart
<1>8. QED
  BY <1>5, <1>6, <1>7 DEF Distinct, SlotsDistinct

LEMMA BeginQueue ==
    ASSUME TypeOK, NEW mode, Begin(mode)
    PROVE  /\ Len(sync) \in Nat /\ DOMAIN sync = 1..Len(sync) /\ Fit \in 0..Len(sync)
           /\ DOMAIN sync' = 1..(Len(sync) - Fit)
           /\ \A i \in 1..(Len(sync) - Fit) : sync'[i] = sync[Fit + i]
           /\ DOMAIN out' = 1..Fit
           /\ \A i \in 1..Fit : out'[i] = sync[i]
<1>1. sync \in Seq(Completion)
  BY DEF TypeOK
<1>2. /\ Fit \in 0..Len(sync)
      /\ out' = SubSeq(sync, 1, Fit) /\ sync' = SubSeq(sync, Fit + 1, Len(sync))
  BY BeginFacts
<1>3. /\ out' \in Seq(Completion) /\ Len(out') = Fit
      /\ \A i \in 1..Fit : out'[i] = sync[i]
      /\ sync' \in Seq(Completion) /\ Len(sync') = Len(sync) - Fit
      /\ \A i \in 1..(Len(sync) - Fit) : sync'[i] = sync[Fit + i]
  BY <1>1, <1>2, TakeFacts
<1>4. QED
  BY <1>1, <1>2, <1>3, LenProperties

LEMMA BeginDistinct ==
    ASSUME TypeOK, Distinct, NEW mode, Begin(mode)
    PROVE  Distinct'
<1>1. \A i \in DOMAIN sync' : Fit + i \in DOMAIN sync /\ sync'[i] = sync[Fit + i]
  <2>1. /\ Len(sync) \in Nat /\ DOMAIN sync = 1..Len(sync) /\ Fit \in 0..Len(sync)
        /\ DOMAIN sync' = 1..(Len(sync) - Fit)
        /\ \A i \in 1..(Len(sync) - Fit) : sync'[i] = sync[Fit + i]
    BY BeginQueue
  <2>2. SUFFICES ASSUME NEW i \in 1..(Len(sync) - Fit)
                 PROVE  Fit + i \in DOMAIN sync /\ sync'[i] = sync[Fit + i]
    BY <2>1
  <2>3. Fit + i \in 1..Len(sync)
    BY <2>1
  <2>4. QED
    BY <2>1, <2>3
<1>2. ASSUME NEW i \in DOMAIN sync', NEW j \in DOMAIN sync', sync'[i].id = sync'[j].id
      PROVE  i = j
  <2>1. Fit + i = Fit + j
    BY <1>1, <1>2 DEF Distinct, PlacesDistinct
  <2>2. Fit \in Nat /\ i \in Nat /\ j \in Nat
    BY BeginQueue
  <2>3. QED
    BY <2>1, <2>2
<1>3. state' = state
  BY DEF Begin
<1>4. PlacesDistinct'
  BY <1>2 DEF PlacesDistinct
<1>5. SlotsDistinct' /\ SlotsApart'
  BY <1>1, <1>3 DEF Distinct, SlotsDistinct, SlotsApart
<1>6. QED
  BY <1>4, <1>5 DEF Distinct

LEMMA NextDistinct ==
    ASSUME TypeOK, Distinct, [Next]_vars
    PROVE  Distinct'
<1>1. ASSUME NEW r \in DOMAIN Wanted, Unused(r.id), Submission(r)
      PROVE  Distinct'
  <2>1. r \in Request /\ r.id \notin Pending
    BY <1>1, ConstantFacts DEF Unused
  <2>2. QED
    BY <1>1, <2>1, SubmissionCases, SubmitDistinct, QueueDistinct
<1>2. CASE PollOrWait
  BY <1>2, BeginDistinct DEF PollOrWait
<1>3. ASSUME NEW fd \in Fd, Cancel(fd)
      PROVE  Distinct'
  <2>1. \A f \in Fd, d \in Dir : state'[f].op[d] \in {NoOp, state[f].op[d]}
    BY <1>3 DEF Cancel, TypeOK, Idle
  <2>2. QED
    BY <1>3, <2>1, DistinctFewer DEF Cancel
<1>4. ASSUME NEW fd \in Fd, Handle(fd)
      PROVE  Distinct'
  <2>1. \A f \in Fd, d \in Dir : state'[f].op[d] \in {NoOp, state[f].op[d]}
    BY <1>4, HandleSlots
  <2>2. QED
    BY <1>4, <2>1, DistinctFewer DEF Handle
<1>5. CASE Stop
  <2>1. \A f \in Fd, d \in Dir : state'[f].op[d] \in {NoOp, state[f].op[d]}
    BY <1>5 DEF Stop, Idle
  <2>2. QED
    BY <1>5, <2>1, DistinctFewer DEF Stop
<1>6. CASE UNCHANGED <<state, sync>>
  BY <1>6 DEF Distinct, SlotsDistinct, PlacesDistinct, SlotsApart
<1>7. QED
  BY <1>1, <1>2, <1>3, <1>4, <1>5, <1>6
     DEF Next, Fetch, Return, CloseFd, OpenFd, Arrive, Depart, vars, backend

-------------------------------------------------------------------------------
LEMMA SubmitRefines ==
    ASSUME NEW id \in Id, NEW fd \in Fd \cup {NoOp}, phase = "lua", id \notin Pending,
           \A p : FiledIn(state', sync', p) <=> FiledIn(state, sync, p) \/ p = <<id, fd>>,
           UNCHANGED <<open, call>>
    PROVE  Iface!Next
<1>1. id \notin Iface!Ids(Filed)
  <2>1. ASSUME NEW p \in Filed, id = p[1]
        PROVE  FALSE
    BY <2>1, FiledIs, PendingIs DEF FiledIn
  <2>2. QED
    BY <2>1 DEF Iface!Ids
<1>2. Filed' = Filed \cup {<<id, fd>>}
  BY FiledIs
<1>3. Iface!Submit(id, fd)
  BY <1>1, <1>2 DEF Iface!Submit, call
<1>4. QED
  BY <1>3 DEF Iface!Next

LEMMA SubmissionRefines ==
    ASSUME TypeOK, NEW r \in DOMAIN Wanted, Unused(r.id), Submission(r)
    PROVE  Iface!Next
<1>1. r \in Request /\ r.id \in Id /\ r.id \notin Pending
  BY ConstantFacts DEF Unused, Request
<1>2. call' = call
  BY DEF Submission
<1>3. ASSUME NEW fd \in Fd, NEW d \in Dir, Submit(fd, d, r)
      PROVE  Iface!Next
  <2>1. state[fd].op[d] = NoOp /\ r # NoOp /\ phase = "lua"
    BY <1>1, <1>3, ConstantFacts DEF Submit
  <2>2. \A p : FiledIn(state', sync', p) <=> FiledIn(state, sync, p) \/ p = <<r.id, fd>>
    BY <1>3, <2>1, SubmitSlots DEF FiledIn, Submit
  <2>3. QED
    BY <1>1, <1>2, <1>3, <2>1, <2>2, SubmitRefines DEF Submit
<1>4. ASSUME NEW status \in Status, NEW n \in 0..r.len, Queue(r, status, n)
      PROVE  Iface!Next
  <2>1. \A p : (\E i \in DOMAIN sync' : p = <<sync'[i].id, NoOp>>)
               <=> (\E i \in DOMAIN sync : p = <<sync[i].id, NoOp>>) \/ p = <<r.id, NoOp>>
    <3>1. Len(sync) + 1 \in DOMAIN sync' /\ sync'[Len(sync) + 1].id = r.id
      BY <1>1, <1>4, QueueFacts
    <3>2. \A i \in DOMAIN sync : i \in DOMAIN sync' /\ sync'[i] = sync[i]
      BY <1>1, <1>4, QueueFacts
    <3>3. \A i \in DOMAIN sync' : i \in DOMAIN sync \/ i = Len(sync) + 1
      BY <1>1, <1>4, QueueFacts
    <3>4. QED
      BY <3>1, <3>2, <3>3
  <2>2. state' = state /\ open' = open /\ phase = "lua"
    BY <1>1, <1>4, QueueFacts
  <2>3. \A p : FiledIn(state', sync', p) <=> FiledIn(state, sync, p) \/ p = <<r.id, NoOp>>
    BY <2>1, <2>2 DEF FiledIn
  <2>4. QED
    BY <1>1, <1>2, <2>2, <2>3, SubmitRefines
<1>5. QED
  BY <1>1, <1>3, <1>4, SubmissionCases

(* Begin reports the head of the queue.                                    *)
LEMMA BeginRefines ==
    ASSUME TypeOK, Distinct, NEW mode, Begin(mode)
    PROVE  Iface!Next
<1> DEFINE S == {<<sync[i].id, NoOp>> : i \in 1..Fit}
<1>0. /\ Len(sync) \in Nat /\ DOMAIN sync = 1..Len(sync) /\ Fit \in 0..Len(sync)
      /\ DOMAIN sync' = 1..(Len(sync) - Fit)
      /\ \A i \in 1..(Len(sync) - Fit) : sync'[i] = sync[Fit + i]
      /\ DOMAIN out' = 1..Fit
      /\ \A i \in 1..Fit : out'[i] = sync[i]
  BY BeginQueue
<1>1. S \subseteq Filed
  <2>1. \A i \in 1..Fit : i \in DOMAIN sync
    BY BeginQueue
  <2>2. QED
    BY <2>1, FiledIs DEF FiledIn
<1>2. state' = state /\ phase = "lua" /\ open' = open
  BY DEF Begin
<1>3. ASSUME NEW p
      PROVE  p \in Filed' <=> p \in Filed /\ p \notin S
  <2>1. CASE \E fd \in Fd, d \in Dir : state[fd].op[d] # NoOp /\ p = <<state[fd].op[d].id, fd>>
    <3>1. p \in Filed /\ p \in Filed'
      BY <1>2, <2>1, FiledIs DEF FiledIn
    <3>2. \A i \in 1..Fit : i \in DOMAIN sync
      BY BeginQueue
    <3>3. p \notin S
      BY <2>1, <3>2 DEF Distinct, SlotsApart
    <3>4. QED
      BY <3>1, <3>3
  <2>2. CASE ~\E fd \in Fd, d \in Dir : state[fd].op[d] # NoOp /\ p = <<state[fd].op[d].id, fd>>
    <3>1. p \in Filed <=> \E i \in DOMAIN sync : p = <<sync[i].id, NoOp>>
      BY <2>2, FiledIs DEF FiledIn
    <3>2. p \in Filed' <=> \E i \in DOMAIN sync' : p = <<sync'[i].id, NoOp>>
      BY <1>2, <2>2, FiledIs DEF FiledIn
    <3>3. \A i \in DOMAIN sync' : /\ Fit + i \in DOMAIN sync /\ Fit + i \notin 1..Fit
                                  /\ sync'[i] = sync[Fit + i]
      BY <1>0
    <3>4. ASSUME NEW j \in DOMAIN sync, j \notin 1..Fit
          PROVE  j - Fit \in DOMAIN sync' /\ sync'[j - Fit] = sync[j]
      <4>1. j \in Int /\ Fit \in Int /\ j - Fit \in 1..(Len(sync) - Fit) /\ Fit + (j - Fit) = j
        BY <1>0, <3>4
      <4>2. sync'[j - Fit] = sync[Fit + (j - Fit)]
        BY <1>0, <4>1
      <4>3. QED
        BY <1>0, <4>1, <4>2
    <3>5. \A i \in 1..Fit : i \in DOMAIN sync
      BY BeginQueue
    <3>6. ASSUME p \in Filed'
          PROVE  p \in Filed /\ p \notin S
      BY <3>1, <3>2, <3>3, <3>5, <3>6 DEF Distinct, PlacesDistinct
    <3>7. ASSUME p \in Filed, p \notin S
          PROVE  p \in Filed'
      BY <3>1, <3>2, <3>4, <3>7
    <3>8. QED
      BY <3>6, <3>7
  <2>3. QED
    BY <2>1, <2>2
<1>4. Filed' = Filed \ S
  BY <1>1, <1>3
<1>5. Ids(out)' = Iface!Ids(S)
  <2>1. Ids(out)' = {sync[i].id : i \in 1..Fit}
    BY <1>0 DEF Ids
  <2>2. \A x : x \in Iface!Ids(S) <=> \E i \in 1..Fit : x = <<sync[i].id, NoOp>>[1]
    BY DEF Iface!Ids
  <2>3. \A i \in 1..Fit : <<sync[i].id, NoOp>>[1] = sync[i].id
    OBVIOUS
  <2>4. QED
    BY <2>1, <2>2, <2>3
<1>6. Iface!Begin
  BY <1>1, <1>2, <1>4, <1>5 DEF Iface!Begin
<1>7. QED
  BY <1>6 DEF Iface!Next

LEMMA ReportRefines ==
    ASSUME phase # "lua", NEW S \in SUBSET Filed, Filed' = Filed \ S,
           Ids(out)' = Ids(out) \cup Iface!Ids(S), open' = open
    PROVE  Iface!Next
BY DEF Iface!Report, Iface!Next

LEMMA InCallRefines ==
    ASSUME Fetch \/ Return
    PROVE  Iface!Next
<1>1. phase # "lua" /\ UNCHANGED <<out, open, state, sync>>
  BY DEF Fetch, Return, backend
<1>2. Filed' = Filed /\ Ids(out)' = Ids(out)
  BY <1>1 DEF Filed, Ops, Mask, Ids
<1>3. Iface!Ids({}) = {}
  BY DEF Iface!Ids
<1>4. {} \in SUBSET Filed /\ Filed' = Filed \ {} /\ Ids(out)' = Ids(out) \cup Iface!Ids({})
  BY <1>2, <1>3
<1>5. QED
  BY <1>1, <1>4, ReportRefines

LEMMA ConcatIds ==
    ASSUME NEW s \in Seq(Completion), NEW t \in Seq(Completion)
    PROVE  Ids(s \o t) = Ids(s) \cup Ids(t)
<1>1. /\ DOMAIN s = 1..Len(s) /\ Len(s) \in Nat
      /\ DOMAIN t = 1..Len(t) /\ Len(t) \in Nat
  BY LenProperties
<1>2. /\ DOMAIN (s \o t) = 1..(Len(s) + Len(t))
      /\ \A i \in 1..(Len(s) + Len(t)) :
             (s \o t)[i] = IF i <= Len(s) THEN s[i] ELSE t[i - Len(s)]
  BY ConcatProperties, LenProperties
<1>3. ASSUME NEW i \in DOMAIN s
      PROVE  i \in DOMAIN (s \o t) /\ (s \o t)[i] = s[i]
  BY <1>1, <1>2
<1>4. ASSUME NEW i \in DOMAIN t
      PROVE  Len(s) + i \in DOMAIN (s \o t) /\ (s \o t)[Len(s) + i] = t[i]
  BY <1>1, <1>2
<1>5. ASSUME NEW i \in DOMAIN (s \o t)
      PROVE  \/ i \in DOMAIN s /\ (s \o t)[i] = s[i]
             \/ i - Len(s) \in DOMAIN t /\ (s \o t)[i] = t[i - Len(s)]
  BY <1>1, <1>2
<1>6. ASSUME NEW x
      PROVE  x \in Ids(s \o t) <=> x \in Ids(s) \/ x \in Ids(t)
  <2>1. x \in Ids(s) => x \in Ids(s \o t)
    BY <1>3 DEF Ids
  <2>2. x \in Ids(t) => x \in Ids(s \o t)
    BY <1>4 DEF Ids
  <2>3. x \in Ids(s \o t) => x \in Ids(s) \/ x \in Ids(t)
    BY <1>5 DEF Ids
  <2>4. QED
    BY <2>1, <2>2, <2>3
<1>7. QED
  BY <1>6

LEMMA ReportIds ==
    ASSUME StateOK, NEW fd \in Fd, NEW d \in Dir, NEW s \in Reports(fd, d)
    PROVE  Ids(s) = {state[fd].op[e].id : e \in Served(fd) \cap {d}}
<1>1. s \in Seq(Completion) /\ DOMAIN s = 1..Len(s) /\ Len(s) \in Nat
  BY ReportFacts, LenProperties
<1>2. CASE d \in Served(fd)
  <2>1. Len(s) = 1 /\ s[1].id = state[fd].op[d].id
    BY <1>2, ReportFacts
  <2>2. DOMAIN s = {1}
    BY <1>1, <2>1
  <2>3. QED
    BY <1>2, <2>1, <2>2 DEF Ids
<1>3. CASE d \notin Served(fd)
  <2>1. Len(s) = 0
    BY <1>3, ReportFacts
  <2>2. DOMAIN s = {}
    BY <1>1, <2>1
  <2>3. QED
    BY <1>3, <2>2 DEF Ids
<1>4. QED
  BY <1>2, <1>3

LEMMA ServedDirs ==
    ASSUME TypeOK, NEW fd \in Fd
    PROVE  Served(fd) \subseteq Dir /\ \A d \in Served(fd) : state[fd].op[d] # NoOp
<1>1. batch[fd] \in SUBSET (Dir \cup {"hup"})
  BY DEF TypeOK
<1>2. Reported(fd) \subseteq Dir
  BY <1>1 DEF Reported
<1>3. CASE {d \in Reported(fd) : state[fd].op[d] # NoOp /\ Answers(fd, d)} = Dir
  <2>1. "in" \in Dir
    BY DEF Dir
  <2>2. QED
    BY <1>2, <1>3, <2>1 DEF Served
<1>4. CASE {d \in Reported(fd) : state[fd].op[d] # NoOp /\ Answers(fd, d)} # Dir
  BY <1>2, <1>4 DEF Served
<1>5. QED
  BY <1>3, <1>4

(* Handle reports the requests it serves.                                  *)
LEMMA HandleRefines ==
    ASSUME TypeOK, Distinct, NEW fd \in Fd, Handle(fd)
    PROVE  Iface!Next
<1> DEFINE S == {<<state[fd].op[d].id, fd>> : d \in Served(fd)}
<1>1. phase # "lua" /\ open' = open /\ sync' = sync
  BY DEF Handle
<1>2. Served(fd) \subseteq Dir /\ \A d \in Served(fd) : state[fd].op[d] # NoOp
  BY ServedDirs
<1>3. S \subseteq Filed
  BY <1>2, FiledIs DEF FiledIn
<1>4. ASSUME NEW p
      PROVE  p \in Filed' <=> p \in Filed /\ p \notin S
  <2>1. CASE \E i \in DOMAIN sync : p = <<sync[i].id, NoOp>>
    <3>1. p \in Filed /\ p \in Filed'
      BY <1>1, <2>1, FiledIs DEF FiledIn
    <3>2. p \notin S
      BY <1>2, <2>1 DEF Distinct, SlotsApart
    <3>3. QED
      BY <3>1, <3>2
  <2>2. CASE ~\E i \in DOMAIN sync : p = <<sync[i].id, NoOp>>
    <3>1. p \in Filed <=> \E f \in Fd, d \in Dir : /\ state[f].op[d] # NoOp
                                                   /\ p = <<state[f].op[d].id, f>>
      BY <2>2, FiledIs DEF FiledIn
    <3>2. p \in Filed' <=> \E f \in Fd, d \in Dir : /\ state'[f].op[d] # NoOp
                                                    /\ p = <<state'[f].op[d].id, f>>
      BY <1>1, <2>2, FiledIs DEF FiledIn
    <3>3. p \in Filed' <=> \E f \in Fd, d \in Dir : /\ state[f].op[d] # NoOp
                                                    /\ p = <<state[f].op[d].id, f>>
                                                    /\ ~(f = fd /\ d \in Served(fd))
      BY <3>2, HandleSlots
    <3>4. ASSUME NEW f \in Fd, NEW d \in Dir, state[f].op[d] # NoOp,
                 p = <<state[f].op[d].id, f>>, p \in S
          PROVE  f = fd /\ d \in Served(fd)
      BY <1>2, <3>4 DEF Distinct, SlotsDistinct
    <3>5. QED
      BY <3>1, <3>3, <3>4
  <2>3. QED
    BY <2>1, <2>2
<1>5. Filed' = Filed \ S
  BY <1>4
<1>6. Ids(out)' = Ids(out) \cup Iface!Ids(S)
  <2>1. PICK i \in Reports(fd, "in"), o \in Reports(fd, "out") : out' = out \o i \o o
    BY DEF Handle
  <2>2. StateOK /\ "in" \in Dir /\ "out" \in Dir /\ Dir = {"in", "out"}
    BY TypeParts DEF Dir
  <2>3. /\ i \in Seq(Completion) /\ o \in Seq(Completion) /\ out \in Seq(Completion)
        /\ out \o i \in Seq(Completion)
    BY <2>2, ReportFacts, ConcatProperties DEF TypeOK
  <2>4. Ids(out') = Ids(out) \cup Ids(i) \cup Ids(o)
    <3>1. Ids(out \o i) = Ids(out) \cup Ids(i)
      BY <2>3, ConcatIds
    <3>2. Ids((out \o i) \o o) = Ids(out \o i) \cup Ids(o)
      BY <2>3, ConcatIds
    <3>3. QED
      BY <2>1, <3>1, <3>2
  <2>5. /\ Ids(i) = {state[fd].op[e].id : e \in Served(fd) \cap {"in"}}
        /\ Ids(o) = {state[fd].op[e].id : e \in Served(fd) \cap {"out"}}
    BY <2>2, ReportIds
  <2>6. Ids(i) \cup Ids(o) = {state[fd].op[e].id : e \in Served(fd)}
    BY <1>2, <2>2, <2>5
  <2>7. Iface!Ids(S) = {state[fd].op[e].id : e \in Served(fd)}
    <3>1. \A x : x \in Iface!Ids(S)
                 <=> \E d \in Served(fd) : x = <<state[fd].op[d].id, fd>>[1]
      BY DEF Iface!Ids
    <3>2. \A d \in Served(fd) : <<state[fd].op[d].id, fd>>[1] = state[fd].op[d].id
      OBVIOUS
    <3>3. QED
      BY <3>1, <3>2
  <2>8. Ids(out)' = Ids(out')
    BY DEF Ids
  <2>9. QED
    BY <2>4, <2>6, <2>7, <2>8
<1>7. S \in SUBSET Filed
  BY <1>3
<1>8. QED
  BY <1>1, <1>5, <1>6, <1>7, ReportRefines

LEMMA CancelRefines ==
    ASSUME TypeOK, NEW fd \in Fd, Cancel(fd)
    PROVE  Iface!Next
<1> DEFINE S == Filed \ Filed'
<1>1. phase = "lua" /\ UNCHANGED <<open, sync, call>>
  BY DEF Cancel
<1>2. \A f \in Fd, d \in Dir : state'[f].op[d] = IF f = fd THEN NoOp ELSE state[f].op[d]
  BY DEF Cancel, Idle, TypeOK
<1>3. Filed' \subseteq Filed
  BY <1>1, <1>2, FiledIs DEF FiledIn
<1>4. \A p \in S : p[2] = fd
  BY <1>1, <1>2, FiledIs DEF FiledIn
<1>5. S \in SUBSET {p \in Filed : p[2] = fd} /\ Filed' = Filed \ S
  BY <1>3, <1>4
<1>6. Iface!Cancel(fd)
  BY <1>1, <1>5 DEF Iface!Cancel, call
<1>7. QED
  BY <1>6 DEF Iface!Next

LEMMA StopRefines ==
    ASSUME TypeOK, Stop
    PROVE  Iface!Next
<1> DEFINE S == Filed \ Filed'
<1>1. phase = "lua" /\ UNCHANGED <<sync, call>> /\ ~open'
  BY DEF Stop
<1>2. \A f \in Fd, d \in Dir : state'[f].op[d] = NoOp
  BY DEF Stop, Idle
<1>3. Filed' \subseteq Filed
  BY <1>1, <1>2, FiledIs DEF FiledIn
<1>4. S \in SUBSET Filed /\ Filed' = Filed \ S
  BY <1>3
<1>5. Iface!Stop
  BY <1>1, <1>4 DEF Iface!Stop, call
<1>6. QED
  BY <1>5 DEF Iface!Next

LEMMA InitRefines == Init => Iface!Init
<1> SUFFICES ASSUME Init
             PROVE  Iface!Init
  OBVIOUS
<1>1. DOMAIN <<>> = {}
  OBVIOUS
<1>2. \A fd \in Fd, d \in Dir : state[fd].op[d] = NoOp
  BY DEF Init, Idle
<1>3. Filed = {} /\ Ids(out) = {}
  BY <1>1, <1>2, FiledIs DEF FiledIn, Ids, Init
<1>4. QED
  BY <1>3 DEF Init, Iface!Init

LEMMA NextRefines ==
    ASSUME TypeOK, Distinct, [Next]_vars
    PROVE  [Iface!Next]_Iface!vars
<1>1. ASSUME NEW r \in DOMAIN Wanted, Unused(r.id), Submission(r)
      PROVE  Iface!Next
  BY <1>1, SubmissionRefines
<1>2. CASE PollOrWait
  BY <1>2, BeginRefines DEF PollOrWait
<1>3. CASE Fetch \/ Return
  BY <1>3, InCallRefines
<1>4. ASSUME NEW fd \in Fd, Cancel(fd) \/ Handle(fd)
      PROVE  Iface!Next
  BY <1>4, CancelRefines, HandleRefines
<1>5. CASE Stop
  BY <1>5, StopRefines
<1>6. CASE UNCHANGED <<state, sync, out, phase, open>>
  BY <1>6 DEF Filed, Ops, Mask, Ids, Iface!vars
<1>7. QED
  BY <1>1, <1>2, <1>3, <1>4, <1>5, <1>6
     DEF Next, CloseFd, OpenFd, Arrive, Depart, vars, backend, call

(* ImplementsIface: the epoll backend, for any sockets, requests and span, *)
(* reports what was accepted, once, and loses nothing inside poll or wait. *)
THEOREM Refinement == Spec => ImplementsIface
<1>1. Init => Distinct
  <2>1. DOMAIN <<>> = {}
    OBVIOUS
  <2>2. QED
    BY <2>1 DEF Init, Distinct, SlotsDistinct, PlacesDistinct, SlotsApart, Idle
<1>2. TypeOK /\ Distinct /\ [Next]_vars => Distinct'
  BY NextDistinct
<1>3. Spec => [](TypeOK /\ Distinct)
  BY <1>1, <1>2, TypeCorrect, PTL DEF Spec
<1>4. TypeOK /\ Distinct /\ [Next]_vars => [Iface!Next]_Iface!vars
  BY NextRefines
<1>5. QED
  BY <1>3, <1>4, InitRefines, PTL DEF Spec, ImplementsIface, Iface!Spec

-------------------------------------------------------------------------------
(* Sums over a queue.  Induction over the naturals is stated for a set, so *)
(* that it needs no operator parameter.                                    *)

LEMMA Induction ==
    ASSUME NEW T, 0 \in T, \A n \in Nat : n \in T => n + 1 \in T
    PROVE  \A n \in Nat : n \in T
<1> DEFINE D == {n \in Nat : n \notin T}
<1>1. ASSUME D # {}
      PROVE  FALSE
  <2>1. PICK n \in D : \A m \in D : ~(<<m, n>> \in OpToRel(<, Nat))
    <3>1. D \subseteq Nat
      OBVIOUS
    <3>2. QED
      BY <1>1, <3>1, NatLessThanWellFounded, WFMin
  <2>2. \A m \in D : ~(m < n)
    BY <2>1 DEF OpToRel
  <2>3. n \in Nat /\ n # 0
    OBVIOUS
  <2>4. n - 1 \in Nat /\ n - 1 < n /\ (n - 1) + 1 = n
    BY <2>3
  <2>5. n - 1 \in T
    BY <2>2, <2>4
  <2>6. QED
    BY <2>4, <2>5
<1>2. QED
  BY <1>1

(* A recursive function over 0..N exists: f[0] is base, and step[n] takes  *)
(* f[n - 1] to f[n].                                                       *)
Steps(N, D) == [1..N -> [D -> D]]
Follows(f, N, D, base, step) ==
    f \in [0..N -> D] /\ f[0] = base /\ \A n \in 1..N : f[n] = step[n][f[n - 1]]

LEMMA Recursion ==
    ASSUME NEW N \in Nat, NEW D, NEW base \in D, NEW step \in Steps(N, D)
    PROVE  \E f : Follows(f, N, D, base, step)
<1> DEFINE T == {m \in Nat : m <= N => \E f : Follows(f, m, D, base, step)}
<1>0. step \in [1..N -> [D -> D]]
  BY DEF Steps
<1>1. 0 \in T
  <2>1. Follows([i \in 0..0 |-> base], 0, D, base, step)
    BY DEF Follows
  <2>2. QED
    BY <2>1
<1>2. ASSUME NEW m \in Nat, m \in T
      PROVE  m + 1 \in T
  <2>1. SUFFICES ASSUME m + 1 <= N
                 PROVE  \E g : Follows(g, m + 1, D, base, step)
    OBVIOUS
  <2>2. PICK f : Follows(f, m, D, base, step)
    BY <1>2, <2>1
  <2> DEFINE g == [i \in 0..(m + 1) |-> IF i = m + 1 THEN step[m + 1][f[m]] ELSE f[i]]
  <2>3. f[m] \in D /\ m + 1 \in 1..N /\ step[m + 1][f[m]] \in D
    BY <1>0, <2>1, <2>2 DEF Follows
  <2>4. g \in [0..(m + 1) -> D]
    BY <2>2, <2>3 DEF Follows
  <2>5. \A i \in 0..m : g[i] = f[i]
    OBVIOUS
  <2>6. g[m + 1] = step[m + 1][g[m]]
    <3>1. m + 1 \in 0..(m + 1) /\ m \in 0..m
      OBVIOUS
    <3>2. g[m + 1] = step[m + 1][f[m]]
      BY <3>1
    <3>3. QED
      BY <2>5, <3>1, <3>2
  <2>7. g[0] = base
    BY <2>2, <2>5 DEF Follows
  <2>8. ASSUME NEW n \in 1..(m + 1)
        PROVE  g[n] = step[n][g[n - 1]]
    <3>1. CASE n = m + 1
      BY <2>6, <3>1
    <3>2. CASE n # m + 1
      <4>1. n \in 1..m /\ n - 1 \in 0..m /\ n \in 0..m
        BY <3>2
      <4>2. QED
        BY <2>2, <2>5, <4>1 DEF Follows
    <3>3. QED
      BY <3>1, <3>2
  <2>9. QED
    BY <2>4, <2>7, <2>8 DEF Follows
<1> HIDE DEF T
<1>3. N \in T
  BY <1>1, <1>2, Induction
<1>4. QED
  BY <1>3 DEF T

LEMMA SumsDef ==
    ASSUME NEW s \in Seq(Nat)
    PROVE  /\ Sums(s) \in [0..Len(s) -> Nat] /\ Sums(s)[0] = 0
           /\ \A k \in 1..Len(s) : Sums(s)[k] = Sums(s)[k - 1] + s[k]
           /\ Total(s) \in Nat
<1> DEFINE step == [k \in 1..Len(s) |-> [n \in Nat |-> n + s[k]]]
           Is(f) == f = [k \in 0..Len(s) |-> IF k = 0 THEN 0 ELSE f[k - 1] + s[k]]
<1>1. Len(s) \in Nat /\ \A k \in 1..Len(s) : s[k] \in Nat
  BY LenProperties, ElementOfSeq
<1>2. step \in Steps(Len(s), Nat)
  BY <1>1 DEF Steps
<1>3. PICK f : Follows(f, Len(s), Nat, 0, step)
  <2> HIDE DEF step, Is
  <2>1. QED
    BY <1>1, <1>2, Recursion
<1>4. ASSUME NEW n \in 1..Len(s)
      PROVE  f[n - 1] \in Nat /\ f[n] = f[n - 1] + s[n]
  <2>1. f[n - 1] \in Nat /\ f[n] = step[n][f[n - 1]]
    <3>1. n - 1 \in 0..Len(s)
      BY <1>1
    <3> HIDE DEF step
    <3>2. QED
      BY <1>3, <3>1 DEF Follows
  <2>2. \A m \in Nat : step[n][m] = m + s[n]
    OBVIOUS
  <2>3. QED
    BY <2>1, <2>2
<1>5. Is(f)
  <2>1. \A k \in 0..Len(s) : f[k] = IF k = 0 THEN 0 ELSE f[k - 1] + s[k]
    BY <1>1, <1>3, <1>4 DEF Follows
  <2>2. f = [k \in 0..Len(s) |-> f[k]]
    BY <1>3 DEF Follows
  <2>3. QED
    BY <2>1, <2>2
<1>6. Is(Sums(s))
  <2>1. Sums(s) = CHOOSE g : Is(g)
    BY DEF Sums
  <2> HIDE DEF Is
  <2>2. QED
    BY <1>5, <2>1
<1>7. \A k \in 0..Len(s) : Sums(s)[k] = IF k = 0 THEN 0 ELSE Sums(s)[k - 1] + s[k]
  BY <1>6
<1>8. \A k \in 0..Len(s) : Sums(s)[k] \in Nat
  <2> DEFINE T == {k \in Nat : k <= Len(s) => Sums(s)[k] \in Nat}
  <2>1. 0 \in T
    BY <1>1, <1>7
  <2>2. ASSUME NEW k \in Nat, k \in T
        PROVE  k + 1 \in T
    <3>1. SUFFICES ASSUME k + 1 <= Len(s)
                   PROVE  Sums(s)[k + 1] \in Nat
      OBVIOUS
    <3>2. k + 1 \in 0..Len(s) /\ k + 1 \in 1..Len(s) /\ (k + 1) - 1 = k /\ k + 1 # 0
      BY <1>1, <3>1
    <3>3. Sums(s)[k] \in Nat
      BY <1>1, <2>2, <3>1
    <3>4. Sums(s)[k + 1] = Sums(s)[(k + 1) - 1] + s[k + 1]
      BY <1>7, <3>2
    <3>5. QED
      BY <1>1, <3>2, <3>3, <3>4
  <2> HIDE DEF T
  <2>3. \A k \in Nat : k \in T
    BY <2>1, <2>2, Induction
  <2>4. QED
    BY <1>1, <2>3 DEF T
<1>9. Sums(s) \in [0..Len(s) -> Nat]
  <2>1. Sums(s) = [k \in 0..Len(s) |-> Sums(s)[k]]
    BY <1>6
  <2>2. QED
    BY <1>8, <2>1
<1>10. Total(s) \in Nat /\ Sums(s)[0] = 0
  BY <1>1, <1>7, <1>8 DEF Total
<1>11. \A k \in 1..Len(s) : Sums(s)[k] = Sums(s)[k - 1] + s[k]
  BY <1>1, <1>7
<1>12. QED
  BY <1>9, <1>10, <1>11

(* One more count at the end adds to the total.                            *)
LEMMA TotalAppend ==
    ASSUME NEW s \in Seq(Nat), NEW n \in Nat
    PROVE  Append(s, n) \in Seq(Nat) /\ Total(Append(s, n)) = Total(s) + n
<1> DEFINE t == Append(s, n)
<1>1. /\ t \in Seq(Nat) /\ Len(t) = Len(s) + 1 /\ Len(s) \in Nat
      /\ t[Len(s) + 1] = n /\ \A k \in 1..Len(s) : t[k] = s[k]
  BY AppendProperties, LenProperties
<1> HIDE DEF t
<1> DEFINE T == {k \in Nat : k <= Len(s) => Sums(t)[k] = Sums(s)[k]}
<1>2. 0 \in T
  BY <1>1, SumsDef
<1>3. ASSUME NEW k \in Nat, k \in T
      PROVE  k + 1 \in T
  <2>1. SUFFICES ASSUME k + 1 <= Len(s)
                 PROVE  Sums(t)[k + 1] = Sums(s)[k + 1]
    OBVIOUS
  <2>2. k + 1 \in 1..Len(s) /\ k + 1 \in 1..Len(t) /\ (k + 1) - 1 = k
    BY <1>1, <2>1
  <2>3. Sums(t)[k] = Sums(s)[k] /\ t[k + 1] = s[k + 1]
    BY <1>1, <1>3, <2>1, <2>2
  <2>4. Sums(t)[k + 1] = Sums(t)[k] + t[k + 1] /\ Sums(s)[k + 1] = Sums(s)[k] + s[k + 1]
    BY <1>1, <2>2, SumsDef
  <2>5. QED
    BY <2>3, <2>4
<1>4. Sums(t)[Len(s)] = Sums(s)[Len(s)]
  <2> HIDE DEF T
  <2>1. \A k \in Nat : k \in T
    BY <1>2, <1>3, Induction
  <2>2. QED
    BY <1>1, <2>1 DEF T
<1>5. Sums(t)[Len(t)] = Sums(t)[Len(s)] + n
  <2>1. Len(t) \in 1..Len(t) /\ Len(t) - 1 = Len(s)
    BY <1>1
  <2>2. QED
    BY <1>1, <2>1, SumsDef
<1>6. QED
  BY <1>1, <1>4, <1>5 DEF Total, t

(* A total is at least each of its partial sums, so positive counts have a *)
(* positive total.                                                         *)
LEMMA TotalPositive ==
    ASSUME NEW s \in Seq(Nat), s # <<>>, \A k \in 1..Len(s) : s[k] > 0
    PROVE  Total(s) > 0
<1>1. Len(s) \in Nat /\ Len(s) # 0 /\ \A k \in 1..Len(s) : s[k] \in Nat
  BY LenProperties, ElementOfSeq, EmptySeq
<1>2. Len(s) \in 1..Len(s) /\ Len(s) - 1 \in 0..Len(s)
  BY <1>1
<1>3. Sums(s)[Len(s) - 1] \in Nat
  BY <1>2, SumsDef
<1>4. QED
  BY <1>1, <1>2, <1>3, SumsDef DEF Total

LEMMA TotalEmpty == Total(<<>>) = 0
<1>1. <<>> \in Seq(Nat) /\ Len(<<>>) = 0
  BY EmptySeq
<1>2. QED
  BY <1>1, SumsDef DEF Total

-------------------------------------------------------------------------------
(* The queue of a write_buf                                                *)

(* A string of which not every byte is sent.                               *)
Entries == {e \in [len : 1..MaxWrote, offset : 0..MaxWrote] : e.offset < e.len}

LEMMA BoundFacts ==
    /\ Cap \in Nat /\ Cap <= MaxLen /\ MaxWrote \in Nat /\ MaxWrote <= MaxLen
    /\ MaxReuse \in Nat /\ MaxLen \in Nat /\ MaxStack \in Nat /\ MaxStack >= 1
BY BoundsFit, MaxLenIsPositive, MaxStackIsPositive

LEMMA EntryFacts ==
    ASSUME NEW e \in Entries
    PROVE  /\ e.len \in Nat /\ e.offset \in Nat /\ e.offset < e.len /\ e.len <= MaxWrote
           /\ e.len - e.offset \in Nat /\ e.len - e.offset > 0
           /\ e = [len |-> e.len, offset |-> e.offset]
BY BoundFacts DEF Entries

Lens(q) == [k \in DOMAIN q |-> q[k].len]
Rests(q) == [k \in DOMAIN q |-> q[k].len - q[k].offset]

LEMMA CountsOfQueue ==
    ASSUME NEW q \in Seq(Entries)
    PROVE  /\ Lens(q) \in Seq(Nat) /\ Rests(q) \in Seq(Nat)
           /\ Len(Lens(q)) = Len(q) /\ Len(Rests(q)) = Len(q)
           /\ \A k \in 1..Len(q) : Rests(q)[k] > 0
           /\ \A k \in 1..Len(q) : /\ Lens(q)[k] = q[k].len
                                   /\ Rests(q)[k] = q[k].len - q[k].offset
<1>1. Len(q) \in Nat /\ DOMAIN q = 1..Len(q) /\ \A k \in 1..Len(q) : q[k] \in Entries
  BY LenProperties, ElementOfSeq
<1>2. \A k \in 1..Len(q) : /\ q[k].len \in Nat
                           /\ q[k].len - q[k].offset \in Nat /\ q[k].len - q[k].offset > 0
  BY <1>1, EntryFacts
<1>3. Lens(q) \in [1..Len(q) -> Nat] /\ Rests(q) \in [1..Len(q) -> Nat]
  BY <1>1, <1>2 DEF Lens, Rests
<1>4. /\ Lens(q) \in Seq(Nat) /\ Len(Lens(q)) = Len(q)
      /\ Rests(q) \in Seq(Nat) /\ Len(Rests(q)) = Len(q)
  BY <1>1, <1>3, IsASeq, LenProperties
<1>5. QED
  BY <1>1, <1>2, <1>4 DEF Lens, Rests

LEMMA QueueCounts ==
    ASSUME NEW q \in Seq(Entries)
    PROVE  /\ Queued(q) \in Nat /\ Unsent(q) \in Nat
           /\ q # <<>> => Unsent(q) > 0
<1>1. Queued(q) = Total(Lens(q)) /\ Unsent(q) = Total(Rests(q))
  BY DEF Queued, Unsent, Lens, Rests
<1>2. Queued(q) \in Nat /\ Unsent(q) \in Nat
  BY <1>1, CountsOfQueue, SumsDef
<1>3. ASSUME q # <<>>
      PROVE  Unsent(q) > 0
  <2>1. Len(Rests(q)) # 0
    BY <1>3, CountsOfQueue, EmptySeq
  <2>2. Rests(q) # <<>>
    BY <2>1, EmptySeq
  <2>3. QED
    BY <1>1, <2>2, CountsOfQueue, TotalPositive
<1>4. QED
  BY <1>2, <1>3

LEMMA EmptyQueue == <<>> \in Seq(Entries) /\ Queued(<<>>) = 0 /\ Unsent(<<>>) = 0
<1>1. <<>> \in Seq(Entries)
  BY EmptySeq
<1>2. Lens(<<>>) = <<>> /\ Rests(<<>>) = <<>>
  <2>1. Len(Lens(<<>>)) = 0 /\ Len(Rests(<<>>)) = 0
    BY <1>1, CountsOfQueue, EmptySeq
  <2>2. QED
    BY <1>1, <2>1, CountsOfQueue, EmptySeq
<1>3. QED
  BY <1>1, <1>2, TotalEmpty DEF Queued, Unsent, Lens, Rests

LEMMA QueueAppended ==
    ASSUME NEW q \in Seq(Entries), NEW e \in Entries
    PROVE  /\ Append(q, e) \in Seq(Entries)
           /\ Queued(Append(q, e)) = Queued(q) + e.len
           /\ Unsent(Append(q, e)) = Unsent(q) + (e.len - e.offset)
<1> DEFINE t == Append(q, e)
<1>1. /\ t \in Seq(Entries) /\ Len(t) = Len(q) + 1 /\ Len(q) \in Nat
      /\ t[Len(q) + 1] = e /\ \A k \in 1..Len(q) : t[k] = q[k]
  BY AppendProperties, LenProperties
<1> HIDE DEF t
<1>2. e.len \in Nat /\ e.len - e.offset \in Nat
  BY EntryFacts
<1>3. Lens(t) = Append(Lens(q), e.len)
  <2>1. /\ Append(Lens(q), e.len) \in Seq(Nat)
        /\ Len(Append(Lens(q), e.len)) = Len(q) + 1
        /\ Append(Lens(q), e.len)[Len(q) + 1] = e.len
        /\ \A k \in 1..Len(q) : Append(Lens(q), e.len)[k] = Lens(q)[k]
    BY <1>2, CountsOfQueue, AppendProperties
  <2>2. ASSUME NEW k \in 1..(Len(q) + 1)
        PROVE  Lens(t)[k] = Append(Lens(q), e.len)[k]
    <3>1. Lens(t)[k] = t[k].len
      BY <1>1, CountsOfQueue
    <3>2. k \in 1..Len(q) => Lens(q)[k] = q[k].len
      BY CountsOfQueue
    <3>3. k \in 1..Len(q) \/ k = Len(q) + 1
      BY <1>1
    <3>4. QED
      BY <1>1, <2>1, <3>1, <3>2, <3>3
  <2>3. Lens(t) \in Seq(Nat) /\ Len(Lens(t)) = Len(q) + 1
    BY <1>1, CountsOfQueue
  <2>4. QED
    BY <2>1, <2>2, <2>3, SeqEqual
<1>4. Rests(t) = Append(Rests(q), e.len - e.offset)
  <2> DEFINE r == e.len - e.offset
  <2>0. r \in Nat
    BY <1>2
  <2> HIDE DEF r
  <2>1. /\ Append(Rests(q), r) \in Seq(Nat)
        /\ Len(Append(Rests(q), r)) = Len(q) + 1
        /\ Append(Rests(q), r)[Len(q) + 1] = r
        /\ \A k \in 1..Len(q) : Append(Rests(q), r)[k] = Rests(q)[k]
    BY <2>0, CountsOfQueue, AppendProperties
  <2>2. ASSUME NEW k \in 1..(Len(q) + 1)
        PROVE  Rests(t)[k] = Append(Rests(q), r)[k]
    <3>1. Rests(t)[k] = t[k].len - t[k].offset
      BY <1>1, CountsOfQueue
    <3>2. k \in 1..Len(q) => Rests(q)[k] = q[k].len - q[k].offset
      BY CountsOfQueue
    <3>3. k \in 1..Len(q) \/ k = Len(q) + 1
      BY <1>1
    <3>4. QED
      BY <1>1, <2>1, <3>1, <3>2, <3>3 DEF r
  <2>3. Rests(t) \in Seq(Nat) /\ Len(Rests(t)) = Len(q) + 1
    BY <1>1, CountsOfQueue
  <2>4. Rests(t) = Append(Rests(q), r)
    BY <2>1, <2>2, <2>3, SeqEqual
  <2>5. QED
    BY <2>4 DEF r
<1>5. /\ Total(Lens(t)) = Total(Lens(q)) + e.len
      /\ Total(Rests(t)) = Total(Rests(q)) + (e.len - e.offset)
  BY <1>2, <1>3, <1>4, CountsOfQueue, TotalAppend
<1>6. QED
  BY <1>1, <1>5 DEF Queued, Unsent, Lens, Rests, t

-------------------------------------------------------------------------------
(* write_buf::consume                                                      *)

Working == [left : Nat, q : Seq(Entries), buffered : Int]

(* One turn of the loop accounts for its string: bytes that were taken     *)
(* from what is left are gone from the queue, and nothing else is.         *)
LEMMA PassAccounts ==
    ASSUME NEW s \in Working, NEW e \in Entries, s.left > 0 => s.q = <<>>
    PROVE  /\ Pass(s, e) \in Working
           /\ Pass(s, e).left > 0 => Pass(s, e).q = <<>>
           /\ Pass(s, e).left <= s.left
           /\ Unsent(Pass(s, e).q) + s.left
                = Unsent(s.q) + (e.len - e.offset) + Pass(s, e).left
           /\ Queued(Pass(s, e).q) - Pass(s, e).buffered
                = Queued(s.q) + e.len - s.buffered
           /\ Pass(s, e).buffered <= s.buffered
<1>0. s.left \in Nat /\ s.q \in Seq(Entries) /\ s.buffered \in Int
  BY DEF Working
<1>1. Queued(s.q) \in Nat /\ Unsent(s.q) \in Nat
  BY <1>0, QueueCounts
<1>2. /\ e.len \in Nat /\ e.offset \in Nat /\ e.offset < e.len /\ e.len <= MaxWrote
      /\ e.len - e.offset \in Nat /\ e.len - e.offset > 0
  BY EntryFacts
<1> DEFINE p == Pass(s, e)
           Goal == /\ p \in Working /\ (p.left > 0 => p.q = <<>>) /\ p.left <= s.left
                   /\ Unsent(p.q) + s.left = Unsent(s.q) + (e.len - e.offset) + p.left
                   /\ Queued(p.q) - p.buffered = Queued(s.q) + e.len - s.buffered
                   /\ p.buffered <= s.buffered
<1>3. CASE SentWhole(s.left, e)
  <2>1. /\ p.left = s.left - (e.len - e.offset) /\ p.q = s.q
        /\ p.buffered = s.buffered - e.len
        /\ p = [left |-> s.left - (e.len - e.offset), q |-> s.q,
                buffered |-> s.buffered - e.len]
    BY <1>3 DEF Pass, Counted, Working
  <2>2. s.left > 0 /\ s.left >= e.len - e.offset /\ s.q = <<>>
    BY <1>3 DEF SentWhole
  <2> HIDE DEF p
  <2>3. p \in Working
    BY <1>0, <1>2, <2>1, <2>2 DEF Working
  <2>4. Unsent(p.q) = Unsent(s.q) /\ Queued(p.q) = Queued(s.q) /\ p.q = <<>>
    BY <2>1, <2>2
  <2> DEFINE d == e.len - e.offset
  <2>5. d \in Nat /\ d > 0 /\ p.left = s.left - d /\ s.left >= d
    BY <1>2, <2>1, <2>2
  <2>6. p.left <= s.left /\ Unsent(p.q) + s.left = Unsent(s.q) + d + p.left
    <3> HIDE DEF d
    <3>1. QED
      BY <1>0, <1>1, <2>4, <2>5
  <2>7. Queued(p.q) - p.buffered = Queued(s.q) + e.len - s.buffered /\ p.buffered <= s.buffered
    BY <1>0, <1>1, <1>2, <2>1, <2>4
  <2>8. Goal
    BY <2>3, <2>4, <2>6, <2>7
  <2>9. QED
    BY <2>8 DEF p
<1>4. CASE ~SentWhole(s.left, e)
  <2> DEFINE f == SentInPart(s.left, e)
  <2>1. s.left = 0 \/ s.left < e.len - e.offset
    BY <1>0, <1>2, <1>4 DEF SentWhole
  <2>2. f.len = e.len /\ f.offset = e.offset + s.left /\ f \in Entries
    BY <1>0, <1>2, <2>1, BoundFacts DEF SentInPart, Entries
  <2> HIDE DEF f
  <2>3. /\ Append(s.q, f) \in Seq(Entries)
        /\ Queued(Append(s.q, f)) = Queued(s.q) + f.len
        /\ Unsent(Append(s.q, f)) = Unsent(s.q) + (f.len - f.offset)
    BY <1>0, <2>2, QueueAppended
  <2>4. /\ Pass(s, e).left = 0 /\ Pass(s, e).q = Append(s.q, f)
        /\ Pass(s, e).buffered = s.buffered
        /\ Pass(s, e) = [left |-> 0, q |-> Append(s.q, f), buffered |-> s.buffered]
    BY <1>4 DEF Pass, Working, f
  <2> DEFINE len == e.len
             gap == e.len - e.offset
             sent == s.left
             unsent == Unsent(s.q)
             queued == Queued(s.q)
  <2>5. p \in Working /\ p.left = 0 /\ p.q = Append(s.q, f) /\ p.buffered = s.buffered
    BY <1>0, <2>3, <2>4 DEF Working
  <2> HIDE DEF p
  <2>6. Queued(p.q) = queued + len /\ Unsent(p.q) = unsent + (f.len - f.offset)
    BY <2>2, <2>3, <2>5
  <2>7. f.len - f.offset = gap - sent
    <3>1. f.len = len /\ f.offset = e.offset + sent /\ sent \in Nat /\ e.offset \in Nat
          /\ len \in Nat /\ gap = len - e.offset
      BY <1>0, <1>2, <2>2
    <3> HIDE DEF sent, len, gap
    <3>2. QED
      BY <3>1
  <2>8. gap \in Nat /\ len \in Nat /\ sent \in Nat /\ unsent \in Nat /\ queued \in Nat
        /\ s.buffered \in Int
    BY <1>0, <1>1, <1>2
  <2>9. Unsent(p.q) + sent = unsent + gap + p.left
    <3> HIDE DEF gap, sent, unsent
    <3>1. QED
      BY <2>5, <2>6, <2>7, <2>8
  <2>10. Queued(p.q) - p.buffered = queued + len - s.buffered
    <3> HIDE DEF len, queued
    <3>1. QED
      BY <2>5, <2>6, <2>8
  <2>11. p.left <= s.left /\ (p.left > 0 => p.q = <<>>) /\ p.buffered <= s.buffered
    BY <1>0, <2>5
  <2>12. Goal
    BY <2>5, <2>9, <2>10, <2>11
  <2>13. QED
    BY <2>12 DEF p
<1>5. QED
  BY <1>3, <1>4

LEMMA PassesDef ==
    ASSUME NEW w, w.q \in Seq(Entries), w.buffered \in Int, NEW bytes \in Nat
    PROVE  /\ Passes(w, bytes)[0] = [left |-> bytes, q |-> <<>>, buffered |-> w.buffered]
           /\ \A k \in 1..Len(w.q) : Passes(w, bytes)[k] = Pass(Passes(w, bytes)[k - 1], w.q[k])
<1> DEFINE n == Len(w.q)
           base == [left |-> bytes, q |-> <<>>, buffered |-> w.buffered]
           Good == {s \in Working : s.left > 0 => s.q = <<>>}
           step == [k \in 1..n |-> [s \in Good |-> Pass(s, w.q[k])]]
           Is(f) == f = [k \in 0..n |-> IF k = 0 THEN base ELSE Pass(f[k - 1], w.q[k])]
<1>1. n \in Nat /\ \A k \in 1..n : w.q[k] \in Entries
  BY LenProperties, ElementOfSeq
<1>2. base \in Good
  BY EmptyQueue DEF Working
<1>3. \A k \in 1..n : \A s \in Good : Pass(s, w.q[k]) \in Good
  BY <1>1, PassAccounts
<1>4. step \in Steps(n, Good)
  <2> HIDE DEF Good, n
  <2>1. QED
    BY <1>3 DEF Steps
<1>5. PICK f : Follows(f, n, Good, base, step)
  <2> HIDE DEF step, Good, base, n, Is
  <2>1. QED
    BY <1>1, <1>2, <1>4, Recursion
<1>6. ASSUME NEW k \in 1..n
      PROVE  f[k] = Pass(f[k - 1], w.q[k])
  <2>1. f[k - 1] \in Good /\ f[k] = step[k][f[k - 1]]
    <3>1. k - 1 \in 0..n
      BY <1>1
    <3> HIDE DEF step, Good, base, n
    <3>2. QED
      BY <1>5, <3>1 DEF Follows
  <2>2. \A s \in Good : step[k][s] = Pass(s, w.q[k])
    <3> HIDE DEF Good, n
    <3>1. QED
      OBVIOUS
  <2>3. QED
    BY <2>1, <2>2
<1>7. Is(f)
  <2> HIDE DEF step, Good, base, n
  <2>1. \A k \in 0..n : f[k] = IF k = 0 THEN base ELSE Pass(f[k - 1], w.q[k])
    BY <1>1, <1>5, <1>6 DEF Follows
  <2>2. f = [k \in 0..n |-> f[k]]
    BY <1>5 DEF Follows
  <2>3. QED
    BY <2>1, <2>2
<1>8. Is(Passes(w, bytes))
  <2>1. Passes(w, bytes) = CHOOSE g : Is(g)
    BY DEF Passes
  <2> HIDE DEF Is
  <2>2. QED
    BY <1>7, <2>1
<1>9. \A k \in 0..n : Passes(w, bytes)[k] =
          IF k = 0 THEN base ELSE Pass(Passes(w, bytes)[k - 1], w.q[k])
  <2> HIDE DEF base, n
  <2>1. QED
    BY <1>8
<1>10. QED
  BY <1>1, <1>9

(* consume of bytes that are in the queue takes them from it, exactly, and *)
(* keeps the count of what is queued.                                      *)
LEMMA ConsumedSpec ==
    ASSUME NEW w, w.q \in Seq(Entries), w.buffered \in Int, NEW bytes \in 0..Unsent(w.q)
    PROVE  /\ Consumed(w, bytes).q \in Seq(Entries)
           /\ Unsent(Consumed(w, bytes).q) = Unsent(w.q) - bytes
           /\ Consumed(w, bytes).buffered \in Int
           /\ Consumed(w, bytes).buffered <= w.buffered
           /\ Queued(Consumed(w, bytes).q) - Consumed(w, bytes).buffered
                = Queued(w.q) - w.buffered
<1> DEFINE n == Len(w.q)
           P(k) == Passes(w, bytes)[k]
           Held(k) ==
               /\ P(k) \in Working /\ (P(k).left > 0 => P(k).q = <<>>)
               /\ Unsent(P(k).q) + bytes = Sums(Rests(w.q))[k] + P(k).left
               /\ Queued(P(k).q) - P(k).buffered = Sums(Lens(w.q))[k] - w.buffered
               /\ P(k).buffered <= w.buffered
           T == {k \in Nat : k <= n => Held(k)}
<1>1. n \in Nat /\ \A k \in 1..n : w.q[k] \in Entries
  BY LenProperties, ElementOfSeq
<1>2. Unsent(w.q) \in Nat /\ Queued(w.q) \in Nat /\ bytes \in Nat
  BY QueueCounts
<1>3. /\ Rests(w.q) \in Seq(Nat) /\ Len(Rests(w.q)) = n
      /\ Lens(w.q) \in Seq(Nat) /\ Len(Lens(w.q)) = n
  BY CountsOfQueue
<1>4. /\ Sums(Rests(w.q))[0] = 0 /\ Sums(Lens(w.q))[0] = 0
      /\ \A k \in 0..n : Sums(Rests(w.q))[k] \in Nat /\ Sums(Lens(w.q))[k] \in Nat
      /\ \A k \in 1..n : /\ Sums(Rests(w.q))[k] = Sums(Rests(w.q))[k - 1] + Rests(w.q)[k]
                         /\ Sums(Lens(w.q))[k] = Sums(Lens(w.q))[k - 1] + Lens(w.q)[k]
  BY <1>3, SumsDef
<1>a. \A k \in 1..n : P(k) = Pass(P(k - 1), w.q[k])
  BY <1>2, PassesDef
<1>5. Held(0)
  <2>1. P(0) = [left |-> bytes, q |-> <<>>, buffered |-> w.buffered]
    BY <1>2, PassesDef
  <2>2. P(0) \in Working
    BY <1>2, <2>1, EmptyQueue DEF Working
  <2>3. QED
    BY <1>2, <1>4, <2>1, <2>2, EmptyQueue
<1>6. ASSUME NEW k \in Nat, k + 1 <= n, Held(k)
      PROVE  Held(k + 1)
  <2> DEFINE e == w.q[k + 1]
  <2>1. k \in 0..n /\ k + 1 \in 1..n /\ (k + 1) - 1 = k /\ e \in Entries
    BY <1>1, <1>6
  <2>2. P(k + 1) = Pass(P(k), e)
    BY <1>a, <2>1
  <2>3. /\ P(k + 1) \in Working
        /\ P(k + 1).left > 0 => P(k + 1).q = <<>>
        /\ Unsent(P(k + 1).q) + P(k).left
             = Unsent(P(k).q) + (e.len - e.offset) + P(k + 1).left
        /\ Queued(P(k + 1).q) - P(k + 1).buffered
             = Queued(P(k).q) + e.len - P(k).buffered
        /\ P(k + 1).buffered <= P(k).buffered
    <3>1. P(k) \in Working /\ (P(k).left > 0 => P(k).q = <<>>)
      BY <1>6
    <3> HIDE DEF P, e
    <3>2. QED
      BY <2>1, <2>2, <3>1, PassAccounts
  <2>4. /\ Sums(Rests(w.q))[k + 1] = Sums(Rests(w.q))[k] + (e.len - e.offset)
        /\ Sums(Lens(w.q))[k + 1] = Sums(Lens(w.q))[k] + e.len
    BY <1>4, <2>1, CountsOfQueue
  <2>5. /\ P(k).left \in Nat /\ P(k).buffered \in Int /\ P(k).q \in Seq(Entries)
        /\ P(k + 1).left \in Nat /\ P(k + 1).buffered \in Int
        /\ P(k + 1).q \in Seq(Entries)
    BY <1>6, <2>3 DEF Working
  <2>6. /\ Unsent(P(k).q) \in Nat /\ Queued(P(k).q) \in Nat
        /\ Unsent(P(k + 1).q) \in Nat /\ Queued(P(k + 1).q) \in Nat
    BY <2>5, QueueCounts
  <2>7. e.len \in Nat /\ e.offset \in Nat
    BY <2>1, EntryFacts
  <2>8. Sums(Rests(w.q))[k] \in Nat /\ Sums(Lens(w.q))[k] \in Nat
    BY <1>4, <2>1
  <2>a. /\ Unsent(P(k).q) + bytes = Sums(Rests(w.q))[k] + P(k).left
        /\ Queued(P(k).q) - P(k).buffered = Sums(Lens(w.q))[k] - w.buffered
        /\ P(k).buffered <= w.buffered
    BY <1>6
  <2>b. Held(k + 1) <=>
            /\ P(k + 1) \in Working /\ (P(k + 1).left > 0 => P(k + 1).q = <<>>)
            /\ Unsent(P(k + 1).q) + bytes = Sums(Rests(w.q))[k + 1] + P(k + 1).left
            /\ Queued(P(k + 1).q) - P(k + 1).buffered = Sums(Lens(w.q))[k + 1] - w.buffered
            /\ P(k + 1).buffered <= w.buffered
    OBVIOUS
  <2> DEFINE d == e.len - e.offset
  <2>c. d \in Int
    BY <2>7
  <2> DEFINE a0 == Unsent(P(k).q)      a1 == Unsent(P(k + 1).q)
             l0 == P(k).left           l1 == P(k + 1).left
             r0 == Sums(Rests(w.q))[k] r1 == Sums(Rests(w.q))[k + 1]
             q0 == Queued(P(k).q)      q1 == Queued(P(k + 1).q)
             b0 == P(k).buffered       b1 == P(k + 1).buffered
             t0 == Sums(Lens(w.q))[k]  t1 == Sums(Lens(w.q))[k + 1]
             x == e.len                y == w.buffered
  <2>d. a1 + bytes = r1 + l1
    <3>1. a1 + l0 = a0 + d + l1 /\ r1 = r0 + d /\ a0 + bytes = r0 + l0
      BY <2>3, <2>4, <2>a
    <3>2. a0 \in Int /\ a1 \in Int /\ l0 \in Int /\ l1 \in Int /\ r0 \in Int
      BY <2>5, <2>6, <2>8
    <3> HIDE DEF a0, a1, l0, l1, r0, r1, d
    <3>3. QED
      BY <1>2, <2>c, <3>1, <3>2
  <2>e. q1 - b1 = t1 - y
    <3>1. q1 - b1 = q0 + x - b0 /\ t1 = t0 + x /\ q0 - b0 = t0 - y
      BY <2>3, <2>4, <2>a
    <3>2. q0 \in Int /\ q1 \in Int /\ b0 \in Int /\ b1 \in Int /\ t0 \in Int
          /\ x \in Int /\ y \in Int
      BY <2>5, <2>6, <2>7, <2>8
    <3> HIDE DEF q0, q1, b0, b1, t0, t1, x, y
    <3>3. QED
      BY <3>1, <3>2
  <2>f. P(k + 1).buffered <= w.buffered
    BY <2>3, <2>5, <2>a
  <2> HIDE DEF P, Held
  <2>9. QED
    BY <2>3, <2>b, <2>d, <2>e, <2>f
<1>7. Held(n)
  <2> HIDE DEF Held
  <2>1. 0 \in T
    BY <1>5
  <2>2. \A k \in Nat : k \in T => k + 1 \in T
    BY <1>1, <1>6
  <2> HIDE DEF T
  <2>3. \A k \in Nat : k \in T
    BY <2>1, <2>2, Induction
  <2>4. QED
    BY <1>1, <2>3 DEF T
<1>8. Consumed(w, bytes) = P(n)
  BY DEF Consumed
<1>9. Sums(Rests(w.q))[n] = Unsent(w.q) /\ Sums(Lens(w.q))[n] = Queued(w.q)
  BY <1>3 DEF Unsent, Queued, Total, Rests, Lens
<1>10. P(n).left \in Nat /\ P(n).buffered \in Int /\ P(n).q \in Seq(Entries)
  BY <1>7 DEF Working
<1>11. Unsent(P(n).q) \in Nat /\ Queued(P(n).q) \in Nat
  BY <1>10, QueueCounts
<1>12. P(n).left = 0
  BY <1>2, <1>7, <1>9, <1>10, <1>11, EmptyQueue
<1> HIDE DEF P
<1>13. QED
  BY <1>2, <1>7, <1>8, <1>9, <1>10, <1>11, <1>12

(* Nothing comes of consuming from an empty queue.                         *)
LEMMA ConsumedEmpty ==
    ASSUME NEW w, w.q = <<>>, w.buffered \in Int, NEW bytes \in Nat
    PROVE  Consumed(w, bytes).q = <<>> /\ Consumed(w, bytes).buffered = w.buffered
<1>1. w.q \in Seq(Entries) /\ Len(w.q) = 0
  BY EmptySeq
<1>2. Passes(w, bytes)[0] = [left |-> bytes, q |-> <<>>, buffered |-> w.buffered]
  BY <1>1, PassesDef
<1>3. QED
  BY <1>1, <1>2 DEF Consumed

-------------------------------------------------------------------------------
(* Pins.  What luaref's operations do to a table comes from the lemmas of  *)
(* LuaRefProofs.                                                           *)

L == INSTANCE LuaRefProofs WITH
         Value <- Values, tbl <- refs, given <- -2, peak <- 0

LEMMA LimitFacts == NIL \in Values /\ MaxStack \in Nat /\ MaxStack > 0
BY MaxStackIsPositive DEF Values

(* The instance of the proofs defines the operations as the binding does.  *)
LEMMA Same ==
    ASSUME NEW t, NEW r, NEW v
    PROVE  /\ R!RefSlots(t) = L!RefSlots(t) /\ R!Live(t) = L!Live(t)
           /\ R!AfterRef(t, r, v) = L!AfterRef(t, r, v)
           /\ R!AfterUnref(t, r) = L!AfterUnref(t, r)
           /\ R!EmptyTable = L!EmptyTable
<1>1. R!ShrunkTop(t) = L!ShrunkTop(t)
  BY DEF R!ShrunkTop, L!ShrunkTop, R!FREELIST, L!FREELIST
<1>2. QED
  BY <1>1 DEF R!RefSlots, L!RefSlots, R!Live, L!Live, R!AfterRef, L!AfterRef,
     R!AfterUnref, L!AfterUnref, R!EmptyTable, L!EmptyTable,
     R!FREELIST, L!FREELIST, R!AfterFree, L!AfterFree, R!AfterShrink, L!AfterShrink

(* A table in order that the stack has room for.                           *)
TableFits(t) == L!TableOK(t) /\ t.top <= MaxStack

LEMMA LiveFits ==
    ASSUME NEW t, TableFits(t)
    PROVE  R!Live(t) \subseteq 2..MaxStack /\ t.top \in Nat
BY LimitFacts DEF TableFits, L!TableOK, R!Live

(* What luaref_ref returns.                                                *)
RefOrNot == {NOREF} \cup 2..MaxStack

LEMMA NoRefFacts ==
    /\ NOREF \in Int /\ NOREF # 0 /\ 0 \notin 2..MaxStack /\ NOREF \notin 2..MaxStack
    /\ \A r \in RefOrNot : r \in Int /\ r # 0
BY LimitFacts DEF NOREF, RefOrNot

(* The table t2 holds v under the new reference r, and what t held before; *)
(* it is t when there is no reference.                                     *)
Adds(t, r, v, t2) ==
    /\ r \in RefOrNot /\ r \notin R!Live(t)
    /\ R!Live(t2) = R!Live(t) \cup ({r} \ {NOREF})
    /\ r # NOREF => t2.slot[r] = v
    /\ \A x \in R!Live(t) : t2.slot[x] = t.slot[x]

LEMMA RefFits ==
    ASSUME NEW t, TableFits(t), NEW v \in Values, NEW r \in R!RefSlots(t), R!CanRef(t)
    PROVE  TableFits(R!AfterRef(t, r, v)) /\ Adds(t, r, v, R!AfterRef(t, r, v))
<1>1. r \in L!RefSlots(t)
  BY Same
<1>2. /\ L!TableOK(L!AfterRef(t, r, v))
      /\ L!AfterRef(t, r, v).top = IF t.free = {} THEN t.top + 1 ELSE t.top
      /\ r \notin L!Live(t)
      /\ L!Live(L!AfterRef(t, r, v)) = L!Live(t) \cup {r}
      /\ L!AfterRef(t, r, v).slot[r] = v
      /\ \A x \in L!Live(t) : L!AfterRef(t, r, v).slot[x] = t.slot[x]
  BY <1>1, L!AfterRefOK, LimitFacts DEF TableFits
<1>3. t.top \in Nat /\ t.top + 3 <= MaxStack
  BY LiveFits DEF R!CanRef
<1>4. TableFits(R!AfterRef(t, r, v))
  BY <1>2, <1>3, Same, LimitFacts DEF TableFits
<1>5. r \in R!Live(R!AfterRef(t, r, v))
  BY <1>2, Same
<1>6. r \in 2..MaxStack
  BY <1>4, <1>5, LiveFits
<1>7. r \in RefOrNot /\ {r} \ {NOREF} = {r}
  BY <1>6, NoRefFacts DEF RefOrNot
<1>8. QED
  BY <1>2, <1>4, <1>7, Same DEF Adds

(* luaref_ref, with room on the stack or without.                          *)
LEMMA LuarefRefFits ==
    ASSUME NEW t, TableFits(t), NEW v \in Values, NEW x \in luaref_ref(t, v)
    PROVE  TableFits(x.tbl) /\ Adds(t, x.ref, v, x.tbl)
<1>1. CASE R!CanRef(t)
  <2>1. PICK r \in R!RefSlots(t) : x = [ref |-> r, tbl |-> R!AfterRef(t, r, v)]
    BY <1>1 DEF luaref_ref
  <2>2. QED
    BY <1>1, <2>1, RefFits
<1>2. CASE ~R!CanRef(t)
  <2>1. x = [ref |-> NOREF, tbl |-> t]
    BY <1>2 DEF luaref_ref
  <2>2. x.ref = NOREF /\ x.tbl = t
    BY <2>1
  <2>3. NOREF \in RefOrNot /\ NOREF \notin R!Live(t)
    BY NoRefFacts, LiveFits DEF RefOrNot
  <2>4. QED
    BY <2>2, <2>3 DEF Adds
<1>3. QED
  BY <1>1, <1>2

LEMMA UnrefFits ==
    ASSUME NEW t, TableFits(t), NEW r \in Int
    PROVE  /\ TableFits(R!AfterUnref(t, r))
           /\ R!Live(R!AfterUnref(t, r)) = R!Live(t) \ {r}
           /\ \A x \in R!Live(t) \ {r} : R!AfterUnref(t, r).slot[x] = t.slot[x]
<1>1. /\ L!TableOK(L!AfterUnref(t, r))
      /\ L!AfterUnref(t, r).top <= t.top
      /\ L!Live(L!AfterUnref(t, r)) = L!Live(t) \ {r}
      /\ \A x \in L!Live(t) \ {r} : L!AfterUnref(t, r).slot[x] = t.slot[x]
  BY L!AfterUnrefOK, LimitFacts DEF TableFits
<1>2. L!AfterUnref(t, r).top \in Nat /\ t.top \in Nat
  BY <1>1, LiveFits DEF L!TableOK
<1>3. L!AfterUnref(t, r).top <= MaxStack
  BY <1>1, <1>2, LimitFacts DEF TableFits
<1>4. QED
  BY <1>1, <1>3, Same DEF TableFits

(* An id: 0 for no buffer, or what luaref_ref gave for it, and what it     *)
(* gave for the udata.                                                     *)
Pair == ({0} \cup RefOrNot) \X RefOrNot

LEMMA PairFacts ==
    ASSUME NEW id \in Pair
    PROVE  /\ id[1] \in {0} \cup RefOrNot /\ id[2] \in RefOrNot
           /\ id[1] \in Int /\ id[2] \in Int
           /\ id[2] # NOREF => id[2] \in References(id)
           /\ id[1] \notin {0, NOREF} => id[1] \in References(id)
           /\ \A x \in References(id) : x = id[1] \/ x = id[2]
           /\ References(id) \subseteq 2..MaxStack
BY NoRefFacts DEF Pair, References, RefOrNot

LEMMA PairsAreIds == Pair \subseteq Id
BY IdsArePairs DEF Pair, RefOrNot

(* What the table t2 has over refs: the pins of id, and nothing else.      *)
Pinned(p, buf, tok) ==
    /\ TableFits(p.tbl) /\ p.id \in Pair
    /\ References(p.id) \cap R!Live(refs) = {}
    /\ R!Live(p.tbl) = R!Live(refs) \cup References(p.id)
    /\ p.id[2] # NOREF => p.tbl.slot[p.id[2]] = tok
    /\ p.id[1] \notin {0, NOREF} => p.tbl.slot[p.id[1]] = buf
    /\ \A x \in R!Live(refs) : p.tbl.slot[x] = refs.slot[x]

LEMMA PinFacts ==
    ASSUME TableFits(refs), NEW buf \in Values, NEW tok \in Values, NEW p \in Pin(buf, tok)
    PROVE  Pinned(p, buf, tok) /\ p.id[1] # 0
<1>1. PICK b \in luaref_ref(refs, buf) :
          p \in {[id |-> <<b.ref, u.ref>>, tbl |-> u.tbl] : u \in luaref_ref(b.tbl, tok)}
  BY DEF Pin
<1>2. PICK u \in luaref_ref(b.tbl, tok) : p = [id |-> <<b.ref, u.ref>>, tbl |-> u.tbl]
  BY <1>1
<1>3. TableFits(b.tbl) /\ Adds(refs, b.ref, buf, b.tbl)
  BY LuarefRefFits
<1>4. TableFits(u.tbl) /\ Adds(b.tbl, u.ref, tok, u.tbl)
  BY <1>3, LuarefRefFits
<1>5. p.id = <<b.ref, u.ref>> /\ p.id[1] = b.ref /\ p.id[2] = u.ref /\ p.tbl = u.tbl
  BY <1>2
<1>6. b.ref \in RefOrNot /\ u.ref \in RefOrNot /\ b.ref # 0 /\ u.ref # 0
  BY <1>3, <1>4, NoRefFacts DEF Adds
<1>7. p.id \in Pair
  BY <1>5, <1>6 DEF Pair
<1>8. References(p.id) = {b.ref, u.ref} \ {NOREF}
  BY <1>5, <1>6 DEF References
<1>9. /\ R!Live(p.tbl) = R!Live(refs) \cup References(p.id)
      /\ References(p.id) \cap R!Live(refs) = {}
  BY <1>3, <1>4, <1>5, <1>8 DEF Adds
<1>10. p.id[2] # NOREF => p.tbl.slot[p.id[2]] = tok
  BY <1>4, <1>5 DEF Adds
<1>11. p.id[1] \notin {0, NOREF} => p.tbl.slot[p.id[1]] = buf
  BY <1>3, <1>4, <1>5 DEF Adds
<1>12. \A x \in R!Live(refs) : p.tbl.slot[x] = refs.slot[x]
  BY <1>3, <1>4, <1>5 DEF Adds
<1>13. QED
  BY <1>4, <1>5, <1>6, <1>7, <1>9, <1>10, <1>11, <1>12 DEF Pinned

LEMMA PinUdataFacts ==
    ASSUME TableFits(refs), NEW tok \in Values, NEW p \in PinUdata(tok), NEW buf
    PROVE  Pinned(p, buf, tok)
<1>1. PICK u \in luaref_ref(refs, tok) : p = [id |-> <<0, u.ref>>, tbl |-> u.tbl]
  BY DEF PinUdata
<1>2. TableFits(u.tbl) /\ Adds(refs, u.ref, tok, u.tbl)
  BY LuarefRefFits
<1>3. p.id = <<0, u.ref>> /\ p.id[1] = 0 /\ p.id[2] = u.ref /\ p.tbl = u.tbl
  BY <1>1
<1>4. u.ref \in RefOrNot /\ u.ref # 0
  BY <1>2, NoRefFacts DEF Adds
<1>5. p.id \in Pair
  BY <1>3, <1>4 DEF Pair
<1>6. References(p.id) = {u.ref} \ {NOREF}
  BY <1>3, <1>4 DEF References
<1>7. QED
  BY <1>2, <1>3, <1>5, <1>6 DEF Pinned, Adds

LEMMA ReleaseFacts ==
    ASSUME NEW t, TableFits(t), NEW id \in Pair
    PROVE  /\ TableFits(PinRelease(t, id))
           /\ R!Live(PinRelease(t, id)) = R!Live(t) \ References(id)
           /\ \A x \in R!Live(t) \ References(id) : PinRelease(t, id).slot[x] = t.slot[x]
<1> DEFINE t1 == R!AfterUnref(t, id[1])
<1>0. /\ id[1] \in Int /\ id[2] \in Int
      /\ 0 \notin R!Live(t) /\ NOREF \notin R!Live(t)
  BY PairFacts, LiveFits, NoRefFacts
<1>1. /\ TableFits(t1) /\ R!Live(t1) = R!Live(t) \ {id[1]}
      /\ \A x \in R!Live(t) \ {id[1]} : t1.slot[x] = t.slot[x]
  BY <1>0, UnrefFits
<1> HIDE DEF t1
<1>2. /\ TableFits(R!AfterUnref(t1, id[2]))
      /\ R!Live(R!AfterUnref(t1, id[2])) = R!Live(t1) \ {id[2]}
      /\ \A x \in R!Live(t1) \ {id[2]} : R!AfterUnref(t1, id[2]).slot[x] = t1.slot[x]
  BY <1>0, <1>1, UnrefFits
<1>3. PinRelease(t, id) = R!AfterUnref(t1, id[2])
  BY DEF PinRelease, t1
<1>4. R!Live(t) \ References(id) = R!Live(t1) \ {id[2]}
  BY <1>0, <1>1 DEF References
<1>5. QED
  BY <1>1, <1>2, <1>3, <1>4

-------------------------------------------------------------------------------
(* The books of the binding: the table and what each id stands for.        *)
PinsKept ==
    /\ TableFits(refs)
    /\ DOMAIN asked = Outstanding
    /\ Outstanding \subseteq Pair
    /\ PinsHeld /\ PinsAccounted
    /\ \A id \in Outstanding : leaked \cap References(id) = {}

(* A step that reports nobody: what it drops stays pinned.                 *)
LEMMA DropsKeepPins ==
    ASSUME PinsKept, UNCHANGED refs, Outstanding' \subseteq Outstanding,
           DOMAIN asked' = Outstanding',
           \A id \in Outstanding' : /\ asked'[id].buf = asked[id].buf
                                    /\ asked'[id].tok = asked[id].tok,
           leaked' = leaked \cup UNION {References(id) : id \in Outstanding \ Outstanding'}
    PROVE  PinsKept'
<1>1. TableFits(refs') /\ Outstanding' \subseteq Pair
  BY DEF PinsKept
<1>2. PinsHeld'
  <2>1. ASSUME NEW id \in Outstanding'
        PROVE  /\ References(id) \subseteq R!Live(refs')
               /\ id[2] # NOREF => refs'.slot[id[2]] = asked'[id].tok
               /\ id[1] \notin {0, NOREF} => refs'.slot[id[1]] = asked'[id].buf
    BY <2>1 DEF PinsKept, PinsHeld
  <2>2. \A id, other \in Outstanding' : id # other => References(id) \cap References(other) = {}
    BY DEF PinsKept, PinsHeld
  <2>3. QED
    BY <2>1, <2>2 DEF PinsHeld
<1>3. PinsAccounted'
  <2>1. R!Live(refs') = leaked \cup UNION {References(id) : id \in Outstanding}
    BY DEF PinsKept, PinsAccounted
  <2>2. UNION {References(id) : id \in Outstanding} =
            (UNION {References(id) : id \in Outstanding'})
            \cup UNION {References(id) : id \in Outstanding \ Outstanding'}
    OBVIOUS
  <2>3. QED
    BY <2>1, <2>2 DEF PinsAccounted
<1>4. \A id \in Outstanding' : leaked' \cap References(id) = {}
  <2>1. ASSUME NEW id \in Outstanding', NEW x \in leaked', x \in References(id)
        PROVE  FALSE
    <3>1. x \notin leaked
      BY <2>1 DEF PinsKept
    <3>2. PICK other \in Outstanding \ Outstanding' : x \in References(other)
      BY <2>1, <3>1
    <3>3. other # id
      BY <3>2
    <3>4. QED
      BY <2>1, <3>2, <3>3 DEF PinsKept, PinsHeld
  <2>2. QED
    BY <2>1
<1>5. QED
  BY <1>1, <1>2, <1>3, <1>4 DEF PinsKept

(* The references of what is outstanding are in use, so new ones are of a  *)
(* new id; one without a reference is new since there is no other.         *)
LEMMA PinnedIsNew ==
    ASSUME PinsKept, NEW p, NEW buf, NEW tok, Pinned(p, buf, tok), OneUnpinned(p.id)
    PROVE  /\ p.id \notin Outstanding
           /\ \A id \in Outstanding : References(id) \cap References(p.id) = {}
           /\ leaked \cap References(p.id) = {}
<1>1. \A id \in Outstanding : References(id) \subseteq R!Live(refs)
  BY DEF PinsKept, PinsHeld
<1>2. p.id[2] # NOREF => p.id[2] \in References(p.id)
  BY PairFacts DEF Pinned
<1>3. References(p.id) \cap R!Live(refs) = {}
  BY DEF Pinned
<1>4. leaked \subseteq R!Live(refs)
  BY DEF PinsKept, PinsAccounted
<1>5. p.id[2] = NOREF => p.id \notin Outstanding
  BY DEF OneUnpinned, Unpinned
<1>6. QED
  BY <1>1, <1>2, <1>3, <1>4, <1>5

(* A submission that is accepted keeps its pins.                           *)
LEMMA AcceptKeepsPins ==
    ASSUME PinsKept, NEW p, NEW info, Pinned(p, info.buf, info.tok), Accepted(p, info),
           Outstanding' = Outstanding \cup {p.id}, UNCHANGED leaked
    PROVE  PinsKept'
<1>1. /\ p.id \notin Outstanding
      /\ \A id \in Outstanding : References(id) \cap References(p.id) = {}
      /\ leaked \cap References(p.id) = {}
  BY PinnedIsNew DEF Accepted
<1>2. /\ refs' = p.tbl /\ DOMAIN asked' = Outstanding' /\ asked'[p.id] = info
      /\ \A id \in Outstanding : asked'[id] = asked[id]
  BY <1>1 DEF Accepted
<1>3. /\ TableFits(p.tbl) /\ p.id \in Pair
      /\ R!Live(p.tbl) = R!Live(refs) \cup References(p.id)
      /\ p.id[2] # NOREF => p.tbl.slot[p.id[2]] = info.tok
      /\ p.id[1] \notin {0, NOREF} => p.tbl.slot[p.id[1]] = info.buf
      /\ \A x \in R!Live(refs) : p.tbl.slot[x] = refs.slot[x]
  BY DEF Pinned
<1>4. PinsHeld'
  <2>1. ASSUME NEW id \in Outstanding
        PROVE  /\ References(id) \subseteq R!Live(refs')
               /\ id[2] # NOREF => refs'.slot[id[2]] = asked'[id].tok
               /\ id[1] \notin {0, NOREF} => refs'.slot[id[1]] = asked'[id].buf
    <3>1. /\ References(id) \subseteq R!Live(refs)
          /\ id[2] # NOREF => refs.slot[id[2]] = asked[id].tok
          /\ id[1] \notin {0, NOREF} => refs.slot[id[1]] = asked[id].buf
      BY DEF PinsKept, PinsHeld
    <3>2. /\ id[2] # NOREF => id[2] \in References(id)
          /\ id[1] \notin {0, NOREF} => id[1] \in References(id)
      BY PairFacts DEF PinsKept
    <3>3. QED
      BY <1>2, <1>3, <3>1, <3>2
  <2>2. \A id, other \in Outstanding' : id # other => References(id) \cap References(other) = {}
    BY <1>1 DEF PinsKept, PinsHeld
  <2>3. QED
    BY <1>2, <1>3, <2>1, <2>2 DEF PinsHeld
<1>5. PinsAccounted'
  BY <1>2, <1>3 DEF PinsKept, PinsAccounted
<1>6. TableFits(refs') /\ Outstanding' \subseteq Pair
  BY <1>2, <1>3 DEF PinsKept
<1>7. \A id \in Outstanding' : leaked' \cap References(id) = {}
  BY <1>1 DEF PinsKept
<1>8. QED
  BY <1>2, <1>4, <1>5, <1>6, <1>7 DEF PinsKept

(* One that is refused leaves the table as it was, for all who look.       *)
LEMMA RefusalKeepsPins ==
    ASSUME PinsKept, NEW p, NEW buf, NEW tok, Pinned(p, buf, tok), Refused(p),
           Outstanding' = Outstanding, UNCHANGED leaked
    PROVE  PinsKept'
<1>1. /\ refs' = PinRelease(p.tbl, p.id) /\ asked' = asked
  BY DEF Refused
<1>2. /\ TableFits(p.tbl) /\ p.id \in Pair
      /\ References(p.id) \cap R!Live(refs) = {}
      /\ R!Live(p.tbl) = R!Live(refs) \cup References(p.id)
      /\ \A x \in R!Live(refs) : p.tbl.slot[x] = refs.slot[x]
  BY DEF Pinned
<1>3. /\ TableFits(refs') /\ R!Live(refs') = R!Live(p.tbl) \ References(p.id)
      /\ \A x \in R!Live(p.tbl) \ References(p.id) : refs'.slot[x] = p.tbl.slot[x]
  BY <1>1, <1>2, ReleaseFacts
<1>4. R!Live(refs') = R!Live(refs) /\ \A x \in R!Live(refs) : refs'.slot[x] = refs.slot[x]
  BY <1>2, <1>3
<1>5. PinsHeld'
  <2>1. ASSUME NEW id \in Outstanding
        PROVE  /\ References(id) \subseteq R!Live(refs')
               /\ id[2] # NOREF => refs'.slot[id[2]] = asked'[id].tok
               /\ id[1] \notin {0, NOREF} => refs'.slot[id[1]] = asked'[id].buf
    <3>1. /\ References(id) \subseteq R!Live(refs)
          /\ id[2] # NOREF => refs.slot[id[2]] = asked[id].tok
          /\ id[1] \notin {0, NOREF} => refs.slot[id[1]] = asked[id].buf
      BY DEF PinsKept, PinsHeld
    <3>2. /\ id[2] # NOREF => id[2] \in References(id)
          /\ id[1] \notin {0, NOREF} => id[1] \in References(id)
      BY PairFacts DEF PinsKept
    <3>3. QED
      BY <1>1, <1>4, <3>1, <3>2
  <2>2. QED
    BY <2>1 DEF PinsHeld, PinsKept
<1>6. PinsAccounted'
  BY <1>4 DEF PinsKept, PinsAccounted
<1>7. QED
  BY <1>1, <1>3, <1>5, <1>6 DEF PinsKept

(* A report ends the pins of its request and of no other.                  *)
LEMMA EmitKeepsPins ==
    ASSUME PinsKept, NEW c, c.id \in Outstanding, Emit(c),
           Outstanding' = Outstanding \ {c.id}, UNCHANGED leaked
    PROVE  PinsKept'
<1>1. /\ refs' = PinRelease(refs, c.id) /\ DOMAIN asked' = Outstanding'
      /\ \A id \in Outstanding' : asked'[id] = asked[id]
  BY DEF Emit, PinsKept
<1>2. /\ TableFits(refs') /\ R!Live(refs') = R!Live(refs) \ References(c.id)
      /\ \A x \in R!Live(refs) \ References(c.id) : refs'.slot[x] = refs.slot[x]
  BY <1>1, ReleaseFacts DEF PinsKept
<1>3. \A id \in Outstanding' : References(id) \cap References(c.id) = {}
  BY DEF PinsKept, PinsHeld
<1>4. PinsHeld'
  <2>1. ASSUME NEW id \in Outstanding'
        PROVE  /\ References(id) \subseteq R!Live(refs')
               /\ id[2] # NOREF => refs'.slot[id[2]] = asked'[id].tok
               /\ id[1] \notin {0, NOREF} => refs'.slot[id[1]] = asked'[id].buf
    <3>1. /\ References(id) \subseteq R!Live(refs)
          /\ id[2] # NOREF => refs.slot[id[2]] = asked[id].tok
          /\ id[1] \notin {0, NOREF} => refs.slot[id[1]] = asked[id].buf
      BY DEF PinsKept, PinsHeld
    <3>2. /\ id[2] # NOREF => id[2] \in References(id)
          /\ id[1] \notin {0, NOREF} => id[1] \in References(id)
      BY PairFacts DEF PinsKept
    <3>3. References(id) \subseteq R!Live(refs) \ References(c.id)
      BY <1>3, <3>1
    <3>4. QED
      BY <1>1, <1>2, <3>1, <3>2, <3>3
  <2>2. \A id, other \in Outstanding' : id # other => References(id) \cap References(other) = {}
    BY DEF PinsKept, PinsHeld
  <2>3. QED
    BY <2>1, <2>2 DEF PinsHeld
<1>5. PinsAccounted'
  <2>1. R!Live(refs) = leaked \cup UNION {References(id) : id \in Outstanding}
    BY DEF PinsKept, PinsAccounted
  <2>2. leaked \cap References(c.id) = {}
    BY DEF PinsKept
  <2>3. (UNION {References(id) : id \in Outstanding}) \ References(c.id)
            = UNION {References(id) : id \in Outstanding'}
    BY <1>3
  <2>4. QED
    BY <1>2, <2>1, <2>2, <2>3 DEF PinsAccounted
<1>6. QED
  BY <1>1, <1>2, <1>4, <1>5 DEF PinsKept

-------------------------------------------------------------------------------
(* Where a request is: in a slot, in the queue, or in the script's span.   *)
Handed == {out[i] : i \in DOMAIN out}
Items == (UNION {Ops(fd) : fd \in Fd}) \cup {sync[i] : i \in DOMAIN sync} \cup Handed

(* Every id is in one place.                                               *)
OutOnce == \A i, j \in DOMAIN out : out[i].id = out[j].id => i = j
OutApart == \A c \in Handed : c.id \notin Pending
IdsApart == Distinct /\ OutOnce /\ OutApart

LEMMA ItemIs ==
    ASSUME NEW x
    PROVE  x \in Items <=> \/ \E fd \in Fd, d \in Dir : /\ state[fd].op[d] # NoOp
                                                        /\ x = state[fd].op[d]
                           \/ \E i \in DOMAIN sync : x = sync[i]
                           \/ x \in Handed
BY DEF Items, Ops, Mask

LEMMA OutstandingIs ==
    /\ Outstanding = {x.id : x \in Items}
    /\ Outstanding' = {x.id : x \in Items'}
<1>1. ASSUME NEW id
      PROVE  id \in Outstanding <=> \E x \in Items : id = x.id
  <2>1. id \in Ids(out) <=> \E c \in Handed : id = c.id
    BY DEF Ids, Handed
  <2>2. id \in Pending <=> \/ \E fd \in Fd, d \in Dir : /\ state[fd].op[d] # NoOp
                                                       /\ id = state[fd].op[d].id
                           \/ \E i \in DOMAIN sync : id = sync[i].id
    BY PendingIs
  <2>3. QED
    BY <2>1, <2>2, ItemIs DEF Outstanding
<1>2. ASSUME NEW id
      PROVE  id \in Outstanding' <=> \E x \in Items' : id = x.id
  <2>1. id \in Ids(out)' <=> \E c \in Handed' : id = c.id
    BY DEF Ids, Handed
  <2>2. id \in Pending' <=> \/ \E fd \in Fd, d \in Dir : /\ state'[fd].op[d] # NoOp
                                                        /\ id = state'[fd].op[d].id
                            \/ \E i \in DOMAIN sync' : id = sync'[i].id
    BY DEF Pending, Ops, Mask, Ids
  <2>3. \A x : x \in Items' <=> \/ \E fd \in Fd, d \in Dir : /\ state'[fd].op[d] # NoOp
                                                             /\ x = state'[fd].op[d]
                                \/ \E i \in DOMAIN sync' : x = sync'[i]
                                \/ x \in Handed'
    BY DEF Items, Ops, Mask
  <2>4. QED
    BY <2>1, <2>2, <2>3 DEF Outstanding
<1>3. QED
  BY <1>1, <1>2

LEMMA SequenceFacts ==
    ASSUME TypeOK
    PROVE  /\ DOMAIN out = 1..Len(out) /\ Len(out) \in Nat
           /\ DOMAIN sync = 1..Len(sync) /\ Len(sync) \in Nat
           /\ \A i \in DOMAIN out : out[i] \in Completion
           /\ \A i \in DOMAIN sync : sync[i] \in Completion
<1>1. out \in Seq(Completion) /\ sync \in Seq(Completion)
  BY DEF TypeOK
<1>2. QED
  BY <1>1, LenProperties, ElementOfSeq

(* The items are what the ids say they are.                                *)
LEMMA ItemTypes ==
    ASSUME TypeOK, NEW x \in Items
    PROVE  x.id \in Id /\ x.kind \in Kind /\ x.id \in Outstanding
<1>1. ASSUME NEW fd \in Fd, NEW d \in Dir, state[fd].op[d] # NoOp
      PROVE  state[fd].op[d].id \in Id /\ state[fd].op[d].kind \in Kind
  <2>1. state[fd].op[d] \in Request
    BY <1>1 DEF TypeOK
  <2>2. QED
    BY <2>1 DEF Request
<1>2. \A i \in DOMAIN sync : sync[i].id \in Id /\ sync[i].kind \in Kind
  BY SequenceFacts DEF Completion
<1>3. \A c \in Handed : c.id \in Id /\ c.kind \in Kind
  BY SequenceFacts DEF Handed, Completion
<1>4. x.id \in Outstanding
  BY OutstandingIs
<1>5. QED
  BY <1>1, <1>2, <1>3, <1>4, ItemIs

(* A slot is named by its id.                                              *)
LEMMA OneSlot ==
    ASSUME IdsApart, NEW f \in Fd, NEW g \in Fd, NEW d \in Dir, NEW e \in Dir,
           state[f].op[d] # NoOp, state[g].op[e] # NoOp,
           state[f].op[d].id = state[g].op[e].id
    PROVE  f = g /\ d = e
BY DEF IdsApart, Distinct, SlotsDistinct

-------------------------------------------------------------------------------
(* What the steps of the backend do to the items.                          *)

LEMMA QuietItems ==
    ASSUME IdsApart, UNCHANGED <<state, sync, out>>
    PROVE  IdsApart' /\ Items' = Items /\ Outstanding' = Outstanding
<1>1. Distinct'
  BY DEF IdsApart, Distinct, SlotsDistinct, PlacesDistinct, SlotsApart
<1>2. OutOnce' /\ OutApart'
  BY DEF IdsApart, OutOnce, OutApart, Handed, Pending, Ops, Mask, Ids
<1>3. Items' = Items
  BY DEF Items, Handed, Ops, Mask
<1>4. QED
  BY <1>1, <1>2, <1>3, OutstandingIs DEF IdsApart

LEMMA SubmitItems ==
    ASSUME TypeOK, IdsApart, NEW fd \in Fd, NEW d \in Dir, NEW r \in Request,
           r.id \notin Outstanding, Submit(fd, d, r), UNCHANGED out
    PROVE  /\ IdsApart' /\ Items' = Items \cup {r}
           /\ Outstanding' = Outstanding \cup {r.id}
<1>0. r.id \notin Pending /\ r.id \notin Ids(out)
  BY DEF Outstanding
<1>1. Distinct'
  BY <1>0, SubmitDistinct DEF IdsApart
<1>2. /\ state[fd].op[d] = NoOp /\ r # NoOp /\ sync' = sync
      /\ \A f \in Fd, e \in Dir :
             state'[f].op[e] = IF f = fd /\ e = d THEN r ELSE state[f].op[e]
  BY SubmitSlots, ConstantFacts DEF Submit
<1>3. Handed' = Handed
  BY DEF Handed
<1>4. \A x : x \in Items' <=> x \in Items \/ x = r
  <2>1. ASSUME NEW x
        PROVE  x \in Items' <=> \/ \E f \in Fd, e \in Dir : /\ state'[f].op[e] # NoOp
                                                           /\ x = state'[f].op[e]
                                \/ \E i \in DOMAIN sync' : x = sync'[i]
                                \/ x \in Handed'
    BY DEF Items, Ops, Mask
  <2>2. QED
    BY <1>2, <1>3, <2>1, ItemIs
<1>5. Items' = Items \cup {r}
  BY <1>4
<1>6. OutOnce'
  BY DEF IdsApart, OutOnce
<1>7. OutApart'
  <2>1. \A id : id \in Pending' => id \in Pending \/ id = r.id
    <3>1. ASSUME NEW id
          PROVE  id \in Pending' <=> \/ \E f \in Fd, e \in Dir : /\ state'[f].op[e] # NoOp
                                                                /\ id = state'[f].op[e].id
                                     \/ \E i \in DOMAIN sync' : id = sync'[i].id
      BY DEF Pending, Ops, Mask, Ids
    <3>2. QED
      BY <1>2, <3>1, PendingIs
  <2>2. \A c \in Handed : c.id # r.id
    BY <1>0 DEF Ids, Handed
  <2>3. QED
    BY <1>3, <2>1, <2>2 DEF IdsApart, OutApart
<1>8. QED
  BY <1>1, <1>5, <1>6, <1>7, OutstandingIs DEF IdsApart

LEMMA QueueItems ==
    ASSUME TypeOK, IdsApart, NEW r \in Request, NEW status \in Status, NEW n \in 0..r.len,
           r.id \notin Outstanding, Queue(r, status, n), UNCHANGED out
    PROVE  /\ IdsApart' /\ Outstanding' = Outstanding \cup {r.id}
           /\ \A x \in Items' : x \in Items \/ (x.id = r.id /\ x.kind = r.kind)
           /\ \A i \in DOMAIN sync' : (i \in DOMAIN sync /\ sync'[i] = sync[i])
                                      \/ sync'[i].kind = r.kind
<1>0. r.id \notin Pending /\ r.id \notin Ids(out)
  BY DEF Outstanding
<1> DEFINE new == [id |-> r.id, kind |-> r.kind, status |-> status, bytes |-> n]
           n1 == Len(sync) + 1
<1>1. Distinct'
  BY <1>0, QueueDistinct DEF IdsApart
<1>2. /\ state' = state /\ DOMAIN sync = 1..Len(sync) /\ DOMAIN sync' = 1..n1
      /\ Len(sync) \in Nat /\ \A i \in 1..Len(sync) : sync'[i] = sync[i]
  BY QueueFacts
<1>3. sync'[n1] = new
  <2>1. sync \in Seq(Completion) /\ new \in Completion
    BY ConstantFacts DEF TypeOK, Completion, Request
  <2>2. sync' = Append(sync, new)
    BY DEF Queue
  <2>3. QED
    BY <2>1, <2>2, AppendProperties
<1> HIDE DEF new, n1
<1>4. \A i \in DOMAIN sync' : (i \in DOMAIN sync /\ sync'[i] = sync[i]) \/ sync'[i] = new
  BY <1>2, <1>3 DEF n1
<1>5. /\ n1 \in DOMAIN sync'
      /\ \A i \in DOMAIN sync : i \in DOMAIN sync' /\ sync'[i] = sync[i]
  BY <1>2 DEF n1
<1>6. Handed' = Handed
  BY DEF Handed
<1>7. \A x : x \in Items' <=> x \in Items \/ x = new
  <2>1. ASSUME NEW x
        PROVE  x \in Items' <=> \/ \E f \in Fd, e \in Dir : /\ state'[f].op[e] # NoOp
                                                           /\ x = state'[f].op[e]
                                \/ \E i \in DOMAIN sync' : x = sync'[i]
                                \/ x \in Handed'
    BY DEF Items, Ops, Mask
  <2>2. QED
    BY <1>2, <1>3, <1>4, <1>5, <1>6, <2>1, ItemIs
<1>8. Items' = Items \cup {new}
  BY <1>7
<1>9. new.id = r.id /\ new.kind = r.kind
  BY DEF new
<1>10. OutOnce'
  BY DEF IdsApart, OutOnce
<1>11. OutApart'
  <2>1. \A id : id \in Pending' => id \in Pending \/ id = r.id
    <3>1. ASSUME NEW id
          PROVE  id \in Pending' <=> \/ \E f \in Fd, e \in Dir : /\ state'[f].op[e] # NoOp
                                                                /\ id = state'[f].op[e].id
                                     \/ \E i \in DOMAIN sync' : id = sync'[i].id
      BY DEF Pending, Ops, Mask, Ids
    <3>2. QED
      BY <1>2, <1>4, <1>9, <3>1, PendingIs
  <2>2. \A c \in Handed : c.id # r.id
    BY <1>0 DEF Ids, Handed
  <2>3. QED
    BY <1>6, <2>1, <2>2 DEF IdsApart, OutApart
<1>12. QED
  BY <1>1, <1>4, <1>7, <1>8, <1>9, <1>10, <1>11, OutstandingIs DEF IdsApart

(* Slots that are emptied and nothing else.                                *)
LEMMA EmptiedItems ==
    ASSUME IdsApart, UNCHANGED <<sync, out>>,
           \A f \in Fd, d \in Dir : state'[f].op[d] \in {NoOp, state[f].op[d]}
    PROVE  /\ IdsApart' /\ Items' \subseteq Items
           /\ \A id : id \in Outstanding' <=>
                  /\ id \in Outstanding
                  /\ ~\E f \in Fd, d \in Dir : /\ state[f].op[d] # NoOp /\ state'[f].op[d] = NoOp
                                              /\ id = state[f].op[d].id
<1>1. Distinct'
  BY DistinctFewer DEF IdsApart
<1>2. Handed' = Handed
  BY DEF Handed
<1>3. ASSUME NEW x
      PROVE  x \in Items' <=> \/ \E f \in Fd, e \in Dir : /\ state'[f].op[e] # NoOp
                                                         /\ x = state[f].op[e]
                                                         /\ state[f].op[e] # NoOp
                              \/ \E i \in DOMAIN sync : x = sync[i]
                              \/ x \in Handed
  <2>1. x \in Items' <=> \/ \E f \in Fd, e \in Dir : /\ state'[f].op[e] # NoOp
                                                    /\ x = state'[f].op[e]
                         \/ \E i \in DOMAIN sync' : x = sync'[i]
                         \/ x \in Handed'
    BY DEF Items, Ops, Mask
  <2>2. QED
    BY <1>2, <2>1
<1>4. Items' \subseteq Items
  BY <1>3, ItemIs
<1>5. ASSUME NEW id \in Pending'
      PROVE  id \in Pending
  <2>1. \/ \E f \in Fd, e \in Dir : state'[f].op[e] # NoOp /\ id = state'[f].op[e].id
        \/ \E i \in DOMAIN sync' : id = sync'[i].id
    BY DEF Pending, Ops, Mask, Ids
  <2>2. QED
    BY <2>1, PendingIs
<1>6. OutOnce' /\ OutApart'
  BY <1>2, <1>5 DEF IdsApart, OutOnce, OutApart
<1> DEFINE Gone(id) == \E f \in Fd, d \in Dir : /\ state[f].op[d] # NoOp
                                                /\ state'[f].op[d] = NoOp
                                                /\ id = state[f].op[d].id
<1>7. ASSUME NEW id
      PROVE  id \in Outstanding' <=> id \in Outstanding /\ ~Gone(id)
  <2>1. id \in Outstanding' <=> \E x \in Items' : id = x.id
    BY OutstandingIs
  <2>2. id \in Outstanding <=> \E x \in Items : id = x.id
    BY OutstandingIs
  <2>3. ASSUME NEW x \in Items', NEW f \in Fd, NEW d \in Dir, id = x.id,
               state[f].op[d] # NoOp, state'[f].op[d] = NoOp, id = state[f].op[d].id
        PROVE  FALSE
    <3>1. CASE \E g \in Fd, e \in Dir : /\ state'[g].op[e] # NoOp
                                        /\ x = state[g].op[e] /\ state[g].op[e] # NoOp
      <4>1. PICK g \in Fd, e \in Dir : /\ state'[g].op[e] # NoOp /\ x = state[g].op[e]
                                        /\ state[g].op[e] # NoOp
        BY <3>1
      <4>2. f = g /\ d = e
        <5>1. state[f].op[d].id = state[g].op[e].id
          BY <2>3, <4>1
        <5>2. QED
          BY <2>3, <4>1, <5>1, OneSlot
      <4>3. QED
        BY <2>3, <4>1, <4>2
    <3>2. CASE \E i \in DOMAIN sync : x = sync[i]
      BY <2>3, <3>2 DEF IdsApart, Distinct, SlotsApart
    <3>3. CASE x \in Handed
      BY <2>3, <3>3, PendingIs DEF IdsApart, OutApart
    <3>4. QED
      BY <1>3, <2>3, <3>1, <3>2, <3>3
  <2>4. ASSUME id \in Outstanding, ~Gone(id)
        PROVE  id \in Outstanding'
    <3>1. PICK x \in Items : id = x.id
      BY <2>2, <2>4
    <3>2. x \in Items'
      BY <1>3, <2>4, <3>1, ItemIs
    <3>3. QED
      BY <2>1, <3>1, <3>2
  <2>5. ASSUME Gone(id), id \in Outstanding'
        PROVE  FALSE
    BY <2>1, <2>3, <2>5
  <2>6. id \in Outstanding' => id \in Outstanding
    BY <1>4, <2>1, <2>2
  <2>7. QED
    BY <2>4, <2>5, <2>6
<1>9. QED
  BY <1>1, <1>4, <1>6, <1>7 DEF IdsApart

-------------------------------------------------------------------------------
LEMMA NextItems ==
    ASSUME NEW x
    PROVE  /\ x \in Items' <=> \/ \E fd \in Fd, d \in Dir : /\ state'[fd].op[d] # NoOp
                                                           /\ x = state'[fd].op[d]
                               \/ \E i \in DOMAIN sync' : x = sync'[i]
                               \/ x \in Handed'
           /\ x \in Pending' <=> \/ \E fd \in Fd, d \in Dir : /\ state'[fd].op[d] # NoOp
                                                             /\ x = state'[fd].op[d].id
                                 \/ \E i \in DOMAIN sync' : x = sync'[i].id
           /\ x \in Ids(out)' <=> \E c \in Handed' : x = c.id
BY DEF Items, Handed, Pending, Ops, Mask, Ids

LEMMA HandedIds ==
    ASSUME NEW id
    PROVE  id \in Ids(out) <=> \E c \in Handed : id = c.id
BY DEF Ids, Handed

(* A call drops what the script left in the span, and takes from the queue.*)
LEMMA BeginItems ==
    ASSUME TypeOK, IdsApart, NEW mode, Begin(mode)
    PROVE  /\ IdsApart' /\ Items' \subseteq Items
           /\ Outstanding' = Outstanding \ Ids(out)
           /\ \A i \in DOMAIN sync' : \E j \in DOMAIN sync : sync'[i] = sync[j]
           /\ \A c \in Handed' : \E j \in DOMAIN sync : c = sync[j]
<1>1. /\ Len(sync) \in Nat /\ DOMAIN sync = 1..Len(sync) /\ Fit \in 0..Len(sync)
      /\ DOMAIN sync' = 1..(Len(sync) - Fit)
      /\ \A i \in 1..(Len(sync) - Fit) : sync'[i] = sync[Fit + i]
      /\ DOMAIN out' = 1..Fit
      /\ \A i \in 1..Fit : out'[i] = sync[i]
  BY BeginQueue
<1>2. Distinct'
  BY BeginDistinct DEF IdsApart
<1>3. state' = state
  BY DEF Begin
<1>4. \A i \in DOMAIN sync' : Fit + i \in DOMAIN sync /\ Fit + i > Fit /\ sync'[i] = sync[Fit + i]
  BY <1>1
<1>5. \A i \in DOMAIN out' : i \in DOMAIN sync /\ i <= Fit /\ out'[i] = sync[i]
  BY <1>1
<1>6. \A j \in DOMAIN sync : \/ j \in DOMAIN out' /\ out'[j] = sync[j]
                             \/ j - Fit \in DOMAIN sync' /\ sync'[j - Fit] = sync[j]
  <2>1. ASSUME NEW j \in DOMAIN sync
        PROVE  \/ j \in DOMAIN out' /\ out'[j] = sync[j]
               \/ j - Fit \in DOMAIN sync' /\ sync'[j - Fit] = sync[j]
    <3>1. CASE j <= Fit
      BY <1>1, <3>1
    <3>2. CASE j > Fit
      <4>1. j - Fit \in 1..(Len(sync) - Fit) /\ Fit + (j - Fit) = j
        BY <1>1, <3>2
      <4>2. QED
        BY <1>1, <4>1
    <3>3. QED
      BY <1>1, <3>1, <3>2
  <2>2. QED
    BY <2>1
<1>7. \A c \in Handed' : \E i \in DOMAIN out' : c = out'[i]
  BY DEF Handed
<1>8. \A c \in Handed' : \E j \in DOMAIN sync : c = sync[j]
  BY <1>5, <1>7
<1>9. Items' \subseteq Items
  BY <1>3, <1>4, <1>8, NextItems, ItemIs
<1>10. OutOnce'
  BY <1>5 DEF OutOnce, IdsApart, Distinct, PlacesDistinct
<1>11. OutApart'
  <2>1. ASSUME NEW i \in DOMAIN out', out'[i].id \in Pending'
        PROVE  FALSE
    <3>1. i \in DOMAIN sync /\ i <= Fit /\ out'[i] = sync[i]
      BY <1>5
    <3>2. CASE \E fd \in Fd, d \in Dir : state[fd].op[d] # NoOp /\ sync[i].id = state[fd].op[d].id
      BY <3>1, <3>2 DEF IdsApart, Distinct, SlotsApart
    <3>3. CASE \E j \in DOMAIN sync' : sync[i].id = sync'[j].id
      <4>1. PICK j \in DOMAIN sync' : sync[i].id = sync[Fit + j].id
        BY <1>4, <3>3
      <4>2. i = Fit + j
        BY <1>4, <3>1, <4>1 DEF IdsApart, Distinct, PlacesDistinct
      <4>3. Fit + j > Fit /\ Fit \in Nat /\ i \in Nat
        BY <1>1, <1>4, <3>1
      <4>4. QED
        BY <3>1, <4>2, <4>3
    <3>4. QED
      BY <1>3, <2>1, <3>1, <3>2, <3>3, NextItems
  <2>2. QED
    BY <1>7, <2>1 DEF OutApart
<1>12. Outstanding' = Outstanding \ Ids(out)
  <2>1. ASSUME NEW id
        PROVE  id \in Outstanding' <=> id \in Pending
    <3>1. id \in Outstanding' <=> id \in Pending' \/ id \in Ids(out)'
      BY DEF Outstanding
    <3>2. id \in Ids(out)' <=> \E i \in DOMAIN out' : id = out'[i].id
      BY DEF Ids
    <3>3. id \in Pending' <=> \/ \E fd \in Fd, d \in Dir : /\ state[fd].op[d] # NoOp
                                                          /\ id = state[fd].op[d].id
                              \/ \E i \in DOMAIN sync' : id = sync'[i].id
      BY <1>3, NextItems
    <3>4. (\E i \in DOMAIN sync : id = sync[i].id) <=>
              (\E i \in DOMAIN sync' : id = sync'[i].id) \/ (\E i \in DOMAIN out' : id = out'[i].id)
      BY <1>4, <1>5, <1>6
    <3>5. QED
      BY <3>1, <3>2, <3>3, <3>4, PendingIs
  <2>2. \A id : id \in Ids(out) => id \notin Pending
    BY HandedIds DEF IdsApart, OutApart
  <2>3. QED
    BY <2>1, <2>2 DEF Outstanding
<1>13. QED
  BY <1>2, <1>4, <1>8, <1>9, <1>10, <1>11, <1>12 DEF IdsApart

(* One completion leaves the span at its head.                             *)
LEMMA TailFacts ==
    ASSUME TypeOK, OutOnce, out # <<>>, out' = Tail(out)
    PROVE  /\ out' \in Seq(Completion) /\ Len(out') <= Room
           /\ Head(out) \in Handed /\ Head(out) \in Completion
           /\ \A c : c \in Handed' <=> c \in Handed /\ c.id # Head(out).id
           /\ OutOnce'
<1>1. /\ out \in Seq(Completion) /\ Len(out) \in Nat /\ Len(out) <= Room
      /\ DOMAIN out = 1..Len(out) /\ \A i \in DOMAIN out : out[i] \in Completion
  BY SequenceFacts DEF TypeOK
<1>2. /\ out' \in Seq(Completion) /\ Len(out') = Len(out) - 1 /\ Len(out) > 0
      /\ DOMAIN out' = 1..(Len(out) - 1)
      /\ \A i \in 1..(Len(out) - 1) : out'[i] = out[i + 1]
      /\ Head(out) = out[1]
  BY <1>1, HeadTailProperties, LenProperties, EmptySeq
<1>3. 1 \in DOMAIN out
  BY <1>1, <1>2
<1>4. \A i \in DOMAIN out' : i + 1 \in DOMAIN out /\ i + 1 # 1 /\ out'[i] = out[i + 1]
  BY <1>1, <1>2
<1>5. \A j \in DOMAIN out : j = 1 \/ (j - 1 \in DOMAIN out' /\ out'[j - 1] = out[j])
  <2>1. ASSUME NEW j \in DOMAIN out, j # 1
        PROVE  j - 1 \in DOMAIN out' /\ out'[j - 1] = out[j]
    <3>1. j - 1 \in 1..(Len(out) - 1) /\ (j - 1) + 1 = j
      BY <1>1, <2>1
    <3>2. QED
      BY <1>2, <3>1
  <2>2. QED
    BY <2>1
<1>6. ASSUME NEW c
      PROVE  c \in Handed' <=> c \in Handed /\ c.id # Head(out).id
  <2>1. c \in Handed' <=> \E i \in DOMAIN out' : c = out'[i]
    BY DEF Handed
  <2>2. c \in Handed <=> \E i \in DOMAIN out : c = out[i]
    BY DEF Handed
  <2>3. \A i \in DOMAIN out : out[i].id = out[1].id <=> i = 1
    BY <1>3 DEF OutOnce
  <2>4. ASSUME c \in Handed'
        PROVE  c \in Handed /\ c.id # Head(out).id
    <3>1. PICK i \in DOMAIN out' : c = out'[i]
      BY <2>1, <2>4
    <3>2. i + 1 \in DOMAIN out /\ i + 1 # 1 /\ c = out[i + 1]
      BY <1>4, <3>1
    <3>3. QED
      BY <1>2, <2>2, <2>3, <3>2
  <2>5. ASSUME c \in Handed, c.id # Head(out).id
        PROVE  c \in Handed'
    <3>1. PICK j \in DOMAIN out : c = out[j]
      BY <2>2, <2>5
    <3>2. j # 1
      BY <1>2, <2>5, <3>1
    <3>3. QED
      BY <1>5, <2>1, <3>1, <3>2
  <2>6. QED
    BY <2>4, <2>5
<1>7. OutOnce'
  <2>1. ASSUME NEW i \in DOMAIN out', NEW j \in DOMAIN out', out'[i].id = out'[j].id
        PROVE  i = j
    <3>1. i + 1 = j + 1
      BY <1>4, <2>1 DEF OutOnce
    <3>2. i \in Int /\ j \in Int
      BY <1>1, <1>2
    <3>3. QED
      BY <3>1, <3>2
  <2>2. QED
    BY <2>1 DEF OutOnce
<1>8. Head(out) \in Handed /\ Head(out) \in Completion
  BY <1>1, <1>2, <1>3 DEF Handed
<1>9. Len(out') <= Room
  BY <1>1, <1>2, ConstantFacts
<1>10. QED
  BY <1>2, <1>6, <1>7, <1>8, <1>9

LEMMA EmitItems ==
    ASSUME TypeOK, IdsApart, out # <<>>, out' = Tail(out), UNCHANGED <<state, sync>>
    PROVE  /\ IdsApart' /\ Items' \subseteq Items
           /\ Outstanding' = Outstanding \ {Head(out).id}
           /\ Head(out).id \in Outstanding
<1>1. /\ Head(out) \in Handed /\ OutOnce'
      /\ \A c : c \in Handed' <=> c \in Handed /\ c.id # Head(out).id
  BY TailFacts DEF IdsApart
<1>2. Distinct'
  BY DEF IdsApart, Distinct, SlotsDistinct, PlacesDistinct, SlotsApart
<1>3. Pending' = Pending
  BY DEF Pending, Ops, Mask, Ids
<1>4. OutApart'
  BY <1>1, <1>3 DEF IdsApart, OutApart
<1>5. Items' \subseteq Items
  BY <1>1, NextItems, ItemIs
<1>6. Head(out).id \notin Pending
  BY <1>1 DEF IdsApart, OutApart
<1>7. Ids(out)' = Ids(out) \ {Head(out).id}
  BY <1>1, NextItems, HandedIds
<1>8. Head(out).id \in Ids(out)
  BY <1>1, HandedIds
<1>9. QED
  BY <1>1, <1>2, <1>3, <1>4, <1>5, <1>6, <1>7, <1>8 DEF IdsApart, Outstanding

(* The rest of a write goes back under the id of its completion.           *)
LEMMA ResubmitItems ==
    ASSUME TypeOK, IdsApart, out # <<>>, out' = Tail(out),
           NEW fd \in Fd, NEW d \in Dir, NEW r \in Request, r.id = Head(out).id,
           Submit(fd, d, r)
    PROVE  /\ IdsApart' /\ Outstanding' = Outstanding
           /\ \A x \in Items' : x \in Items \/ x = r
           /\ Head(out) \in Items
<1>1. /\ Head(out) \in Handed /\ OutOnce'
      /\ \A c : c \in Handed' <=> c \in Handed /\ c.id # Head(out).id
  BY TailFacts DEF IdsApart
<1>2. r.id \notin Pending
  BY <1>1 DEF IdsApart, OutApart
<1>3. Distinct'
  BY <1>2, SubmitDistinct DEF IdsApart
<1>4. /\ state[fd].op[d] = NoOp /\ r # NoOp /\ sync' = sync
      /\ \A f \in Fd, e \in Dir :
             state'[f].op[e] = IF f = fd /\ e = d THEN r ELSE state[f].op[e]
  BY SubmitSlots, ConstantFacts DEF Submit
<1>5. \A id : id \in Pending' <=> id \in Pending \/ id = r.id
  BY <1>4, NextItems, PendingIs
<1>6. OutApart'
  BY <1>1, <1>5 DEF IdsApart, OutApart
<1>7. \A x \in Items' : x \in Items \/ x = r
  BY <1>1, <1>4, NextItems, ItemIs
<1>8. \A id : id \in Ids(out)' <=> id \in Ids(out) /\ id # r.id
  BY <1>1, NextItems, HandedIds
<1>9. r.id \in Ids(out)
  BY <1>1, HandedIds
<1>10. Outstanding' = Outstanding
  BY <1>5, <1>8, <1>9 DEF Outstanding
<1>11. Head(out) \in Items
  BY <1>1, ItemIs
<1>12. QED
  BY <1>1, <1>3, <1>6, <1>7, <1>10, <1>11 DEF IdsApart

-------------------------------------------------------------------------------
(* The completions of one event.                                           *)
LEMMA ReportIs ==
    ASSUME NEW fd \in Fd, NEW d \in Dir, NEW s \in Reports(fd, d)
    PROVE  /\ d \in Served(fd) => s[1] \in Outcomes(state[fd].op[d])
           /\ Len(s) = IF d \in Served(fd) THEN 1 ELSE 0
BY DEF Reports

(* Each request that is served has one place behind what was there.        *)
LEMMA HandlePlaces ==
    ASSUME TypeOK, NEW fd \in Fd, Handle(fd)
    PROVE  /\ DOMAIN out \subseteq DOMAIN out' /\ \A k \in DOMAIN out : out'[k] = out[k]
           /\ Fresh = {out'[k] : k \in DOMAIN out' \ DOMAIN out}
           /\ \E place \in [Served(fd) -> DOMAIN out' \ DOMAIN out] :
                  /\ \A d \in Served(fd) : out'[place[d]] \in Outcomes(state[fd].op[d])
                  /\ \A k \in DOMAIN out' \ DOMAIN out : \E d \in Served(fd) : k = place[d]
<1>1. PICK i \in Reports(fd, "in"), o \in Reports(fd, "out") : out' = out \o i \o o
  BY DEF Handle
<1>2. StateOK /\ "in" \in Dir /\ "out" \in Dir /\ Dir = {"in", "out"} /\ "in" # "out"
  BY TypeParts DEF Dir
<1>3. /\ i \in Seq(Completion) /\ o \in Seq(Completion) /\ out \in Seq(Completion)
      /\ Len(i) = IF "in" \in Served(fd) THEN 1 ELSE 0
      /\ Len(o) = IF "out" \in Served(fd) THEN 1 ELSE 0
      /\ "in" \in Served(fd) => i[1] \in Outcomes(state[fd].op["in"])
      /\ "out" \in Served(fd) => o[1] \in Outcomes(state[fd].op["out"])
  BY <1>2, ReportFacts, ReportIs DEF TypeOK
<1>a. (Len(i) = 1 => "in" \in Served(fd)) /\ (Len(o) = 1 => "out" \in Served(fd))
  <2>1. /\ Len(i) = IF "in" \in Served(fd) THEN 1 ELSE 0
        /\ Len(o) = IF "out" \in Served(fd) THEN 1 ELSE 0
    BY <1>3
  <2>2. QED
    BY <2>1
<1>4. Served(fd) \subseteq Dir
  BY ServedDirs
<1> DEFINE m == Len(out)
           n == m + Len(i)
<1>5. /\ m \in Nat /\ DOMAIN out = 1..m /\ Len(i) \in 0..1 /\ Len(o) \in 0..1
      /\ n \in Nat /\ n >= m
  BY <1>3, LenProperties
<1>6. /\ out \o i \in Seq(Completion) /\ Len(out \o i) = n
      /\ \A k \in 1..n : (out \o i)[k] = IF k <= m THEN out[k] ELSE i[k - m]
  BY <1>3, ConcatProperties
<1>7. /\ out' \in Seq(Completion) /\ Len(out') = n + Len(o)
      /\ \A k \in 1..(n + Len(o)) : out'[k] = IF k <= n THEN (out \o i)[k] ELSE o[k - n]
  <2> DEFINE s == out \o i
  <2>1. out' = s \o o /\ s \in Seq(Completion) /\ Len(s) = n
    BY <1>1, <1>6
  <2> HIDE DEF s, n
  <2>2. /\ s \o o \in Seq(Completion) /\ Len(s \o o) = Len(s) + Len(o)
        /\ \A k \in 1..(Len(s) + Len(o)) :
               (s \o o)[k] = IF k <= Len(s) THEN s[k] ELSE o[k - Len(s)]
    BY <1>3, <2>1, ConcatProperties
  <2>3. /\ out' \in Seq(Completion) /\ Len(out') = n + Len(o)
        /\ \A k \in 1..(n + Len(o)) : out'[k] = IF k <= n THEN s[k] ELSE o[k - n]
    BY <2>1, <2>2
  <2>4. QED
    BY <2>3 DEF s
<1>8. DOMAIN out' = 1..(n + Len(o))
  BY <1>7, LenProperties
<1>9. DOMAIN out \subseteq DOMAIN out' /\ \A k \in DOMAIN out : out'[k] = out[k]
  <2> HIDE DEF m, n
  <2>1. QED
    BY <1>5, <1>6, <1>7, <1>8
<1>10. DOMAIN out' \ DOMAIN out = (m + 1)..(n + Len(o))
  <2> HIDE DEF m, n
  <2>1. QED
    BY <1>5, <1>8
<1>11. Fresh = {out'[k] : k \in DOMAIN out' \ DOMAIN out}
  BY <1>7, <1>10 DEF Fresh
<1> DEFINE place == [d \in Served(fd) |-> IF d = "in" THEN m + 1 ELSE n + 1]
<1>12. ASSUME "in" \in Served(fd)
       PROVE  /\ m + 1 \in DOMAIN out' \ DOMAIN out /\ n = m + 1
              /\ out'[m + 1] \in Outcomes(state[fd].op["in"])
  <2>1. Len(i) = 1 /\ n = m + 1
    BY <1>3, <1>12
  <2> HIDE DEF n
  <2>2. m + 1 \in 1..n /\ m + 1 \in 1..(n + Len(o)) /\ ~(m + 1 <= m) /\ (m + 1) - m = 1
    BY <1>5, <2>1
  <2> HIDE DEF m
  <2>a. (out \o i)[m + 1] = i[(m + 1) - m]
    BY <1>6, <2>2
  <2>b. m + 1 <= n
    BY <1>5, <2>1
  <2>3. out'[m + 1] = i[1]
    BY <1>7, <2>2, <2>a, <2>b
  <2>4. m + 1 \in DOMAIN out' \ DOMAIN out
    BY <1>5, <1>10, <2>1
  <2>5. QED
    BY <1>3, <1>12, <2>1, <2>3, <2>4
<1>13. ASSUME "out" \in Served(fd)
       PROVE  /\ n + 1 \in DOMAIN out' \ DOMAIN out
              /\ out'[n + 1] \in Outcomes(state[fd].op["out"])
  <2>1. Len(o) = 1
    BY <1>3, <1>13
  <2> HIDE DEF n, m
  <2>2. n + 1 \in 1..(n + Len(o)) /\ ~(n + 1 <= n) /\ (n + 1) - n = 1
    BY <1>5, <2>1
  <2>3. out'[n + 1] = o[1]
    BY <1>7, <2>2
  <2>4. n + 1 \in DOMAIN out' \ DOMAIN out
    BY <1>5, <1>10, <2>1
  <2>5. QED
    BY <1>3, <1>13, <2>3, <2>4
<1>14. ASSUME NEW k \in DOMAIN out' \ DOMAIN out
       PROVE  \/ "in" \in Served(fd) /\ k = m + 1
              \/ "out" \in Served(fd) /\ k = n + 1
  <2>1. k \in (m + 1)..(n + Len(o))
    BY <1>10
  <2> DEFINE a == Len(i)
             b == Len(o)
  <2>0. /\ n = m + a /\ m \in Int /\ n \in Int /\ k \in Int
        /\ a = 0 \/ a = 1
        /\ b = 0 \/ b = 1
    BY <1>5, <2>1
  <2>b. k >= m + 1 /\ k <= n + b
    BY <1>5, <2>1
  <2> HIDE DEF m, n, a, b
  <2>2. CASE k <= n
    <3>1. a = 1 /\ k = m + 1
      BY <2>0, <2>b, <2>2
    <3>2. QED
      BY <1>a, <3>1 DEF a
  <2>3. CASE k > n
    <3>1. b = 1 /\ k = n + 1
      BY <2>0, <2>b, <2>3
    <3>2. QED
      BY <1>a, <3>1 DEF b
  <2>4. QED
    BY <2>0, <2>2, <2>3
<1> HIDE DEF m, n
<1>15. place \in [Served(fd) -> DOMAIN out' \ DOMAIN out]
  BY <1>2, <1>4, <1>12, <1>13
<1>16. \A d \in Served(fd) : out'[place[d]] \in Outcomes(state[fd].op[d])
  BY <1>2, <1>4, <1>12, <1>13
<1>17. \A k \in DOMAIN out' \ DOMAIN out : \E d \in Served(fd) : k = place[d]
  BY <1>2, <1>14
<1> HIDE DEF place
<1>18. QED
  BY <1>9, <1>11, <1>15, <1>16, <1>17

LEMMA HandleItems ==
    ASSUME TypeOK, IdsApart, NEW fd \in Fd, Handle(fd)
    PROVE  /\ IdsApart' /\ Outstanding' = Outstanding
           /\ Handed' = Handed \cup Fresh
           /\ \A c \in Fresh : \E d \in Served(fd) : c \in Outcomes(state[fd].op[d])
           /\ \A c, e \in Fresh : c.id = e.id => c = e
           /\ \A d \in Served(fd) : \E c \in Fresh : c \in Outcomes(state[fd].op[d])
<1>1. /\ DOMAIN out \subseteq DOMAIN out' /\ \A k \in DOMAIN out : out'[k] = out[k]
      /\ Fresh = {out'[k] : k \in DOMAIN out' \ DOMAIN out}
  BY HandlePlaces
<1>2. PICK place \in [Served(fd) -> DOMAIN out' \ DOMAIN out] :
          /\ \A d \in Served(fd) : out'[place[d]] \in Outcomes(state[fd].op[d])
          /\ \A k \in DOMAIN out' \ DOMAIN out : \E d \in Served(fd) : k = place[d]
  BY HandlePlaces
<1>3. Served(fd) \subseteq Dir /\ \A d \in Served(fd) : state[fd].op[d] # NoOp
  BY ServedDirs
<1>4. \A f \in Fd, e \in Dir :
          state'[f].op[e] = IF f = fd /\ e \in Served(fd) THEN NoOp ELSE state[f].op[e]
  BY HandleSlots
<1>5. sync' = sync
  BY DEF Handle
<1>6. Handed' = Handed \cup Fresh
  BY <1>1 DEF Handed
<1>7. \A d \in Served(fd) : \A c \in Outcomes(state[fd].op[d]) : c.id = state[fd].op[d].id
  BY DEF Outcomes
<1>8. \A d \in Served(fd) : out'[place[d]].id = state[fd].op[d].id
  BY <1>2, <1>7
<1>9. \A d \in Served(fd) : state[fd].op[d].id \in Pending
  BY <1>3, PendingIs
<1>10. \A k \in DOMAIN out' \ DOMAIN out : \E d \in Served(fd) : /\ k = place[d]
                                                                 /\ out'[k].id = state[fd].op[d].id
  BY <1>2, <1>8
<1>11. OutOnce'
  <2>1. ASSUME NEW j \in DOMAIN out', NEW k \in DOMAIN out', out'[j].id = out'[k].id
        PROVE  j = k
    <3>1. ASSUME NEW a \in DOMAIN out, NEW b \in DOMAIN out' \ DOMAIN out,
                 out'[a].id = out'[b].id
          PROVE  FALSE
      <4>1. out[a].id \in Pending
        BY <1>1, <1>9, <1>10, <3>1
      <4>2. QED
        BY <4>1 DEF IdsApart, OutApart, Handed
    <3>2. CASE j \in DOMAIN out /\ k \in DOMAIN out
      BY <1>1, <2>1, <3>2 DEF IdsApart, OutOnce
    <3>3. CASE j \notin DOMAIN out /\ k \notin DOMAIN out
      <4>1. PICK d \in Served(fd) : j = place[d] /\ out'[j].id = state[fd].op[d].id
        BY <1>10, <3>3
      <4>2. PICK e \in Served(fd) : k = place[e] /\ out'[k].id = state[fd].op[e].id
        BY <1>10, <3>3
      <4>3. state[fd].op[d].id = state[fd].op[e].id
        BY <2>1, <4>1, <4>2
      <4>4. d = e
        BY <1>3, <4>3, OneSlot
      <4>5. QED
        BY <4>1, <4>2, <4>4
    <3>4. QED
      BY <2>1, <3>1, <3>2, <3>3
  <2>2. QED
    BY <2>1 DEF OutOnce
<1>12. \A id : id \in Pending' => id \in Pending /\ \A d \in Served(fd) : id # state[fd].op[d].id
  <2>1. ASSUME NEW id \in Pending'
        PROVE  id \in Pending /\ \A d \in Served(fd) : id # state[fd].op[d].id
    <3>1. CASE \E f \in Fd, e \in Dir : state'[f].op[e] # NoOp /\ id = state'[f].op[e].id
      <4>1. PICK f \in Fd, e \in Dir : state'[f].op[e] # NoOp /\ id = state'[f].op[e].id
        BY <3>1
      <4>2. ~(f = fd /\ e \in Served(fd)) /\ state[f].op[e] # NoOp /\ id = state[f].op[e].id
        BY <1>4, <4>1
      <4>3. ASSUME NEW d \in Served(fd), id = state[fd].op[d].id
            PROVE  FALSE
        <5>1. state[f].op[e].id = state[fd].op[d].id /\ d \in Dir /\ state[fd].op[d] # NoOp
          BY <1>3, <4>2, <4>3
        <5>2. f = fd /\ e = d
          BY <4>2, <5>1, OneSlot
        <5>3. QED
          BY <4>2, <4>3, <5>2
      <4>4. QED
        BY <4>2, <4>3, PendingIs
    <3>2. CASE \E i \in DOMAIN sync : id = sync[i].id
      <4>1. \A d \in Served(fd) : id # state[fd].op[d].id
        BY <1>3, <3>2 DEF IdsApart, Distinct, SlotsApart
      <4>2. QED
        BY <3>2, <4>1, PendingIs
    <3>3. QED
      BY <1>5, <3>1, <3>2, NextItems
  <2>2. QED
    BY <2>1
<1>13. \A c \in Fresh : \E d \in Served(fd) : c.id = state[fd].op[d].id
  BY <1>1, <1>10
<1>14. OutApart'
  BY <1>6, <1>12, <1>13 DEF IdsApart, OutApart
<1>15. Distinct'
  <2>1. \A f \in Fd, d \in Dir : state'[f].op[d] \in {NoOp, state[f].op[d]}
    BY <1>4
  <2>2. QED
    BY <1>5, <2>1, DistinctFewer DEF IdsApart
<1>16. \A d \in Served(fd) : \E c \in Fresh : c \in Outcomes(state[fd].op[d])
  BY <1>1, <1>2
<1>17. \A id : id \in Pending => id \in Pending' \/ \E d \in Served(fd) : id = state[fd].op[d].id
  BY <1>4, <1>5, NextItems, PendingIs
<1>18. Outstanding' = Outstanding
  <2>1. ASSUME NEW id
        PROVE  id \in Ids(out)' <=> id \in Ids(out) \/ \E c \in Fresh : id = c.id
    BY <1>6, NextItems, HandedIds
  <2>2. \A d \in Served(fd) : \E c \in Fresh : c.id = state[fd].op[d].id
    BY <1>7, <1>16
  <2>3. QED
    BY <1>9, <1>12, <1>13, <1>17, <2>1, <2>2 DEF Outstanding
<1>19. ASSUME NEW c \in Fresh, NEW e \in Fresh, c.id = e.id
       PROVE  c = e
  <2>1. PICK j \in DOMAIN out' \ DOMAIN out, k \in DOMAIN out' \ DOMAIN out :
            c = out'[j] /\ e = out'[k]
    BY <1>1
  <2>2. j = k
    BY <1>11, <1>19, <2>1 DEF OutOnce
  <2>3. QED
    BY <2>1, <2>2
<1>20. \A c \in Fresh : \E d \in Served(fd) : c \in Outcomes(state[fd].op[d])
  BY <1>1, <1>2
<1>21. QED
  BY <1>6, <1>11, <1>14, <1>15, <1>16, <1>18, <1>19, <1>20 DEF IdsApart

-------------------------------------------------------------------------------
(* What the variables of the binding hold.                                 *)
Buffer == [q : Seq(Entries), buffered : Int, flying : BOOLEAN,
           fd : Fd \cup {NoOp}, id : Id \cup {NoOp}]

DataOK ==
    /\ wbuf \in [WB -> Buffer]
    /\ rsize \in [RB -> Nat] /\ closed \in SUBSET WB /\ cut \in SUBSET WB
    /\ wrote \in [WB -> 0..MaxWrote] /\ wire \in [WB -> 0..MaxWrote]
    /\ socket \in [Fd -> 0..MaxReuse]
RequestsOK == \A id \in DOMAIN asked : asked[id] \in RequestInfo

(* The counts of a write_buf's queue.                                      *)
QueueCounted(b) ==
    /\ wbuf[b].buffered = Queued(wbuf[b].q) /\ wbuf[b].buffered <= wrote[b]
    /\ Unsent(wbuf[b].q) <= wrote[b]
    /\ b \in closed => wbuf[b].q = <<>>
QueuesCounted == \A b \in WB : QueueCounted(b)

(* The backend and the binding agree on what a request is for: a write is  *)
(* of a write_buf, a read of a read_buf, and neither is ever queued.       *)
KindFits(x, info) ==
    /\ x.kind = "write" <=> info.buf \in WB
    /\ x.kind = "read" <=> info.buf \in RB
    /\ x.kind \in {"read", "write"} => x.id[1] # 0
KindsKept ==
    /\ \A x \in Items : KindFits(x, asked[x.id])
    /\ \A i \in DOMAIN sync : sync[i].kind \notin {"read", "write"}

(* The bytes of the stream that are no longer in the queue, when n of the  *)
(* queue's are known to be sent; the kernel took them, and no others: or   *)
(* fewer, once some were dropped.                                          *)
Taken(b, n) == wrote[b] - Unsent(wbuf[b].q) + n
InStep(b, n) == wire[b] <= Taken(b, n) /\ (b \notin cut => wire[b] = Taken(b, n))

(* Where the one write of a write_buf is: with the backend, or reported    *)
(* and not yet consumed, or nowhere.                                       *)
WriteWaits(b) ==
    \A fd \in Fd : LET r == state[fd].op["out"]
                   IN  r # NoOp /\ asked[r.id].buf = b =>
                           /\ b \notin closed /\ asked[r.id].fd = fd
                           /\ r.len <= Unsent(wbuf[b].q)
                           /\ asked[r.id].from = Taken(b, 0) /\ InStep(b, 0)
WriteHanded(b) ==
    \A c \in Handed : asked[c.id].buf = b /\ b \notin closed =>
        /\ c.bytes <= Unsent(wbuf[b].q)
        /\ asked[c.id].from = Taken(b, 0) /\ InStep(b, c.bytes)
WriteKnown(b) ==
    \A id \in DOMAIN asked : asked[id].buf = b =>
        /\ wbuf[b].flying /\ wbuf[b].id = id
        /\ wbuf[b].fd = asked[id].fd /\ asked[id].fd \in Fd
WriteRests(b) == ~wbuf[b].flying /\ b \notin closed => InStep(b, 0)
StreamOK(b) == WriteWaits(b) /\ WriteHanded(b) /\ WriteKnown(b) /\ WriteRests(b)
StreamsKept == \A b \in WB : StreamOK(b)

BindInv ==
    /\ TypeOK /\ IdsApart /\ DataOK /\ RequestsOK /\ QueuesCounted
    /\ PinsKept /\ KindsKept /\ StreamsKept

(* With a script that cancels before it closes: a write stays with the     *)
(* socket it was meant for.                                                *)
SocketsKept ==
    /\ \A fd \in Fd, d \in Dir : state[fd].op[d] # NoOp => fd \in up
    /\ \A fd \in Fd : LET r == state[fd].op["out"]
                      IN  r # NoOp /\ asked[r.id].buf \in WB => asked[r.id].socket = socket[fd]
    /\ \A c \in Handed : asked[c.id].buf \in WB \ closed =>
           asked[c.id].fd \in up /\ asked[c.id].socket = socket[asked[c.id].fd]

(* With a script that has one read into a read_buf at a time: the space it *)
(* was given is still there.                                               *)
ReadOK(rb) ==
    /\ rsize[rb] <= Cap
    /\ \A fd \in Fd : LET r == state[fd].op["in"]
                      IN  r # NoOp /\ asked[r.id].buf = rb => r.len <= Cap - rsize[rb]
    /\ \A c \in Handed : asked[c.id].buf = rb => c.bytes <= Cap - rsize[rb]
    /\ \A id, other \in DOMAIN asked :
           asked[id].buf = rb /\ asked[other].buf = rb => id = other
ReadsKept == \A rb \in RB : ReadOK(rb)

LEMMA InvParts ==
    ASSUME BindInv
    PROVE  /\ TypeOK /\ IdsApart /\ DataOK /\ RequestsOK /\ QueuesCounted
           /\ PinsKept /\ KindsKept /\ StreamsKept
           /\ DOMAIN asked = Outstanding
BY DEF BindInv, PinsKept

LEMMA InfoFacts ==
    ASSUME RequestsOK, NEW id \in DOMAIN asked
    PROVE  /\ asked[id] \in RequestInfo
           /\ asked[id].buf \in Values /\ asked[id].tok \in Values
           /\ asked[id].fd \in Fd \cup {NoOp} /\ asked[id].from \in 0..MaxWrote
BY DEF RequestsOK, RequestInfo, Values

(* Items are what they were, or fit what was asked for them.               *)
LEMMA KindsNext ==
    ASSUME KindsKept,
           \A x \in Items' :
               \/ \E y \in Items : /\ y.id = x.id /\ y.kind = x.kind
                                   /\ asked'[x.id].buf = asked[x.id].buf
               \/ KindFits(x, asked'[x.id]),
           \A i \in DOMAIN sync' : \/ \E j \in DOMAIN sync : sync'[i] = sync[j]
                                   \/ sync'[i].kind \notin {"read", "write"}
    PROVE  KindsKept'
<1>1. ASSUME NEW x \in Items', NEW y \in Items, y.id = x.id, y.kind = x.kind,
             asked'[x.id].buf = asked[x.id].buf
      PROVE  KindFits(x, asked'[x.id])
  <2>1. KindFits(y, asked[y.id])
    BY DEF KindsKept
  <2>2. QED
    BY <1>1, <2>1 DEF KindFits
<1>2. \A x \in Items' : KindFits(x, asked'[x.id])
  BY <1>1
<1>3. \A i \in DOMAIN sync' : sync'[i].kind \notin {"read", "write"}
  BY DEF KindsKept
<1>4. QED
  BY <1>2, <1>3 DEF KindsKept

LEMMA KindsSame ==
    ASSUME KindsKept, Items' \subseteq Items,
           \A x \in Items' : asked'[x.id].buf = asked[x.id].buf,
           \A i \in DOMAIN sync' : \E j \in DOMAIN sync : sync'[i] = sync[j]
    PROVE  KindsKept'
<1>1. \A x \in Items' : \E y \in Items : /\ y.id = x.id /\ y.kind = x.kind
                                         /\ asked'[x.id].buf = asked[x.id].buf
  OBVIOUS
<1>2. QED
  BY <1>1, KindsNext

(* A write_buf that a step does not touch.                                 *)
Untouched(b) ==
    /\ wbuf'[b] = wbuf[b] /\ wrote'[b] = wrote[b] /\ wire'[b] = wire[b]
    /\ (b \in closed') <=> (b \in closed)
    /\ (b \in cut') <=> (b \in cut)

LEMMA UntouchedCounts ==
    ASSUME NEW b, QueueCounted(b), Untouched(b)
    PROVE  QueueCounted(b)'
BY DEF QueueCounted, Untouched

(* No new work for it either.                                              *)
LEMMA StreamFrame ==
    ASSUME NEW b, StreamOK(b), Untouched(b), PinsKept,
           PinsKept',
           \A fd \in Fd : LET r == state'[fd].op["out"]
                          IN  r # NoOp /\ asked'[r.id].buf = b => state[fd].op["out"] = r,
           \A c \in Handed' : asked'[c.id].buf = b => c \in Handed,
           \A id \in DOMAIN asked' : asked'[id].buf = b =>
               id \in DOMAIN asked /\ asked'[id] = asked[id]
    PROVE  StreamOK(b)'
<1>1. /\ \A fd \in Fd : state'[fd].op["out"] # NoOp => state'[fd].op["out"].id \in DOMAIN asked'
      /\ \A c \in Handed' : c.id \in DOMAIN asked'
  <2>1. \A x \in Items' : x.id \in DOMAIN asked'
    BY OutstandingIs DEF PinsKept
  <2>2. "out" \in Dir
    BY DEF Dir
  <2>3. QED
    BY <2>1, <2>2, NextItems
<1>2. \A n : Taken(b, n)' = Taken(b, n) /\ (InStep(b, n)' <=> InStep(b, n))
  BY DEF Taken, InStep, Untouched
<1>3. WriteWaits(b)'
  <2>1. ASSUME NEW fd \in Fd, state'[fd].op["out"] # NoOp,
               asked'[state'[fd].op["out"].id].buf = b
        PROVE  LET r == state'[fd].op["out"]
               IN  /\ b \notin closed' /\ asked'[r.id].fd = fd
                   /\ r.len <= Unsent(wbuf'[b].q)
                   /\ asked'[r.id].from = Taken(b, 0)' /\ InStep(b, 0)'
    <3>1. state[fd].op["out"] = state'[fd].op["out"]
      BY <2>1
    <3>2. asked'[state'[fd].op["out"].id] = asked[state'[fd].op["out"].id]
      BY <1>1, <2>1
    <3>3. QED
      BY <1>2, <2>1, <3>1, <3>2 DEF StreamOK, WriteWaits, Untouched
  <2>2. QED
    BY <2>1 DEF WriteWaits
<1>4. WriteHanded(b)'
  <2>1. ASSUME NEW c \in Handed', asked'[c.id].buf = b, b \notin closed'
        PROVE  /\ c.bytes <= Unsent(wbuf'[b].q)
               /\ asked'[c.id].from = Taken(b, 0)' /\ InStep(b, c.bytes)'
    <3>1. c \in Handed /\ asked'[c.id] = asked[c.id]
      BY <1>1, <2>1
    <3>2. QED
      BY <1>2, <2>1, <3>1 DEF StreamOK, WriteHanded, Untouched
  <2>2. QED
    BY <2>1 DEF WriteHanded
<1>5. WriteKnown(b)'
  BY DEF StreamOK, WriteKnown, Untouched
<1>6. WriteRests(b)'
  BY <1>2 DEF StreamOK, WriteRests, Untouched
<1>7. QED
  BY <1>3, <1>4, <1>5, <1>6 DEF StreamOK

LEMMA NothingTouched ==
    ASSUME UNCHANGED <<wbuf, wrote, wire, closed, cut>>
    PROVE  \A b : Untouched(b)
BY DEF Untouched

(* Steps that neither move requests nor touch write_bufs.                  *)
LEMMA QuietKeeps ==
    ASSUME BindInv, TypeOK', DataOK',
           UNCHANGED <<state, sync, out, refs, asked, leaked, wbuf, closed, cut, wrote, wire>>
    PROVE  BindInv'
<1>1. IdsApart' /\ Items' = Items /\ Outstanding' = Outstanding
  BY InvParts, QuietItems
<1>2. RequestsOK'
  BY InvParts DEF RequestsOK
<1>3. QueuesCounted'
  BY InvParts, NothingTouched, UntouchedCounts DEF QueuesCounted
<1>4. PinsKept'
  <2>1. DOMAIN asked' = Outstanding'
    BY <1>1 DEF BindInv, PinsKept
  <2>2. PinsKept
    BY InvParts
  <2>3. PinsHeld' /\ PinsAccounted'
    BY <1>1, <2>2 DEF PinsKept, PinsHeld, PinsAccounted
  <2>4. QED
    BY <1>1, <2>1, <2>2, <2>3 DEF PinsKept
<1>5. KindsKept'
  BY <1>1, InvParts, KindsSame
<1>6. StreamsKept'
  <2>1. Handed' = Handed
    BY DEF Handed
  <2>2. ASSUME NEW b \in WB
        PROVE  StreamOK(b)'
    <3>1. StreamOK(b) /\ Untouched(b) /\ PinsKept
      BY InvParts, NothingTouched DEF StreamsKept
    <3>2. QED
      BY <1>4, <2>1, <3>1, StreamFrame
  <2>3. QED
    BY <2>2 DEF StreamsKept
<1>7. QED
  BY <1>1, <1>2, <1>3, <1>4, <1>5, <1>6 DEF BindInv

-------------------------------------------------------------------------------
LEMMA QuietSteps ==
    ASSUME BindInv,
           \/ InCall \/ Peer \/ UNCHANGED bvars
           \/ \E fd \in Fd : close(fd) \/ open_socket(fd)
           \/ \E rb \in RB, n \in 1..Cap : rb_read(rb, n)
    PROVE  BindInv'
<1>1. TypeOK /\ DataOK
  BY InvParts
<1>2. CASE InCall
  <2>1. Next /\ UNCHANGED <<refs, buffers, asked, leaked, wire, socket, state, sync, out>>
    BY <1>2 DEF InCall, Next, Fetch, Return, backend
  <2>2. TypeOK' /\ DataOK'
    BY <1>1, <2>1, NextTypeOK DEF DataOK, buffers
  <2>3. QED
    BY <2>1, <2>2, QuietKeeps DEF buffers
<1>3. CASE Peer
  <2>1. PICK fd \in Fd, ev \in Happens : Arrive(fd, ev)
    BY <1>3 DEF Peer
  <2>2. Next
    BY <2>1, HappensIsEvents DEF Next
  <2>3. UNCHANGED <<refs, buffers, asked, leaked, wire, socket, state, sync, out>>
    BY <1>3, <2>1 DEF Peer, Arrive, backend, call
  <2>4. TypeOK' /\ DataOK'
    BY <1>1, <2>2, <2>3, NextTypeOK DEF DataOK, buffers
  <2>5. QED
    BY <2>3, <2>4, QuietKeeps DEF buffers
<1>4. CASE UNCHANGED bvars
  <2>1. UNCHANGED vars /\ UNCHANGED <<refs, buffers, asked, leaked, wire, socket>>
    BY <1>4 DEF bvars
  <2>2. UNCHANGED <<state, sync, out>>
    BY <2>1 DEF vars, backend, call
  <2>3. TypeOK' /\ DataOK'
    BY <1>1, <2>1, NextTypeOK DEF DataOK, buffers
  <2>4. QED
    BY <2>1, <2>2, <2>3, QuietKeeps DEF buffers
<1>5. ASSUME NEW fd \in Fd, close(fd)
      PROVE  BindInv'
  <2>1. Next /\ UNCHANGED <<refs, buffers, asked, leaked, wire, socket, state, sync, out>>
    BY <1>5 DEF close, Next, CloseFd, call
  <2>2. TypeOK' /\ DataOK'
    BY <1>1, <2>1, NextTypeOK DEF DataOK, buffers
  <2>3. QED
    BY <2>1, <2>2, QuietKeeps DEF buffers
<1>6. ASSUME NEW fd \in Fd, open_socket(fd)
      PROVE  BindInv'
  <2>1. Next /\ UNCHANGED <<refs, buffers, asked, leaked, wire, state, sync, out>>
    BY <1>6 DEF open_socket, Next, OpenFd, call, backend
  <2>2. socket[fd] < MaxReuse /\ socket' = [socket EXCEPT ![fd] = @ + 1]
    BY <1>6 DEF open_socket
  <2>3. socket' \in [Fd -> 0..MaxReuse]
    BY <1>1, <2>2, BoundFacts DEF DataOK
  <2>4. TypeOK' /\ DataOK'
    BY <1>1, <2>1, <2>3, NextTypeOK DEF DataOK, buffers
  <2>5. QED
    BY <2>1, <2>4, QuietKeeps DEF buffers
<1>7. ASSUME NEW rb \in RB, NEW n \in 1..Cap, rb_read(rb, n)
      PROVE  BindInv'
  <2>1. UNCHANGED <<vars, refs, wbuf, closed, cut, wrote, asked, leaked, wire, socket>>
    BY <1>7 DEF rb_read
  <2>2. UNCHANGED <<state, sync, out>>
    BY <2>1 DEF vars, backend, call
  <2>3. n <= rsize[rb] /\ rsize' = [rsize EXCEPT ![rb] = @ - n]
    BY <1>7 DEF rb_read
  <2>4. rsize' \in [RB -> Nat]
    BY <1>1, <2>3, BoundFacts DEF DataOK
  <2>5. TypeOK' /\ DataOK'
    BY <1>1, <2>1, <2>4, NextTypeOK DEF DataOK
  <2>6. QED
    BY <2>1, <2>2, <2>5, QuietKeeps
<1>8. QED
  BY <1>2, <1>3, <1>4, <1>5, <1>6, <1>7

-------------------------------------------------------------------------------
(* cancel, stop, and a poll over completions that the script abandoned.    *)
LEMMA DropKeeps ==
    ASSUME BindInv, TypeOK', IdsApart', Items' \subseteq Items,
           NEW ids, Forget(ids),
           Outstanding' = Outstanding \ ids, ids \subseteq Outstanding,
           \A i \in DOMAIN sync' : \E j \in DOMAIN sync : sync'[i] = sync[j],
           \A fd \in Fd : state'[fd].op["out"] \in {NoOp, state[fd].op["out"]},
           \A c \in Handed' : c \in Handed \/ \E j \in DOMAIN sync : c = sync[j]
    PROVE  BindInv'
<1>1. /\ PinsKept /\ KindsKept /\ StreamsKept /\ DOMAIN asked = Outstanding
      /\ RequestsOK /\ DataOK /\ QueuesCounted
  BY InvParts
<1>2. /\ UNCHANGED <<refs, buffers, wire, socket>>
      /\ asked' = [id \in DOMAIN asked \ ids |-> asked[id]]
      /\ leaked' = leaked \cup UNION {References(id) : id \in ids}
  BY DEF Forget
<1>3. DOMAIN asked' = Outstanding' /\ \A id \in Outstanding' : asked'[id] = asked[id]
  BY <1>1, <1>2
<1>4. PinsKept'
  <2>1. Outstanding \ Outstanding' = ids
    OBVIOUS
  <2>2. leaked' = leaked \cup UNION {References(id) : id \in Outstanding \ Outstanding'}
    BY <1>2, <2>1
  <2>3. QED
    BY <1>1, <1>2, <1>3, <2>2, DropsKeepPins
<1>5. \A x \in Items' : x.id \in Outstanding'
  BY OutstandingIs
<1>6. KindsKept'
  BY <1>1, <1>3, <1>5, KindsSame
<1>7. RequestsOK' /\ DataOK' /\ QueuesCounted'
  <2>1. RequestsOK'
    BY <1>1, <1>3 DEF RequestsOK
  <2>2. QueuesCounted'
    BY <1>1, <1>2, NothingTouched, UntouchedCounts DEF QueuesCounted, buffers
  <2>3. DataOK'
    BY <1>1, <1>2 DEF DataOK, buffers
  <2>4. QED
    BY <2>1, <2>2, <2>3
<1>8. StreamsKept'
  <2>1. ASSUME NEW b \in WB, NEW c \in Handed', asked'[c.id].buf = b
        PROVE  c \in Handed
    <3>1. c \in Items'
      BY NextItems
    <3>2. c.kind = "write"
      BY <1>6, <2>1, <3>1 DEF KindsKept, KindFits
    <3>3. QED
      BY <1>1, <3>2 DEF KindsKept
  <2>2. ASSUME NEW b \in WB
        PROVE  StreamOK(b)'
    <3>1. StreamOK(b) /\ Untouched(b)
      BY <1>1, <1>2, NothingTouched DEF StreamsKept, buffers
    <3>2. \A id \in DOMAIN asked' : id \in DOMAIN asked /\ asked'[id] = asked[id]
      BY <1>1, <1>3
    <3>3. QED
      BY <1>1, <1>4, <2>1, <3>1, <3>2, StreamFrame
  <2>3. QED
    BY <2>2 DEF StreamsKept
<1>9. QED
  BY <1>4, <1>6, <1>7, <1>8 DEF BindInv

LEMMA PollKeeps ==
    ASSUME BindInv, NEW mode \in {"poll", "wait"}, async_poll(mode)
    PROVE  BindInv'
<1>1. Begin(mode) /\ Forget(Ids(out))
  BY DEF async_poll
<1>2. TypeOK /\ IdsApart
  BY InvParts
<1>3. TypeOK'
  BY <1>1, <1>2, NextTypeOK DEF Next, PollOrWait
<1>4. /\ IdsApart' /\ Items' \subseteq Items
      /\ Outstanding' = Outstanding \ Ids(out)
      /\ \A i \in DOMAIN sync' : \E j \in DOMAIN sync : sync'[i] = sync[j]
      /\ \A c \in Handed' : \E j \in DOMAIN sync : c = sync[j]
  BY <1>1, <1>2, BeginItems
<1>5. state' = state
  BY <1>1 DEF Begin
<1>6. Ids(out) \subseteq Outstanding
  BY DEF Outstanding
<1>7. QED
  BY <1>1, <1>3, <1>4, <1>5, <1>6, DropKeeps

LEMMA CancelKeeps ==
    ASSUME BindInv, NEW fd \in Fd, async_cancel(fd)
    PROVE  BindInv'
<1> DEFINE ids == {r.id : r \in Ops(fd)}
<1>1. Cancel(fd) /\ Forget(ids)
  BY DEF async_cancel
<1>2. TypeOK /\ IdsApart
  BY InvParts
<1>3. TypeOK'
  BY <1>1, <1>2, NextTypeOK DEF Next
<1>4. /\ UNCHANGED <<sync, out>>
      /\ \A f \in Fd, d \in Dir : state'[f].op[d] = IF f = fd THEN NoOp ELSE state[f].op[d]
  BY <1>1, <1>2 DEF Cancel, Idle, TypeOK, call
<1>5. /\ IdsApart' /\ Items' \subseteq Items
      /\ \A id : id \in Outstanding' <=>
             /\ id \in Outstanding
             /\ ~\E f \in Fd, d \in Dir : /\ state[f].op[d] # NoOp /\ state'[f].op[d] = NoOp
                                         /\ id = state[f].op[d].id
  BY <1>2, <1>4, EmptiedItems
<1>6. \A id : id \in ids <=> \E d \in Dir : state[fd].op[d] # NoOp /\ id = state[fd].op[d].id
  BY DEF Ops, Mask
<1>7. ids \subseteq Outstanding
  BY <1>6, PendingIs DEF Outstanding
<1> HIDE DEF ids
<1>8. Outstanding' = Outstanding \ ids
  <2>1. ASSUME NEW id \in Outstanding
        PROVE  (\E f \in Fd, d \in Dir : /\ state[f].op[d] # NoOp /\ state'[f].op[d] = NoOp
                                          /\ id = state[f].op[d].id) <=> id \in ids
    <3>1. ASSUME NEW f \in Fd, NEW d \in Dir, state[f].op[d] # NoOp, state'[f].op[d] = NoOp,
                 id = state[f].op[d].id
          PROVE  id \in ids
      BY <1>4, <1>6, <3>1
    <3>2. ASSUME id \in ids
          PROVE  \E f \in Fd, d \in Dir : /\ state[f].op[d] # NoOp /\ state'[f].op[d] = NoOp
                                           /\ id = state[f].op[d].id
      BY <1>4, <1>6, <3>2
    <3>3. QED
      BY <3>1, <3>2
  <2>2. QED
    BY <1>5, <2>1
<1>9. "out" \in Dir /\ Handed' = Handed
  BY <1>4 DEF Dir, Handed
<1>10. QED
  BY <1>1, <1>3, <1>4, <1>5, <1>7, <1>8, <1>9, DropKeeps

LEMMA StopKeeps ==
    ASSUME BindInv, async_stop
    PROVE  BindInv'
<1> DEFINE ids == UNION {{r.id : r \in Ops(fd)} : fd \in Fd}
<1>1. Stop /\ Forget(ids)
  BY DEF async_stop
<1>2. TypeOK /\ IdsApart
  BY InvParts
<1>3. TypeOK'
  BY <1>1, <1>2, NextTypeOK DEF Next
<1>4. /\ UNCHANGED <<sync, out>>
      /\ \A f \in Fd, d \in Dir : state'[f].op[d] = NoOp
  BY <1>1, <1>2 DEF Stop, Idle, call
<1>5. /\ IdsApart' /\ Items' \subseteq Items
      /\ \A id : id \in Outstanding' <=>
             /\ id \in Outstanding
             /\ ~\E f \in Fd, d \in Dir : /\ state[f].op[d] # NoOp /\ state'[f].op[d] = NoOp
                                         /\ id = state[f].op[d].id
  BY <1>2, <1>4, EmptiedItems
<1>6. \A id : id \in ids <=>
          \E f \in Fd, d \in Dir : state[f].op[d] # NoOp /\ id = state[f].op[d].id
  BY DEF Ops, Mask
<1>7. ids \subseteq Outstanding
  BY <1>6, PendingIs DEF Outstanding
<1> HIDE DEF ids
<1>8. Outstanding' = Outstanding \ ids
  BY <1>4, <1>5, <1>6
<1>9. "out" \in Dir /\ Handed' = Handed
  BY <1>4 DEF Dir, Handed
<1>10. QED
  BY <1>1, <1>3, <1>4, <1>5, <1>7, <1>8, <1>9, DropKeeps

-------------------------------------------------------------------------------
(* A submission that the backend refuses.                                  *)
LEMMA RefusedKeeps ==
    ASSUME BindInv, NEW p, NEW buf, NEW tok, Pinned(p, buf, tok), Refused(p),
           UNCHANGED <<call, buffers, leaked, wire, socket>>
    PROVE  BindInv'
<1>1. /\ TypeOK /\ IdsApart /\ DataOK /\ RequestsOK /\ QueuesCounted
      /\ PinsKept /\ KindsKept /\ StreamsKept
  BY InvParts
<1>2. UNCHANGED <<backend, world, asked>>
  BY DEF Refused
<1>3. UNCHANGED vars /\ UNCHANGED <<state, sync, out>>
  BY <1>2 DEF vars, backend, call
<1>4. TypeOK'
  BY <1>1, <1>3, NextTypeOK
<1>5. IdsApart' /\ Items' = Items /\ Outstanding' = Outstanding
  BY <1>1, <1>3, QuietItems
<1>6. PinsKept'
  BY <1>1, <1>5, RefusalKeepsPins
<1>7. KindsKept'
  BY <1>1, <1>2, <1>3, <1>5, KindsSame
<1>8. RequestsOK' /\ DataOK' /\ QueuesCounted'
  <2>1. QueuesCounted'
    BY <1>1, NothingTouched, UntouchedCounts DEF QueuesCounted, buffers
  <2>2. QED
    BY <1>1, <1>2, <2>1 DEF DataOK, RequestsOK, buffers
<1>9. StreamsKept'
  <2>1. Handed' = Handed
    BY <1>3 DEF Handed
  <2>2. ASSUME NEW b \in WB
        PROVE  StreamOK(b)'
    <3>1. StreamOK(b) /\ Untouched(b)
      BY <1>1, NothingTouched DEF StreamsKept, buffers
    <3>2. QED
      BY <1>1, <1>2, <1>3, <1>6, <2>1, <3>1, StreamFrame
  <2>3. QED
    BY <2>2 DEF StreamsKept
<1>10. QED
  BY <1>4, <1>5, <1>6, <1>7, <1>8, <1>9 DEF BindInv

(* One that it accepts: the books, whatever the request is for.            *)
Booked(r, info) ==
    /\ TypeOK' /\ IdsApart' /\ RequestsOK' /\ PinsKept' /\ KindsKept'
    /\ DOMAIN asked' = Outstanding \cup {r.id} /\ r.id \notin Outstanding
    /\ asked'[r.id] = info
    /\ \A id \in Outstanding : asked'[id] = asked[id]

LEMMA AcceptedFacts ==
    ASSUME BindInv, NEW p, NEW info \in RequestInfo, Pinned(p, info.buf, info.tok),
           Accepted(p, info)
    PROVE  /\ p.id \notin Outstanding /\ p.id \in Id
           /\ DOMAIN asked' = Outstanding \cup {p.id}
           /\ asked'[p.id] = info /\ \A id \in Outstanding : asked'[id] = asked[id]
           /\ RequestsOK'
<1>1. p.id \notin Outstanding
  BY InvParts, PinnedIsNew DEF Accepted
<1>2. p.id \in Id
  BY PairsAreIds DEF Pinned
<1>3. /\ DOMAIN asked' = Outstanding \cup {p.id}
      /\ asked'[p.id] = info /\ \A id \in Outstanding : asked'[id] = asked[id]
  BY <1>1 DEF Accepted
<1>4. RequestsOK'
  BY <1>3, InvParts DEF RequestsOK
<1>5. QED
  BY <1>1, <1>2, <1>3, <1>4

LEMMA SubmitBooked ==
    ASSUME BindInv, NEW p, NEW info \in RequestInfo, Pinned(p, info.buf, info.tok),
           Accepted(p, info), UNCHANGED <<call, leaked>>,
           NEW fd \in Fd, NEW d \in Dir, NEW r \in Request, r.id = p.id,
           d = "in" => r.kind \in InKind, d = "out" => r.kind \in OutKind,
           Submit(fd, d, r), KindFits(r, info)
    PROVE  Booked(r, info)
<1>1. /\ TypeOK /\ IdsApart /\ PinsKept /\ KindsKept /\ DOMAIN asked = Outstanding
  BY InvParts
<1>2. /\ r.id \notin Outstanding /\ DOMAIN asked' = Outstanding \cup {r.id}
      /\ asked'[r.id] = info /\ \A id \in Outstanding : asked'[id] = asked[id]
      /\ RequestsOK'
  BY AcceptedFacts
<1>3. out' = out /\ CallOK'
  BY <1>1, TypeParts DEF call, CallOK
<1>4. TypeOK'
  BY <1>1, <1>3, SubmitTypeOK, TypePartsNext
<1>5. /\ IdsApart' /\ Items' = Items \cup {r} /\ Outstanding' = Outstanding \cup {r.id}
      /\ sync' = sync
  BY <1>1, <1>2, <1>3, SubmitItems DEF Submit
<1>6. PinsKept'
  BY <1>1, <1>5, AcceptKeepsPins
<1>7. KindsKept'
  <2>1. ASSUME NEW x \in Items'
        PROVE  \/ \E y \in Items : /\ y.id = x.id /\ y.kind = x.kind
                                   /\ asked'[x.id].buf = asked[x.id].buf
               \/ KindFits(x, asked'[x.id])
    <3>1. CASE x \in Items
      BY <1>2, <3>1, OutstandingIs
    <3>2. CASE x = r
      BY <1>2, <3>2
    <3>3. QED
      BY <1>5, <3>1, <3>2
  <2>2. QED
    BY <1>1, <1>5, <2>1, KindsNext
<1>8. QED
  BY <1>2, <1>4, <1>5, <1>6, <1>7 DEF Booked

LEMMA QueueBooked ==
    ASSUME BindInv, NEW p, NEW info \in RequestInfo, Pinned(p, info.buf, info.tok),
           Accepted(p, info), UNCHANGED <<call, leaked>>,
           NEW r \in Request, r.id = p.id, NEW status \in Status, NEW n \in 0..r.len,
           Queue(r, status, n), KindFits(r, info), r.kind \notin {"read", "write"}
    PROVE  Booked(r, info)
<1>1. /\ TypeOK /\ IdsApart /\ PinsKept /\ KindsKept /\ DOMAIN asked = Outstanding
  BY InvParts
<1>2. /\ r.id \notin Outstanding /\ DOMAIN asked' = Outstanding \cup {r.id}
      /\ asked'[r.id] = info /\ \A id \in Outstanding : asked'[id] = asked[id]
      /\ RequestsOK'
  BY AcceptedFacts
<1>3. out' = out /\ CallOK'
  BY <1>1, TypeParts DEF call, CallOK
<1>4. TypeOK'
  BY <1>1, <1>3, QueueTypeOK, TypePartsNext
<1>5. /\ IdsApart' /\ Outstanding' = Outstanding \cup {r.id}
      /\ \A x \in Items' : x \in Items \/ (x.id = r.id /\ x.kind = r.kind)
      /\ \A i \in DOMAIN sync' : (i \in DOMAIN sync /\ sync'[i] = sync[i])
                                 \/ sync'[i].kind = r.kind
  BY <1>1, <1>2, <1>3, QueueItems
<1>6. PinsKept'
  BY <1>1, <1>5, AcceptKeepsPins
<1>7. KindsKept'
  <2>1. ASSUME NEW x \in Items'
        PROVE  \/ \E y \in Items : /\ y.id = x.id /\ y.kind = x.kind
                                   /\ asked'[x.id].buf = asked[x.id].buf
               \/ KindFits(x, asked'[x.id])
    <3>1. CASE x \in Items
      BY <1>2, <3>1, OutstandingIs
    <3>2. CASE x.id = r.id /\ x.kind = r.kind
      BY <1>2, <3>2 DEF KindFits
    <3>3. QED
      BY <1>5, <3>1, <3>2
  <2>2. QED
    BY <1>1, <1>5, <2>1, KindsNext
<1>8. QED
  BY <1>2, <1>4, <1>5, <1>6, <1>7 DEF Booked

-------------------------------------------------------------------------------
(* The submissions of the script.                                          *)

LEMMA InfoTyped ==
    ASSUME NEW buf \in RB \cup {Other, NIL}, NEW tok \in Udata
    PROVE  Info(buf, tok) \in RequestInfo /\ Info(buf, tok).buf = buf /\ Info(buf, tok).tok = tok
BY BoundFacts DEF Info, RequestInfo

(* A request that has nothing to do with a write_buf leaves the streams.   *)
LEMMA BookedKeeps ==
    ASSUME BindInv, NEW r, NEW info, Booked(r, info), info.buf \notin WB,
           UNCHANGED <<out, buffers, wire, socket>>,
           \A f \in Fd : state'[f].op["out"] \in {r, state[f].op["out"]}
    PROVE  BindInv'
<1>1. /\ DataOK /\ QueuesCounted /\ StreamsKept /\ PinsKept /\ DOMAIN asked = Outstanding
  BY InvParts
<1>2. /\ TypeOK' /\ IdsApart' /\ RequestsOK' /\ PinsKept' /\ KindsKept'
      /\ DOMAIN asked' = Outstanding \cup {r.id}
      /\ asked'[r.id] = info /\ \A id \in Outstanding : asked'[id] = asked[id]
  BY DEF Booked
<1>3. DataOK' /\ QueuesCounted'
  <2>1. QueuesCounted'
    BY <1>1, NothingTouched, UntouchedCounts DEF QueuesCounted, buffers
  <2>2. QED
    BY <1>1, <2>1 DEF DataOK, buffers
<1>4. StreamsKept'
  <2>1. Handed' = Handed
    BY DEF Handed
  <2>2. ASSUME NEW b \in WB
        PROVE  StreamOK(b)'
    <3>1. StreamOK(b) /\ Untouched(b)
      BY <1>1, NothingTouched DEF StreamsKept, buffers
    <3>2. asked'[r.id].buf # b
      BY <1>2
    <3>3. \A fd \in Fd : LET s == state'[fd].op["out"]
                         IN  s # NoOp /\ asked'[s.id].buf = b => state[fd].op["out"] = s
      BY <3>2
    <3>4. \A id \in DOMAIN asked' : asked'[id].buf = b =>
              id \in DOMAIN asked /\ asked'[id] = asked[id]
      BY <1>1, <1>2, <3>2
    <3>5. QED
      BY <1>1, <1>2, <2>1, <3>1, <3>3, <3>4, StreamFrame
  <2>3. QED
    BY <2>2 DEF StreamsKept
<1>5. QED
  BY <1>2, <1>3, <1>4 DEF BindInv

LEMMA SubmittedKeeps ==
    ASSUME BindInv, NEW p, NEW buf \in RB \cup {Other, NIL}, NEW tok \in Udata,
           Pinned(p, buf, tok), Accepted(p, Info(buf, tok)),
           NEW fd \in Fd, NEW d \in Dir, NEW r \in Request, r.id = p.id,
           d = "in" => r.kind \in InKind, d = "out" => r.kind \in OutKind,
           Submit(fd, d, r), KindFits(r, Info(buf, tok)),
           UNCHANGED <<call, buffers, leaked, wire, socket>>
    PROVE  BindInv'
<1>1. Info(buf, tok) \in RequestInfo /\ Info(buf, tok).buf = buf /\ Info(buf, tok).tok = tok
  BY InfoTyped
<1>2. buf \notin WB
  BY BuffersDiffer
<1>3. Booked(r, Info(buf, tok))
  BY <1>1, SubmitBooked
<1>4. out' = out /\ "out" \in Dir
  BY DEF call, Dir
<1>5. \A f \in Fd : state'[f].op["out"] \in {r, state[f].op["out"]}
  BY <1>4, InvParts, SubmitSlots
<1>6. QED
  BY <1>1, <1>2, <1>3, <1>4, <1>5, BookedKeeps

LEMMA QueuedKeeps ==
    ASSUME BindInv, NEW p, NEW buf \in RB \cup {Other, NIL}, NEW tok \in Udata,
           Pinned(p, buf, tok), Accepted(p, Info(buf, tok)),
           NEW r \in Request, r.id = p.id, NEW status \in Status, NEW n \in 0..r.len,
           Queue(r, status, n), KindFits(r, Info(buf, tok)), r.kind \notin {"read", "write"},
           UNCHANGED <<call, buffers, leaked, wire, socket>>
    PROVE  BindInv'
<1>1. Info(buf, tok) \in RequestInfo /\ Info(buf, tok).buf = buf /\ Info(buf, tok).tok = tok
  BY InfoTyped
<1>2. buf \notin WB
  BY BuffersDiffer
<1>3. Booked(r, Info(buf, tok))
  BY <1>1, QueueBooked
<1>4. out' = out /\ state' = state
  BY DEF call, Queue
<1>5. QED
  BY <1>1, <1>2, <1>3, <1>4, BookedKeeps

LEMMA ReadKeeps ==
    ASSUME BindInv, NEW fd \in Fd, NEW rb \in RB, NEW tok \in Udata,
           async_submit_read(fd, rb, tok)
    PROVE  BindInv'
<1>1. PICK p \in Pin(rb, tok) :
          \/ /\ SubmitIn(fd, [id |-> p.id, kind |-> "read", len |-> FreeCap(rb)])
             /\ Accepted(p, Info(rb, tok))
          \/ Refused(p)
  BY DEF async_submit_read
<1>2. UNCHANGED <<call, buffers, leaked, wire, socket>> /\ FreeCap(rb) > 0
  BY DEF async_submit_read
<1>3. rb \in Values /\ tok \in Values
  BY DEF Values
<1>4. Pinned(p, rb, tok) /\ p.id[1] # 0
  BY <1>1, <1>3, InvParts, PinFacts DEF PinsKept
<1>5. CASE Refused(p)
  BY <1>2, <1>4, <1>5, RefusedKeeps
<1>6. CASE SubmitIn(fd, [id |-> p.id, kind |-> "read", len |-> FreeCap(rb)])
           /\ Accepted(p, Info(rb, tok))
  <2> DEFINE r == [id |-> p.id, kind |-> "read", len |-> FreeCap(rb)]
  <2>1. FreeCap(rb) \in 1..MaxLen
    <3>1. rsize[rb] \in Nat
      BY InvParts DEF DataOK
    <3>2. QED
      BY <1>2, <3>1, BoundFacts DEF FreeCap
  <2>2. r \in Request /\ r.id = p.id /\ r.kind = "read"
    <3>1. p.id \in Id
      BY <1>4, PairsAreIds DEF Pinned
    <3>2. QED
      BY <2>1, <3>1 DEF Request, Kind, InKind
  <2>3. KindFits(r, Info(rb, tok))
    BY <1>4, <2>2, BuffersDiffer, InfoTyped DEF KindFits
  <2>4. Submit(fd, "in", r) /\ "in" \in Dir /\ r.kind \in InKind /\ "in" # "out"
    BY <1>6 DEF SubmitIn, Dir
  <2> HIDE DEF r
  <2>5. QED
    BY <1>2, <1>4, <1>6, <2>2, <2>3, <2>4, SubmittedKeeps
<1>7. QED
  BY <1>1, <1>5, <1>6

LEMMA UdataKeeps ==
    ASSUME BindInv, NEW fd \in Fd, NEW kind \in {"accept", "fd_poll"}, NEW tok \in Udata,
           async_submit_udata(fd, kind, tok)
    PROVE  BindInv'
<1>1. PICK p \in PinUdata(tok) :
          \/ /\ SubmitIn(fd, [id |-> p.id, kind |-> kind, len |-> 1])
             /\ Accepted(p, Info(NIL, tok))
          \/ Refused(p)
  BY DEF async_submit_udata
<1>2. UNCHANGED <<call, buffers, leaked, wire, socket>>
  BY DEF async_submit_udata
<1>3. tok \in Values
  BY DEF Values
<1>4. Pinned(p, NIL, tok)
  BY <1>1, <1>3, InvParts, PinUdataFacts DEF PinsKept
<1>5. CASE Refused(p)
  BY <1>2, <1>4, <1>5, RefusedKeeps
<1>6. CASE SubmitIn(fd, [id |-> p.id, kind |-> kind, len |-> 1]) /\ Accepted(p, Info(NIL, tok))
  <2> DEFINE r == [id |-> p.id, kind |-> kind, len |-> 1]
  <2>1. r \in Request /\ r.id = p.id /\ r.kind = kind
    <3>1. p.id \in Id
      BY <1>4, PairsAreIds DEF Pinned
    <3>2. QED
      BY <3>1, BoundFacts, MaxLenIsPositive DEF Request, Kind, InKind
  <2>2. KindFits(r, Info(NIL, tok))
    BY <2>1, BuffersDiffer, InfoTyped DEF KindFits
  <2>3. Submit(fd, "in", r) /\ "in" \in Dir /\ r.kind \in InKind /\ "in" # "out"
    BY <1>6 DEF SubmitIn, Dir
  <2> HIDE DEF r
  <2>4. QED
    BY <1>2, <1>4, <1>6, <2>1, <2>2, <2>3, SubmittedKeeps
<1>7. QED
  BY <1>1, <1>5, <1>6

LEMMA ConnectKeeps ==
    ASSUME BindInv, NEW fd \in Fd, NEW tok \in Udata, async_submit_connect(fd, tok)
    PROVE  BindInv'
<1>1. PICK p \in Pin(Other, tok) :
          \/ /\ SubmitConnect(fd, [id |-> p.id, kind |-> "connect", len |-> 1])
             /\ Accepted(p, Info(Other, tok))
          \/ Refused(p)
  BY DEF async_submit_connect
<1>2. UNCHANGED <<call, buffers, leaked, wire, socket>>
  BY DEF async_submit_connect
<1>3. Other \in Values /\ tok \in Values
  BY DEF Values
<1>4. Pinned(p, Other, tok)
  BY <1>1, <1>3, InvParts, PinFacts DEF PinsKept
<1>5. CASE Refused(p)
  BY <1>2, <1>4, <1>5, RefusedKeeps
<1>6. CASE SubmitConnect(fd, [id |-> p.id, kind |-> "connect", len |-> 1])
           /\ Accepted(p, Info(Other, tok))
  <2> DEFINE r == [id |-> p.id, kind |-> "connect", len |-> 1]
  <2>1. r \in Request /\ r.id = p.id /\ r.kind = "connect" /\ r.len = 1
    <3>1. p.id \in Id
      BY <1>4, PairsAreIds DEF Pinned
    <3>2. QED
      BY <3>1, BoundFacts, MaxLenIsPositive DEF Request, Kind, OutKind
  <2>2. KindFits(r, Info(Other, tok))
    BY <2>1, BuffersDiffer, InfoTyped DEF KindFits
  <2>3. Queue(r, "success", 0) \/ Submit(fd, "out", r)
    BY <1>6 DEF SubmitConnect
  <2>4. "out" \in Dir /\ r.kind \in OutKind /\ "in" # "out" /\ "success" \in Status /\ 0 \in 0..r.len
    BY <2>1, StatusOK DEF Dir, OutKind
  <2> HIDE DEF r
  <2>5. CASE Submit(fd, "out", r)
    BY <1>2, <1>4, <1>6, <2>1, <2>2, <2>4, <2>5, SubmittedKeeps
  <2>6. CASE Queue(r, "success", 0)
    <3>1. r.kind \notin {"read", "write"}
      BY <2>1
    <3>2. QED
      BY <1>2, <1>4, <1>6, <2>1, <2>2, <2>4, <2>6, <3>1, QueuedKeeps
  <2>7. QED
    BY <2>3, <2>5, <2>6
<1>7. QED
  BY <1>1, <1>5, <1>6

LEMMA FileKeeps ==
    ASSUME BindInv, NEW kind \in FileKind, NEW tok \in Udata, async_submit_file(kind, tok)
    PROVE  BindInv'
<1>1. PICK p \in Pin(Other, tok) :
          /\ SubmitFile([id |-> p.id, kind |-> kind, len |-> 1])
          /\ Accepted(p, Info(Other, tok))
  BY DEF async_submit_file
<1>2. UNCHANGED <<call, buffers, leaked, wire, socket>>
  BY DEF async_submit_file
<1>3. Other \in Values /\ tok \in Values
  BY DEF Values
<1>4. Pinned(p, Other, tok)
  BY <1>1, <1>3, InvParts, PinFacts DEF PinsKept
<1> DEFINE r == [id |-> p.id, kind |-> kind, len |-> 1]
<1>5. r \in Request /\ r.id = p.id /\ r.kind = kind /\ r.len = 1
  <2>1. p.id \in Id
    BY <1>4, PairsAreIds DEF Pinned
  <2>2. QED
    BY <2>1, BoundFacts, MaxLenIsPositive DEF Request, Kind, FileKind
<1>6. KindFits(r, Info(Other, tok)) /\ r.kind \notin {"read", "write"}
  BY <1>5, BuffersDiffer, InfoTyped DEF KindFits, FileKind
<1>7. \E status \in Status, n \in 0..r.len : Queue(r, status, n)
  BY <1>1, <1>5, StatusOK DEF SubmitFile
<1> HIDE DEF r
<1>8. QED
  BY <1>1, <1>2, <1>4, <1>5, <1>6, <1>7, QueuedKeeps

-------------------------------------------------------------------------------
(* The write_buf.                                                          *)

LEMMA BufferFacts ==
    ASSUME DataOK, NEW b \in WB
    PROVE  /\ wbuf[b] \in Buffer /\ wbuf[b].q \in Seq(Entries)
           /\ wbuf[b].buffered \in Int /\ wbuf[b].flying \in BOOLEAN
           /\ wrote[b] \in 0..MaxWrote /\ wire[b] \in 0..MaxWrote
           /\ wrote[b] \in Nat /\ wire[b] \in Nat
           /\ Queued(wbuf[b].q) \in Nat /\ Unsent(wbuf[b].q) \in Nat
<1>1. /\ wbuf[b] \in Buffer /\ wrote[b] \in 0..MaxWrote /\ wire[b] \in 0..MaxWrote
  BY DEF DataOK
<1>2. /\ wbuf[b].q \in Seq(Entries)
      /\ wbuf[b].buffered \in Int /\ wbuf[b].flying \in BOOLEAN
  BY <1>1 DEF Buffer
<1>3. wrote[b] \in Nat /\ wire[b] \in Nat
  BY <1>1, BoundFacts
<1>4. QED
  BY <1>1, <1>2, <1>3, QueueCounts

(* The streams but one.                                                    *)
LEMMA OtherStreams ==
    ASSUME BindInv, PinsKept', NEW wb \in WB, StreamOK(wb)',
           \A b \in WB \ {wb} : Untouched(b),
           \A f \in Fd : LET s == state'[f].op["out"]
                         IN  s # NoOp /\ asked'[s.id].buf # wb => state[f].op["out"] = s,
           \A c \in Handed' : c \in Handed,
           \A id \in DOMAIN asked' : asked'[id].buf # wb =>
               id \in DOMAIN asked /\ asked'[id] = asked[id]
    PROVE  StreamsKept'
<1>1. ASSUME NEW b \in WB, b # wb
      PROVE  StreamOK(b)'
  <2>1. StreamOK(b) /\ Untouched(b) /\ PinsKept
    BY <1>1, InvParts DEF StreamsKept
  <2>2. QED
    BY <1>1, <2>1, StreamFrame
<1>2. QED
  BY <1>1 DEF StreamsKept

LEMMA OtherCounts ==
    ASSUME QueuesCounted, NEW wb \in WB, QueueCounted(wb)',
           \A b \in WB \ {wb} : Untouched(b)
    PROVE  QueuesCounted'
BY UntouchedCounts DEF QueuesCounted

Changed(v, q, n) == [v EXCEPT !.q = q, !.buffered = n]

LEMMA BufferChanged ==
    ASSUME NEW v \in Buffer, NEW q \in Seq(Entries), NEW n \in Int
    PROVE  /\ Changed(v, q, n) \in Buffer
           /\ Changed(v, q, n).q = q /\ Changed(v, q, n).buffered = n
           /\ Changed(v, q, n).flying = v.flying
           /\ Changed(v, q, n).id = v.id /\ Changed(v, q, n).fd = v.fd
<1>1. v \in [q : Seq(Entries), buffered : Int, flying : BOOLEAN,
             fd : Fd \cup {NoOp}, id : Id \cup {NoOp}]
  BY DEF Buffer
<1>2. Changed(v, q, n) \in [q : Seq(Entries), buffered : Int, flying : BOOLEAN,
                            fd : Fd \cup {NoOp}, id : Id \cup {NoOp}]
  BY <1>1 DEF Changed
<1>3. /\ Changed(v, q, n).q = q /\ Changed(v, q, n).buffered = n
      /\ Changed(v, q, n).flying = v.flying
      /\ Changed(v, q, n).id = v.id /\ Changed(v, q, n).fd = v.fd
  BY <1>1 DEF Changed
<1>4. QED
  BY <1>2, <1>3 DEF Buffer

LEMMA WbWriteKeeps ==
    ASSUME BindInv, NEW wb \in WB, NEW n \in 1..2, wb_write(wb, n)
    PROVE  BindInv'
<1>1. /\ TypeOK /\ IdsApart /\ DataOK /\ RequestsOK /\ QueuesCounted
      /\ PinsKept /\ KindsKept /\ StreamsKept /\ StreamOK(wb) /\ QueueCounted(wb)
  BY InvParts DEF StreamsKept, QueuesCounted
<1> DEFINE e == [len |-> n, offset |-> 0]
           w == [wbuf[wb] EXCEPT !.q = Append(wbuf[wb].q, e), !.buffered = wbuf[wb].buffered + n]
<1>2. /\ wb \notin closed /\ wrote[wb] + n <= MaxWrote
      /\ wbuf' = [wbuf EXCEPT ![wb] = w]
      /\ wrote' = [wrote EXCEPT ![wb] = @ + n]
      /\ UNCHANGED <<vars, refs, rsize, closed, cut, asked, leaked, wire, socket>>
  BY DEF wb_write
<1>3. UNCHANGED <<state, sync, out>>
  BY <1>2 DEF vars, backend, call
<1>4. /\ wbuf[wb] \in Buffer /\ wbuf[wb].q \in Seq(Entries)
      /\ wbuf[wb].buffered \in Int /\ wrote[wb] \in Nat /\ wire[wb] \in Nat
      /\ Unsent(wbuf[wb].q) \in Nat /\ Queued(wbuf[wb].q) \in Nat
  BY <1>1, BufferFacts
<1>5. e \in Entries /\ e.len = n /\ e.offset = 0 /\ n \in Nat /\ n > 0
  BY <1>2, <1>4, BoundFacts DEF Entries
<1>6. /\ Append(wbuf[wb].q, e) \in Seq(Entries)
      /\ Queued(Append(wbuf[wb].q, e)) = Queued(wbuf[wb].q) + n
      /\ Unsent(Append(wbuf[wb].q, e)) = Unsent(wbuf[wb].q) + n
  <2>1. /\ Append(wbuf[wb].q, e) \in Seq(Entries)
        /\ Queued(Append(wbuf[wb].q, e)) = Queued(wbuf[wb].q) + e.len
        /\ Unsent(Append(wbuf[wb].q, e)) = Unsent(wbuf[wb].q) + (e.len - e.offset)
    BY <1>4, <1>5, QueueAppended
  <2>2. e.len - e.offset = n
    BY <1>5
  <2> HIDE DEF e
  <2>3. QED
    BY <1>5, <2>1, <2>2
<1>7. /\ w \in Buffer /\ w.q = Append(wbuf[wb].q, e) /\ w.buffered = wbuf[wb].buffered + n
      /\ w.flying = wbuf[wb].flying /\ w.id = wbuf[wb].id /\ w.fd = wbuf[wb].fd
  <2>1. wbuf[wb].buffered + n \in Int
    BY <1>4, <1>5
  <2>2. w = Changed(wbuf[wb], Append(wbuf[wb].q, e), wbuf[wb].buffered + n)
    BY DEF Changed
  <2> HIDE DEF w, e
  <2> DEFINE v == wbuf[wb]
             q == Append(wbuf[wb].q, e)
             buffered == wbuf[wb].buffered + n
  <2>3. v \in Buffer /\ q \in Seq(Entries) /\ buffered \in Int /\ w = Changed(v, q, buffered)
    BY <1>4, <1>6, <2>1, <2>2
  <2> HIDE DEF v, q, buffered
  <2>4. /\ w \in Buffer /\ w.q = q /\ w.buffered = buffered
        /\ w.flying = v.flying /\ w.id = v.id /\ w.fd = v.fd
    BY <2>3, BufferChanged
  <2>5. QED
    BY <2>4 DEF v, q, buffered
<1> HIDE DEF e, w
<1>8. /\ wbuf'[wb] = w /\ wrote'[wb] = wrote[wb] + n /\ wire'[wb] = wire[wb]
      /\ \A b \in WB \ {wb} : Untouched(b)
  BY <1>1, <1>2 DEF DataOK, Untouched
<1>9. DataOK'
  <2>1. wbuf' \in [WB -> Buffer]
    BY <1>1, <1>2, <1>7 DEF DataOK
  <2>2. wrote' \in [WB -> 0..MaxWrote]
    BY <1>1, <1>2, <1>4, <1>5, BoundFacts DEF DataOK
  <2>3. QED
    BY <1>1, <1>2, <2>1, <2>2 DEF DataOK
<1>10. QueuesCounted'
  <2>1. QueueCounted(wb)'
    <3> DEFINE buffered == wbuf[wb].buffered
               queued == Queued(wbuf[wb].q)
               unsent == Unsent(wbuf[wb].q)
               before == wrote[wb]
    <3>1. /\ buffered = queued /\ buffered <= before /\ unsent <= before
          /\ buffered \in Int /\ before \in Nat /\ unsent \in Nat /\ n \in Nat
      BY <1>1, <1>4, <1>5 DEF QueueCounted
    <3>2. /\ wbuf'[wb].buffered = buffered + n /\ Queued(wbuf'[wb].q) = queued + n
          /\ Unsent(wbuf'[wb].q) = unsent + n /\ wrote'[wb] = before + n
      BY <1>6, <1>7, <1>8
    <3> HIDE DEF buffered, queued, unsent, before
    <3>3. /\ wbuf'[wb].buffered = Queued(wbuf'[wb].q) /\ wbuf'[wb].buffered <= wrote'[wb]
          /\ Unsent(wbuf'[wb].q) <= wrote'[wb]
      BY <3>1, <3>2
    <3>4. QED
      BY <1>2, <3>3 DEF QueueCounted
  <2>2. QED
    BY <1>1, <1>8, <2>1, OtherCounts
<1>11. TypeOK'
  BY <1>1, <1>2, NextTypeOK
<1>12. IdsApart' /\ Items' = Items /\ Outstanding' = Outstanding
  BY <1>1, <1>3, QuietItems
<1>13. PinsKept'
  <2>1. \A id \in Outstanding' : asked'[id].buf = asked[id].buf /\ asked'[id].tok = asked[id].tok
    BY <1>2
  <2>2. DOMAIN asked' = Outstanding'
    BY <1>1, <1>2, <1>12 DEF PinsKept
  <2>3. leaked' = leaked \cup UNION {References(id) : id \in Outstanding \ Outstanding'}
    BY <1>2, <1>12
  <2>4. QED
    BY <1>1, <1>2, <1>12, <2>1, <2>2, <2>3, DropsKeepPins
<1>14. KindsKept'
  BY <1>1, <1>2, <1>3, <1>12, KindsSame
<1>15. Handed' = Handed
  BY <1>3 DEF Handed
<1>16. \A m \in Nat : Taken(wb, m)' = Taken(wb, m) /\ (InStep(wb, m)' <=> InStep(wb, m))
  <2>1. ASSUME NEW m \in Nat
        PROVE  Taken(wb, m)' = Taken(wb, m)
    <3> DEFINE unsent == Unsent(wbuf[wb].q)
               before == wrote[wb]
    <3>1. unsent \in Nat /\ before \in Nat /\ n \in Nat
      BY <1>4, <1>5
    <3>2. Unsent(wbuf'[wb].q) = unsent + n /\ wrote'[wb] = before + n
      BY <1>6, <1>7, <1>8
    <3>3. Taken(wb, m) = before - unsent + m
      BY DEF Taken
    <3> HIDE DEF unsent, before
    <3>4. Taken(wb, m)' = (before + n) - (unsent + n) + m
      BY <3>2 DEF Taken
    <3>5. QED
      BY <3>1, <3>3, <3>4
  <2>2. QED
    BY <1>2, <1>8, <2>1 DEF InStep
<1>17. Unsent(wbuf'[wb].q) = Unsent(wbuf[wb].q) + n
  BY <1>6, <1>7, <1>8
<1>18. StreamOK(wb)'
  <2>1. WriteWaits(wb)'
    <3>1. ASSUME NEW fd \in Fd, state[fd].op["out"] # NoOp,
                 asked[state[fd].op["out"].id].buf = wb
          PROVE  state[fd].op["out"].len <= Unsent(wbuf'[wb].q)
      <4>1. state[fd].op["out"].len <= Unsent(wbuf[wb].q)
        BY <1>1, <3>1 DEF StreamOK, WriteWaits
      <4>2. state[fd].op["out"].len \in Nat
        <5>1. "out" \in Dir
          BY DEF Dir
        <5>2. state[fd].op["out"] \in Request
          BY <1>1, <3>1, <5>1 DEF TypeOK
        <5>3. QED
          BY <5>2, ConstantFacts DEF Request
      <4>3. QED
        BY <1>4, <1>5, <1>17, <4>1, <4>2
    <3>2. QED
      BY <1>1, <1>2, <1>3, <1>16, <3>1 DEF StreamOK, WriteWaits
  <2>2. WriteHanded(wb)'
    <3>1. ASSUME NEW c \in Handed, asked[c.id].buf = wb, wb \notin closed
          PROVE  /\ c.bytes <= Unsent(wbuf'[wb].q)
                 /\ asked[c.id].from = Taken(wb, 0)' /\ InStep(wb, c.bytes)'
      <4>1. c.bytes \in Nat
        BY <1>1, SequenceFacts, ConstantFacts DEF Handed, Completion
      <4>2. /\ c.bytes <= Unsent(wbuf[wb].q)
            /\ asked[c.id].from = Taken(wb, 0) /\ InStep(wb, c.bytes)
        BY <1>1, <3>1 DEF StreamOK, WriteHanded
      <4>3. QED
        BY <1>4, <1>5, <1>16, <1>17, <4>1, <4>2
    <3>2. QED
      BY <1>2, <1>15, <3>1 DEF WriteHanded
  <2>3. WriteKnown(wb)' /\ WriteRests(wb)'
    BY <1>1, <1>2, <1>7, <1>8, <1>16 DEF StreamOK, WriteKnown, WriteRests
  <2>4. QED
    BY <2>1, <2>2, <2>3 DEF StreamOK
<1>19. StreamsKept'
  <2>1. \A id \in DOMAIN asked' : id \in DOMAIN asked /\ asked'[id] = asked[id]
    BY <1>2
  <2>2. QED
    BY <1>3, <1>8, <1>13, <1>15, <1>18, <2>1, OtherStreams
<1>20. RequestsOK'
  BY <1>1, <1>2 DEF RequestsOK
<1>21. QED
  BY <1>9, <1>10, <1>11, <1>12, <1>13, <1>14, <1>19, <1>20 DEF BindInv

-------------------------------------------------------------------------------
LEMMA WbCloseKeeps ==
    ASSUME BindInv, NEW wb \in WB, wb_close(wb)
    PROVE  BindInv'
<1>1. /\ TypeOK /\ IdsApart /\ DataOK /\ RequestsOK /\ QueuesCounted
      /\ PinsKept /\ KindsKept /\ StreamsKept /\ StreamOK(wb) /\ QueueCounted(wb)
  BY InvParts DEF StreamsKept, QueuesCounted
<1> DEFINE w == Changed(wbuf[wb], <<>>, 0)
<1>2. /\ \A fd \in Fd : \A r \in Ops(fd) : asked[r.id].buf # wb
      /\ wbuf' = [wbuf EXCEPT ![wb] = w] /\ closed' = closed \cup {wb}
      /\ UNCHANGED <<vars, refs, rsize, cut, wrote, asked, leaked, wire, socket>>
  BY DEF wb_close, Cleared, Changed
<1> HIDE DEF w
<1>3. UNCHANGED <<state, sync, out>>
  BY <1>2 DEF vars, backend, call
<1>4. /\ wbuf[wb] \in Buffer /\ wrote[wb] \in Nat
  BY <1>1, BufferFacts
<1>5. /\ w \in Buffer /\ w.q = <<>> /\ w.buffered = 0
      /\ w.flying = wbuf[wb].flying /\ w.id = wbuf[wb].id /\ w.fd = wbuf[wb].fd
  <2> DEFINE v == wbuf[wb]
  <2>1. v \in Buffer /\ <<>> \in Seq(Entries) /\ 0 \in Int /\ w = Changed(v, <<>>, 0)
    BY <1>4, EmptyQueue DEF w
  <2> HIDE DEF v
  <2>2. /\ w \in Buffer /\ w.q = <<>> /\ w.buffered = 0
        /\ w.flying = v.flying /\ w.id = v.id /\ w.fd = v.fd
    BY <2>1, BufferChanged
  <2>3. QED
    BY <2>2 DEF v
<1>6. /\ wbuf'[wb] = w /\ wrote'[wb] = wrote[wb] /\ wb \in closed'
      /\ \A b \in WB \ {wb} : Untouched(b)
  BY <1>1, <1>2 DEF DataOK, Untouched
<1>7. DataOK'
  BY <1>1, <1>2, <1>5 DEF DataOK
<1>8. QueuesCounted'
  <2>1. QueueCounted(wb)'
    BY <1>4, <1>5, <1>6, EmptyQueue DEF QueueCounted
  <2>2. QED
    BY <1>1, <1>6, <2>1, OtherCounts
<1>9. TypeOK'
  BY <1>1, <1>2, NextTypeOK
<1>10. IdsApart' /\ Items' = Items /\ Outstanding' = Outstanding
  BY <1>1, <1>3, QuietItems
<1>11. PinsKept'
  <2>1. \A id \in Outstanding' : asked'[id].buf = asked[id].buf /\ asked'[id].tok = asked[id].tok
    BY <1>2
  <2>2. DOMAIN asked' = Outstanding'
    BY <1>1, <1>2, <1>10 DEF PinsKept
  <2>3. leaked' = leaked \cup UNION {References(id) : id \in Outstanding \ Outstanding'}
    BY <1>2, <1>10
  <2>4. QED
    BY <1>1, <1>2, <1>10, <2>1, <2>2, <2>3, DropsKeepPins
<1>12. KindsKept'
  BY <1>1, <1>2, <1>3, <1>10, KindsSame
<1>13. Handed' = Handed
  BY <1>3 DEF Handed
<1>14. StreamOK(wb)'
  <2>1. WriteWaits(wb)'
    <3>1. ASSUME NEW fd \in Fd, state[fd].op["out"] # NoOp
          PROVE  asked[state[fd].op["out"].id].buf # wb
      BY <1>2, <3>1 DEF Ops, Mask, Dir
    <3>2. QED
      BY <1>2, <1>3, <3>1 DEF WriteWaits
  <2>2. WriteHanded(wb)' /\ WriteRests(wb)'
    BY <1>6 DEF WriteHanded, WriteRests
  <2>3. WriteKnown(wb)'
    BY <1>1, <1>2, <1>5, <1>6 DEF StreamOK, WriteKnown
  <2>4. QED
    BY <2>1, <2>2, <2>3 DEF StreamOK
<1>15. StreamsKept'
  <2>1. \A id \in DOMAIN asked' : id \in DOMAIN asked /\ asked'[id] = asked[id]
    BY <1>2
  <2>2. QED
    BY <1>3, <1>6, <1>11, <1>13, <1>14, <2>1, OtherStreams
<1>16. RequestsOK'
  BY <1>1, <1>2 DEF RequestsOK
<1>17. QED
  BY <1>7, <1>8, <1>9, <1>10, <1>11, <1>12, <1>15, <1>16 DEF BindInv

(* A write_buf that takes a write.                                         *)
Targeted(v, fd, id) == [v EXCEPT !.fd = fd, !.id = id, !.flying = TRUE]

LEMMA BufferTargeted ==
    ASSUME NEW v \in Buffer, NEW fd \in Fd, NEW id \in Id
    PROVE  /\ Targeted(v, fd, id) \in Buffer
           /\ Targeted(v, fd, id).q = v.q /\ Targeted(v, fd, id).buffered = v.buffered
           /\ Targeted(v, fd, id).flying
           /\ Targeted(v, fd, id).id = id /\ Targeted(v, fd, id).fd = fd
<1>1. v \in [q : Seq(Entries), buffered : Int, flying : BOOLEAN,
             fd : Fd \cup {NoOp}, id : Id \cup {NoOp}]
  BY DEF Buffer
<1>2. Targeted(v, fd, id) \in [q : Seq(Entries), buffered : Int, flying : BOOLEAN,
                               fd : Fd \cup {NoOp}, id : Id \cup {NoOp}]
  BY <1>1 DEF Targeted
<1>3. /\ Targeted(v, fd, id).q = v.q /\ Targeted(v, fd, id).buffered = v.buffered
      /\ Targeted(v, fd, id).flying
      /\ Targeted(v, fd, id).id = id /\ Targeted(v, fd, id).fd = fd
  BY <1>1 DEF Targeted
<1>4. QED
  BY <1>2, <1>3 DEF Buffer

LEMMA WriteKeeps ==
    ASSUME BindInv, NEW fd \in Fd, NEW wb \in WB, NEW tok \in Udata,
           async_submit_write(fd, wb, tok)
    PROVE  BindInv'
<1>1. /\ TypeOK /\ IdsApart /\ DataOK /\ RequestsOK /\ QueuesCounted
      /\ PinsKept /\ KindsKept /\ StreamsKept /\ StreamOK(wb) /\ QueueCounted(wb)
      /\ DOMAIN asked = Outstanding
  BY InvParts DEF StreamsKept, QueuesCounted
<1>2. ~wbuf[wb].flying /\ wbuf[wb].q # <<>>
  BY DEF async_submit_write, WbIdle
<1>3. UNCHANGED <<call, rsize, closed, cut, wrote, leaked, wire, socket>>
  BY DEF async_submit_write
<1> DEFINE info == WriteInfo(wb, tok, fd)
           from == wrote[wb] - Unsent(wbuf[wb].q)
           r(p) == [id |-> p.id, kind |-> "write", len |-> Unsent(wbuf[wb].q)]
<1>4. PICK p \in Pin(wb, tok) :
          \/ /\ SubmitWrite(fd, r(p))
             /\ wbuf' = [wbuf EXCEPT ![wb] = Targeted(wbuf[wb], fd, p.id)]
             /\ Accepted(p, info)
          \/ Refused(p) /\ UNCHANGED wbuf
  <2>1. PICK p \in Pin(wb, tok) :
            LET w == [wbuf[wb] EXCEPT !.fd = fd, !.id = p.id]
            IN  \/ /\ SubmitWrite(fd, WriteRequest(w))
                   /\ wbuf' = [wbuf EXCEPT ![wb] = [w EXCEPT !.flying = TRUE]]
                   /\ Accepted(p, info)
                \/ Refused(p) /\ UNCHANGED wbuf
    BY DEF async_submit_write
  <2> DEFINE w == [wbuf[wb] EXCEPT !.fd = fd, !.id = p.id]
  <2>2. wbuf[wb] \in [q : Seq(Entries), buffered : Int, flying : BOOLEAN,
                      fd : Fd \cup {NoOp}, id : Id \cup {NoOp}]
    BY <1>1 DEF DataOK, Buffer
  <2>3. w.q = wbuf[wb].q /\ w.id = p.id
    BY <2>2
  <2>4. WriteRequest(w) = r(p)
    BY <2>3 DEF WriteRequest
  <2>5. [w EXCEPT !.flying = TRUE] = Targeted(wbuf[wb], fd, p.id)
    BY <2>2 DEF Targeted
  <2>6. QED
    BY <2>1, <2>4, <2>5
<1>5. wb \in Values /\ tok \in Values
  BY DEF Values
<1>6. Pinned(p, wb, tok) /\ p.id[1] # 0 /\ p.id \in Id
  <2>1. Pinned(p, wb, tok) /\ p.id[1] # 0
    BY <1>1, <1>4, <1>5, PinFacts DEF PinsKept
  <2>2. QED
    BY <2>1, PairsAreIds DEF Pinned
<1>7. /\ wbuf[wb] \in Buffer /\ wbuf[wb].q \in Seq(Entries) /\ wrote[wb] \in 0..MaxWrote
      /\ Unsent(wbuf[wb].q) \in Nat
  BY <1>1, BufferFacts
<1>8. Unsent(wbuf[wb].q) \in 1..MaxLen /\ from \in 0..MaxWrote
  <2>1. Unsent(wbuf[wb].q) > 0
    BY <1>2, <1>7, QueueCounts
  <2>2. Unsent(wbuf[wb].q) <= wrote[wb]
    BY <1>1 DEF QueueCounted
  <2> DEFINE unsent == Unsent(wbuf[wb].q)
             all == wrote[wb]
  <2>3. all \in 0..MaxWrote /\ unsent \in Nat /\ unsent > 0 /\ unsent <= all
    BY <1>7, <2>1, <2>2
  <2> HIDE DEF unsent, all
  <2>4. unsent \in 1..MaxLen /\ all - unsent \in 0..MaxWrote
    BY <2>3, BoundFacts
  <2>5. QED
    BY <2>4 DEF unsent, all
<1>9. CASE Refused(p) /\ UNCHANGED wbuf
  <2>1. UNCHANGED <<call, buffers, leaked, wire, socket>>
    BY <1>3, <1>9 DEF buffers
  <2>2. QED
    BY <1>6, <1>9, <2>1, RefusedKeeps
<1>10. CASE /\ SubmitWrite(fd, r(p))
            /\ wbuf' = [wbuf EXCEPT ![wb] = Targeted(wbuf[wb], fd, p.id)]
            /\ Accepted(p, info)
  <2> DEFINE s == r(p)
             w == Targeted(wbuf[wb], fd, p.id)
  <2>1. /\ s \in Request /\ s.id = p.id /\ s.kind = "write" /\ s.len = Unsent(wbuf[wb].q)
    BY <1>6, <1>8 DEF Request, Kind, OutKind
  <2>2. /\ info \in RequestInfo /\ info.buf = wb /\ info.tok = tok /\ info.fd = fd
        /\ info.from = from
    <3>1. socket[fd] \in 0..MaxReuse
      BY <1>1 DEF DataOK
    <3>2. info = [buf |-> wb, tok |-> tok, fd |-> fd, socket |-> socket[fd], from |-> from]
      BY DEF WriteInfo
    <3> HIDE DEF info, from
    <3>3. QED
      BY <1>8, <3>1, <3>2 DEF RequestInfo
  <2>3. Submit(fd, "out", s) /\ "out" \in Dir /\ s.kind \in OutKind /\ "out" # "in"
    BY <1>10 DEF SubmitWrite, Dir, OutKind
  <2>4. KindFits(s, info)
    BY <1>6, <2>1, <2>2, BuffersDiffer DEF KindFits
  <2>5. /\ w \in Buffer /\ w.q = wbuf[wb].q /\ w.buffered = wbuf[wb].buffered
        /\ w.flying /\ w.id = p.id /\ w.fd = fd
    BY <1>6, <1>7, BufferTargeted
  <2>6. wbuf' = [wbuf EXCEPT ![wb] = w] /\ Accepted(p, info)
    BY <1>10
  <2>7. from = Taken(wb, 0)
    <3> DEFINE unsent == Unsent(wbuf[wb].q)
               all == wrote[wb]
    <3>1. all \in 0..MaxWrote /\ unsent \in Nat /\ from = all - unsent
          /\ Taken(wb, 0) = all - unsent + 0
      BY <1>7 DEF Taken
    <3> HIDE DEF unsent, all, from
    <3>2. QED
      BY <3>1, BoundFacts
  <2> HIDE DEF s, w, r, info, from
  <2>8. UNCHANGED <<call, leaked>> /\ out' = out
    BY <1>3 DEF call
  <2>9. Booked(s, info)
    BY <1>6, <2>1, <2>2, <2>3, <2>4, <2>6, <2>8, SubmitBooked
  <2>10. /\ TypeOK' /\ IdsApart' /\ RequestsOK' /\ PinsKept' /\ KindsKept'
         /\ DOMAIN asked' = Outstanding \cup {s.id} /\ s.id \notin Outstanding
         /\ asked'[s.id] = info /\ \A id \in Outstanding : asked'[id] = asked[id]
    BY <2>9 DEF Booked
  <2>11. /\ wbuf'[wb] = w /\ wrote'[wb] = wrote[wb] /\ wire'[wb] = wire[wb]
         /\ \A b \in WB \ {wb} : Untouched(b)
    BY <1>1, <1>3, <2>6 DEF DataOK, Untouched
  <2>12. wb \notin closed
    BY <1>1, <1>2 DEF QueueCounted
  <2>13. DataOK' /\ QueuesCounted'
    <3>1. DataOK'
      BY <1>1, <1>3, <2>5, <2>6 DEF DataOK
    <3>2. QueueCounted(wb)'
      BY <1>1, <1>3, <2>5, <2>11 DEF QueueCounted
    <3>3. QED
      BY <1>1, <2>11, <3>1, <3>2, OtherCounts
  <2>14. \A id \in DOMAIN asked : asked[id].buf # wb
    BY <1>1, <1>2 DEF StreamOK, WriteKnown
  <2>15. \A id \in DOMAIN asked' : asked'[id].buf = wb => id = s.id
    BY <1>1, <2>10, <2>14
  <2>16. \A m : Taken(wb, m)' = Taken(wb, m) /\ (InStep(wb, m)' <=> InStep(wb, m))
    BY <1>3, <2>5, <2>11 DEF Taken, InStep
  <2>17. InStep(wb, 0)
    BY <1>1, <1>2, <2>12 DEF StreamOK, WriteRests
  <2>18. \A f \in Fd : state'[f].op["out"] = IF f = fd THEN s ELSE state[f].op["out"]
    <3>1. state' = [state EXCEPT ![fd] = Entry([state[fd].op EXCEPT !["out"] = s])]
      BY <2>3 DEF Submit, FdArm
    <3>2. state \in [Fd -> [op : [Dir -> Request \cup {NoOp}], events : SUBSET Dir]]
      BY <1>1 DEF TypeOK
    <3>3. QED
      BY <2>3, <3>1, <3>2 DEF Entry
  <2>19. Handed' = Handed
    BY <2>8 DEF Handed
  <2>20. \A x \in Items : x.id # s.id
    BY <2>10, OutstandingIs
  <2>21. StreamOK(wb)'
    <3>1. WriteWaits(wb)'
      <4>1. ASSUME NEW f \in Fd, state'[f].op["out"] # NoOp,
                   asked'[state'[f].op["out"].id].buf = wb
            PROVE  state'[f].op["out"] = s /\ f = fd
        <5>1. state'[f].op["out"] \in Items'
          BY <2>3, <4>1, NextItems
        <5>2. state'[f].op["out"].id \in DOMAIN asked'
          BY <2>10, <5>1, OutstandingIs DEF PinsKept
        <5>3. state'[f].op["out"].id = s.id
          BY <2>15, <4>1, <5>2
        <5>4. f # fd => state[f].op["out"] \in Items /\ state[f].op["out"].id = s.id
          BY <2>3, <2>18, <4>1, <5>3, ItemIs
        <5>5. QED
          BY <2>18, <2>20, <5>4
      <4>2. /\ wb \notin closed' /\ asked'[s.id].fd = fd
            /\ s.len <= Unsent(wbuf'[wb].q)
            /\ asked'[s.id].from = Taken(wb, 0)' /\ InStep(wb, 0)'
        <5>1. s.len <= s.len
          BY <1>7, <2>1
        <5>2. QED
          BY <1>3, <2>1, <2>2, <2>5, <2>7, <2>10, <2>11, <2>12, <2>16, <2>17, <5>1
      <4>3. QED
        BY <4>1, <4>2 DEF WriteWaits
    <3>2. WriteHanded(wb)'
      <4>1. ASSUME NEW c \in Handed
            PROVE  asked'[c.id].buf # wb
        <5>1. c \in Items /\ c.id \in Outstanding
          BY OutstandingIs DEF Items
        <5>2. QED
          BY <1>1, <2>10, <2>14, <5>1
      <4>2. QED
        BY <2>19, <4>1 DEF WriteHanded
    <3>3. WriteKnown(wb)' /\ WriteRests(wb)'
      BY <2>1, <2>2, <2>5, <2>10, <2>11, <2>15 DEF WriteKnown, WriteRests
    <3>4. QED
      BY <3>1, <3>2, <3>3 DEF StreamOK
  <2>22. StreamsKept'
    <3>1. \A f \in Fd : LET x == state'[f].op["out"]
                        IN  x # NoOp /\ asked'[x.id].buf # wb => state[f].op["out"] = x
      BY <2>2, <2>10, <2>18
    <3>2. \A id \in DOMAIN asked' : asked'[id].buf # wb =>
              id \in DOMAIN asked /\ asked'[id] = asked[id]
      BY <1>1, <2>2, <2>10
    <3>3. QED
      BY <2>10, <2>11, <2>19, <2>21, <3>1, <3>2, OtherStreams
  <2>23. QED
    BY <2>10, <2>13, <2>22 DEF BindInv
<1>11. QED
  BY <1>4, <1>9, <1>10

-------------------------------------------------------------------------------
(* The completion iterator.  What its next completion is of.               *)
LEMMA HeadFacts ==
    ASSUME BindInv, out # <<>>, out' = Tail(out)
    PROVE  LET c == Head(out)
           IN  /\ c \in Handed /\ c \in Completion /\ c.id \in Outstanding
               /\ c.id \in Pair /\ c.id \in DOMAIN asked /\ c.bytes \in Nat
               /\ KindFits(c, asked[c.id])
               /\ c.id[1] \notin {0, NOREF} => refs.slot[c.id[1]] = asked[c.id].buf
<1>1. /\ TypeOK /\ IdsApart /\ PinsKept /\ KindsKept /\ DOMAIN asked = Outstanding
  BY InvParts
<1>2. Head(out) \in Handed /\ Head(out) \in Completion
  BY <1>1, TailFacts DEF IdsApart
<1>3. Head(out) \in Items
  BY <1>2 DEF Items
<1>4. Head(out).id \in Outstanding /\ KindFits(Head(out), asked[Head(out).id])
  BY <1>1, <1>3, OutstandingIs DEF KindsKept
<1>5. Head(out).bytes \in Nat
  BY <1>2, ConstantFacts DEF Completion
<1>6. Head(out).id \in Pair
  BY <1>1, <1>4 DEF PinsKept
<1>7. Head(out).id[1] \notin {0, NOREF} =>
          refs.slot[Head(out).id[1]] = asked[Head(out).id].buf
  BY <1>1, <1>4 DEF PinsKept, PinsHeld
<1>8. QED
  BY <1>1, <1>2, <1>4, <1>5, <1>6, <1>7

LEMMA TailCallOK ==
    ASSUME TypeOK, IdsApart, out # <<>>, out' = Tail(out), UNCHANGED <<phase, batch>>
    PROVE  CallOK'
<1>1. out' \in Seq(Completion) /\ Len(out') <= Room
  BY TailFacts DEF IdsApart
<1>2. QED
  BY <1>1, TypeParts DEF CallOK

(* The books of a report.                                                  *)
LEMMA EmitBooked ==
    ASSUME BindInv, out # <<>>, out' = Tail(out), UNCHANGED <<phase, batch, leaked>>,
           Emit(Head(out))
    PROVE  /\ TypeOK' /\ IdsApart' /\ RequestsOK' /\ PinsKept' /\ KindsKept'
           /\ DOMAIN asked' = Outstanding \ {Head(out).id}
           /\ \A id \in DOMAIN asked' : id \in DOMAIN asked /\ asked'[id] = asked[id]
           /\ state' = state
           /\ \A c \in Handed' : c \in Handed
<1>1. /\ TypeOK /\ IdsApart /\ RequestsOK /\ PinsKept /\ KindsKept /\ DOMAIN asked = Outstanding
  BY InvParts
<1>2. UNCHANGED <<backend, world>> /\ UNCHANGED <<open, state, sync, armed, list, up, ready>>
  BY DEF Emit, backend, world
<1>3. TypeOK'
  <2>1. CallOK'
    BY <1>1, TailCallOK
  <2>2. open' \in BOOLEAN /\ StateOK' /\ QueueOK' /\ KernelOK'
    <3>1. open \in BOOLEAN /\ StateOK /\ QueueOK /\ KernelOK
      BY <1>1, TypeParts
    <3>2. QED
      BY <1>2, <3>1 DEF StateOK, KindsOK, QueueOK, KernelOK
  <2>3. QED
    BY <2>1, <2>2, TypePartsNext
<1>4. /\ IdsApart' /\ Items' \subseteq Items
      /\ Outstanding' = Outstanding \ {Head(out).id} /\ Head(out).id \in Outstanding
  BY <1>1, <1>2, EmitItems
<1>5. PinsKept'
  BY <1>1, <1>4, EmitKeepsPins
<1>6. /\ DOMAIN asked' = Outstanding \ {Head(out).id}
      /\ \A id \in DOMAIN asked' : id \in DOMAIN asked /\ asked'[id] = asked[id]
  BY <1>1 DEF Emit
<1>7. RequestsOK'
  BY <1>1, <1>6 DEF RequestsOK
<1>8. KindsKept'
  <2>1. \A x \in Items' : asked'[x.id].buf = asked[x.id].buf
    <3>1. \A x \in Items' : x.id \in DOMAIN asked'
      BY <1>4, <1>6, OutstandingIs
    <3>2. QED
      BY <1>6, <3>1
  <2>2. QED
    BY <1>1, <1>2, <1>4, <2>1, KindsSame
<1>9. \A c \in Handed' : c \in Handed
  BY <1>1, TailFacts DEF IdsApart
<1>10. QED
  BY <1>2, <1>3, <1>4, <1>5, <1>6, <1>7, <1>8, <1>9

LEMMA CompletionCases ==
    ASSUME async_completions
    PROVE  /\ phase = "lua" /\ out # <<>> /\ out' = Tail(out)
           /\ Head(out).id[1] # NOREF
           /\ UNCHANGED <<phase, batch, wrote, leaked, wire, socket>>
           /\ LET c   == Head(out)
                  buf == IF c.id[1] = 0 THEN NIL ELSE refs.slot[c.id[1]]
              IN  \/ c.kind = "write" /\ wb_on_completion(c, buf) /\ UNCHANGED rsize
                  \/ /\ c.kind # "write" /\ Emit(c)
                     /\ rsize' = IF Committed(c) THEN [rsize EXCEPT ![buf] = @ + c.bytes]
                                                 ELSE rsize
                     /\ UNCHANGED <<wbuf, closed, cut>>
<1>1. Head(out).id[1] \in {0} \cup R!Live(refs)
  BY DEF async_completions
<1>2. Head(out).id[1] # NOREF
  BY <1>1 DEF R!Live, NOREF
<1>3. QED
  BY <1>2 DEF async_completions

(* What is not a write: at most bytes for a read_buf.                      *)
LEMMA OthersReported ==
    ASSUME BindInv, async_completions, Head(out).kind # "write"
    PROVE  BindInv'
<1> DEFINE c == Head(out)
           buf == IF c.id[1] = 0 THEN NIL ELSE refs.slot[c.id[1]]
<1>1. /\ out # <<>> /\ out' = Tail(out) /\ c.id[1] # NOREF
      /\ UNCHANGED <<phase, batch, wrote, leaked, wire, socket>>
      /\ Emit(c)
      /\ rsize' = IF Committed(c) THEN [rsize EXCEPT ![buf] = @ + c.bytes] ELSE rsize
      /\ UNCHANGED <<wbuf, closed, cut>>
  BY CompletionCases
<1>2. /\ KindFits(c, asked[c.id]) /\ c.bytes \in Nat
      /\ c.id[1] # 0 => refs.slot[c.id[1]] = asked[c.id].buf
  BY <1>1, HeadFacts
<1>3. /\ DataOK /\ QueuesCounted /\ PinsKept /\ StreamsKept
  BY InvParts
<1>4. /\ TypeOK' /\ IdsApart' /\ RequestsOK' /\ PinsKept' /\ KindsKept'
      /\ \A id \in DOMAIN asked' : id \in DOMAIN asked /\ asked'[id] = asked[id]
      /\ state' = state
      /\ \A e \in Handed' : e \in Handed
  BY <1>1, EmitBooked
<1>5. DataOK'
  <2>1. rsize \in [RB -> Nat]
    BY <1>3 DEF DataOK
  <2>2. CASE ~Committed(c)
    BY <1>1, <1>3, <2>2 DEF DataOK
  <2>3. CASE Committed(c)
    <3>1. buf \in RB
      BY <1>2, <2>3 DEF Committed, KindFits
    <3> HIDE DEF buf, c
    <3>2. rsize' \in [RB -> Nat]
      BY <1>1, <1>2, <2>1, <2>3, <3>1
    <3>3. QED
      BY <1>1, <1>3, <3>2 DEF DataOK
  <2>4. QED
    BY <2>2, <2>3
<1>6. QueuesCounted'
  BY <1>1, <1>3, NothingTouched, UntouchedCounts DEF QueuesCounted
<1>7. StreamsKept'
  <2>1. ASSUME NEW b \in WB
        PROVE  StreamOK(b)'
    <3>1. StreamOK(b) /\ Untouched(b)
      BY <1>1, <1>3, NothingTouched DEF StreamsKept
    <3>2. QED
      BY <1>3, <1>4, <3>1, StreamFrame
  <2>2. QED
    BY <2>1 DEF StreamsKept
<1>8. QED
  BY <1>4, <1>5, <1>6, <1>7 DEF BindInv

LEMMA BufferLanded ==
    ASSUME NEW v \in Buffer
    PROVE  /\ Landed(v) \in Buffer
           /\ Landed(v).q = v.q /\ Landed(v).buffered = v.buffered /\ ~Landed(v).flying
<1>1. v \in [q : Seq(Entries), buffered : Int, flying : BOOLEAN,
             fd : Fd \cup {NoOp}, id : Id \cup {NoOp}]
  BY DEF Buffer
<1>2. Landed(v) \in [q : Seq(Entries), buffered : Int, flying : BOOLEAN,
                     fd : Fd \cup {NoOp}, id : Id \cup {NoOp}]
  BY <1>1 DEF Landed
<1>3. Landed(v).q = v.q /\ Landed(v).buffered = v.buffered /\ ~Landed(v).flying
  BY <1>1 DEF Landed
<1>4. QED
  BY <1>2, <1>3 DEF Buffer

-------------------------------------------------------------------------------
(* A write is reported to the iterator: where its stream stands when the   *)
(* bytes are consumed.                                                     *)
Rest(b, c) == Consumed(wbuf[b], c.bytes)

LEMMA WriteCompleted ==
    ASSUME BindInv, out # <<>>, out' = Tail(out), Head(out).kind = "write"
    PROVE  LET c  == Head(out)
               wb == asked[c.id].buf
               q  == Rest(wb, c).q
               w  == Changed(wbuf[wb], q, Rest(wb, c).buffered)
           IN  /\ wb \in WB /\ c.id[1] # 0
               /\ c.id[1] # NOREF => refs.slot[c.id[1]] = wb
               /\ wbuf[wb].flying /\ wbuf[wb].id = c.id
               /\ wbuf[wb].fd = asked[c.id].fd /\ asked[c.id].fd \in Fd
               /\ \A id \in DOMAIN asked : asked[id].buf = wb => id = c.id
               /\ w \in Buffer /\ w.q = q /\ w.buffered = Queued(q)
               /\ w.flying = wbuf[wb].flying /\ w.id = wbuf[wb].id /\ w.fd = wbuf[wb].fd
               /\ q \in Seq(Entries) /\ Queued(q) <= wrote[wb] /\ Unsent(q) <= wrote[wb]
               /\ wb \in closed => q = <<>>
               /\ wb \notin closed => /\ wire[wb] <= wrote[wb] - Unsent(q)
                                      /\ wb \notin cut => wire[wb] = wrote[wb] - Unsent(q)
<1> DEFINE c  == Head(out)
           wb == asked[c.id].buf
           v  == wbuf[wb]
           s  == Consumed(v, c.bytes)
           unsent == Unsent(v.q)
           left == Unsent(s.q)
           all == wrote[wb]
           bytes == c.bytes
<1>1. /\ DataOK /\ QueuesCounted /\ StreamsKept
  BY InvParts
<1>2. /\ c \in Handed /\ c.id \in DOMAIN asked /\ bytes \in Nat
      /\ KindFits(c, asked[c.id])
      /\ c.id[1] \notin {0, NOREF} => refs.slot[c.id[1]] = asked[c.id].buf
  BY HeadFacts
<1>3. wb \in WB /\ c.id[1] # 0 /\ (c.id[1] # NOREF => refs.slot[c.id[1]] = wb)
  BY <1>2 DEF KindFits
<1>4. StreamOK(wb) /\ QueueCounted(wb)
  BY <1>1, <1>3 DEF StreamsKept, QueuesCounted
<1>5. /\ v.flying /\ v.id = c.id
      /\ v.fd = asked[c.id].fd /\ asked[c.id].fd \in Fd
      /\ \A id \in DOMAIN asked : asked[id].buf = wb => id = c.id
  BY <1>2, <1>4 DEF StreamOK, WriteKnown
<1>6. /\ v \in Buffer /\ v.q \in Seq(Entries) /\ v.buffered \in Int
      /\ all \in Nat /\ wire[wb] \in Nat /\ unsent \in Nat
  BY <1>1, <1>3, BufferFacts
<1>7. /\ v.buffered = Queued(v.q) /\ v.buffered <= all /\ unsent <= all
      /\ wb \in closed => v.q = <<>>
  BY <1>4 DEF QueueCounted
<1>8. wb \notin closed => bytes <= unsent /\ InStep(wb, bytes)
  BY <1>2, <1>4 DEF StreamOK, WriteHanded
<1>9. Rest(wb, c) = s
  BY DEF Rest
<1>10. CASE wb \in closed
  <2>1. v.q = <<>>
    BY <1>7, <1>10
  <2> HIDE DEF v, c
  <2>2. s.q = <<>> /\ s.buffered = v.buffered
    BY <1>2, <1>6, <2>1, ConsumedEmpty
  <2>3. s.q \in Seq(Entries) /\ s.buffered \in Int /\ s.buffered = Queued(s.q)
        /\ Queued(s.q) <= all /\ left <= all
    BY <1>6, <1>7, <2>1, <2>2, EmptyQueue
  <2> HIDE DEF s
  <2>4. /\ Changed(v, s.q, s.buffered) \in Buffer
        /\ Changed(v, s.q, s.buffered).q = s.q /\ Changed(v, s.q, s.buffered).buffered = s.buffered
        /\ Changed(v, s.q, s.buffered).flying = v.flying
        /\ Changed(v, s.q, s.buffered).id = v.id /\ Changed(v, s.q, s.buffered).fd = v.fd
    BY <1>6, <2>3, BufferChanged
  <2>5. QED
    BY <1>3, <1>5, <1>9, <1>10, <2>2, <2>3, <2>4 DEF v, c
<1>11. CASE wb \notin closed
  <2>1. bytes \in 0..unsent /\ InStep(wb, bytes)
    BY <1>2, <1>6, <1>8, <1>11
  <2>2. /\ wire[wb] <= all - unsent + bytes
        /\ wb \notin cut => wire[wb] = all - unsent + bytes
    BY <2>1 DEF InStep, Taken
  <2> DEFINE queued == Queued(s.q)
             before == Queued(v.q)
             buffered == v.buffered
             after == s.buffered
  <2> HIDE DEF v, c
  <2>3. /\ s.q \in Seq(Entries) /\ left = unsent - bytes
        /\ after \in Int /\ after <= buffered
        /\ queued - after = before - buffered
    BY <1>6, <2>1, ConsumedSpec
  <2>4. queued \in Nat /\ left \in Nat /\ before \in Nat /\ buffered \in Int
    BY <1>6, <2>3, QueueCounts
  <2>5. buffered = before /\ buffered <= all /\ unsent <= all /\ all \in Nat /\ unsent \in Nat
        /\ bytes \in Nat /\ wire[wb] \in Nat
    BY <1>2, <1>6, <1>7
  <2>6. bytes <= unsent
    BY <1>8, <1>11
  <2> DEFINE sent == wire[wb]
  <2>7. sent <= all - unsent + bytes /\ sent \in Nat /\ (wb \notin cut => sent = all - unsent + bytes)
    BY <2>2, <2>5
  <2> HIDE DEF queued, before, buffered, after, unsent, left, all, bytes, s, sent
  <2>8. /\ after = queued /\ queued <= all /\ left <= all
        /\ sent <= all - left /\ (wb \notin cut => sent = all - left)
    BY <2>3, <2>4, <2>5, <2>6, <2>7
  <2>9. s.q \in Seq(Entries) /\ s.buffered \in Int
    BY <2>3 DEF after
  <2>10. /\ Changed(v, s.q, s.buffered) \in Buffer
         /\ Changed(v, s.q, s.buffered).q = s.q /\ Changed(v, s.q, s.buffered).buffered = s.buffered
         /\ Changed(v, s.q, s.buffered).flying = v.flying
         /\ Changed(v, s.q, s.buffered).id = v.id /\ Changed(v, s.q, s.buffered).fd = v.fd
    BY <1>6, <2>9, BufferChanged
  <2>11. /\ s.buffered = Queued(s.q) /\ Queued(s.q) <= wrote[wb] /\ Unsent(s.q) <= wrote[wb]
         /\ wire[wb] <= wrote[wb] - Unsent(s.q)
         /\ wb \notin cut => wire[wb] = wrote[wb] - Unsent(s.q)
    BY <2>8 DEF after, queued, left, all, sent
  <2>12. QED
    BY <1>3, <1>5, <1>9, <1>11, <2>9, <2>10, <2>11 DEF v, c
<1>12. QED
  BY <1>10, <1>11

-------------------------------------------------------------------------------
(* The write is over: all sent, or failed, or dropped for a refusal.       *)
LEMMA StreamAtRest ==
    ASSUME NEW b, PinsKept', \A id \in DOMAIN asked' : asked'[id].buf # b,
           ~wbuf'[b].flying, b \notin closed' => InStep(b, 0)'
    PROVE  StreamOK(b)'
<1>1. \A x \in Items' : asked'[x.id].buf # b
  BY OutstandingIs DEF PinsKept
<1>2. \A fd \in Fd : state'[fd].op["out"] # NoOp => state'[fd].op["out"] \in Items'
  <2>1. "out" \in Dir
    BY DEF Dir
  <2>2. QED
    BY <2>1, NextItems
<1>3. \A c \in Handed' : c \in Items'
  BY NextItems
<1>4. WriteWaits(b)' /\ WriteHanded(b)'
  BY <1>1, <1>2, <1>3 DEF WriteWaits, WriteHanded
<1>5. WriteKnown(b)' /\ WriteRests(b)'
  BY DEF WriteKnown, WriteRests
<1>6. QED
  BY <1>4, <1>5 DEF StreamOK

(* The next completion is of a write on wb, which is left as w.            *)
Completes(wb, w) ==
    /\ out # <<>> /\ out' = Tail(out)
    /\ UNCHANGED <<phase, batch, wrote, leaked, wire, socket, rsize>>
    /\ Head(out).kind = "write" /\ wb = asked[Head(out).id].buf
    /\ w = Changed(wbuf[wb], Rest(wb, Head(out)).q, Rest(wb, Head(out)).buffered)

Finished(wb, w, rest) ==
    /\ Completes(wb, w) /\ Emit(Head(out))
    /\ rest \in BOOLEAN /\ (rest <=> Head(out).status = "success" /\ w.q # <<>>)
    /\ rest => MayRefuse(w.fd, "out")
    /\ wbuf' = [wbuf EXCEPT ![wb] =
                   IF Head(out).status = "success" /\ ~rest
                   THEN Landed(w) ELSE Landed(Changed(wbuf[wb], <<>>, 0))]
    /\ cut' = IF rest THEN cut \cup {wb} ELSE cut
    /\ closed' = IF Head(out).status = "success" THEN closed ELSE closed \cup {wb}

LEMMA WriteReported ==
    ASSUME BindInv, NEW wb, NEW w, NEW rest, Finished(wb, w, rest)
    PROVE  BindInv'
<1> DEFINE c == Head(out)
           q == Rest(wb, c).q
           all == wrote[wb]
           sent == wire[wb]
<1>0. /\ out # <<>> /\ out' = Tail(out) /\ Emit(c)
      /\ UNCHANGED <<phase, batch, wrote, leaked, wire, socket, rsize>>
      /\ c.kind = "write" /\ wb = asked[c.id].buf
      /\ w = Changed(wbuf[wb], Rest(wb, c).q, Rest(wb, c).buffered)
      /\ rest \in BOOLEAN /\ (rest <=> c.status = "success" /\ w.q # <<>>)
      /\ cut' = IF rest THEN cut \cup {wb} ELSE cut
      /\ closed' = IF c.status = "success" THEN closed ELSE closed \cup {wb}
  BY DEF Finished, Completes
<1>1. /\ wb \in WB
      /\ \A id \in DOMAIN asked : asked[id].buf = wb => id = c.id
      /\ w \in Buffer /\ w.q = q /\ w.buffered = Queued(q)
      /\ q \in Seq(Entries) /\ Queued(q) <= all /\ Unsent(q) <= all
      /\ wb \in closed => q = <<>>
      /\ wb \notin closed => /\ sent <= all - Unsent(q)
                             /\ wb \notin cut => sent = all - Unsent(q)
  BY <1>0, WriteCompleted
<1>2. /\ DataOK /\ QueuesCounted /\ PinsKept /\ StreamsKept /\ DOMAIN asked = Outstanding
  BY InvParts
<1>3. /\ TypeOK' /\ IdsApart' /\ RequestsOK' /\ PinsKept' /\ KindsKept'
      /\ DOMAIN asked' = Outstanding \ {c.id}
      /\ \A id \in DOMAIN asked' : id \in DOMAIN asked /\ asked'[id] = asked[id]
      /\ state' = state
      /\ \A e \in Handed' : e \in Handed
  BY <1>0, EmitBooked
<1>4. \A id \in DOMAIN asked' : asked'[id].buf # wb
  BY <1>1, <1>3
<1>5. /\ wbuf[wb] \in Buffer /\ all \in Nat /\ sent \in Nat
  BY <1>1, <1>2, BufferFacts
<1> DEFINE done == c.status = "success" /\ ~rest
           empty == Changed(wbuf[wb], <<>>, 0)
           v == IF done THEN Landed(w) ELSE Landed(empty)
<1>6. done => q = <<>>
  BY <1>0, <1>1
<1>7. empty \in Buffer /\ empty.q = <<>> /\ empty.buffered = 0
  <2> DEFINE x == wbuf[wb]
  <2>1. x \in Buffer /\ <<>> \in Seq(Entries) /\ 0 \in Int
    BY <1>5, EmptyQueue
  <2> HIDE DEF x
  <2>2. /\ Changed(x, <<>>, 0) \in Buffer /\ Changed(x, <<>>, 0).q = <<>>
        /\ Changed(x, <<>>, 0).buffered = 0
    BY <2>1, BufferChanged
  <2>3. QED
    BY <2>2 DEF x
<1>8. wbuf' = [wbuf EXCEPT ![wb] = v]
  BY DEF Finished
<1> HIDE DEF empty, done
<1>9. v \in Buffer /\ v.q = <<>> /\ v.buffered = 0 /\ ~v.flying
  <2>1. CASE done
    <3>1. w \in Buffer /\ w.q = <<>> /\ w.buffered = 0 /\ v = Landed(w)
      BY <1>1, <1>6, <2>1, EmptyQueue
    <3>2. Landed(w) \in Buffer /\ Landed(w).q = w.q /\ Landed(w).buffered = w.buffered
          /\ ~Landed(w).flying
      BY <3>1, BufferLanded
    <3>3. QED
      BY <3>1, <3>2
  <2>2. CASE ~done
    <3>1. v = Landed(empty)
      BY <2>2
    <3>2. Landed(empty) \in Buffer /\ Landed(empty).q = empty.q
          /\ Landed(empty).buffered = empty.buffered /\ ~Landed(empty).flying
      BY <1>7, BufferLanded
    <3>3. QED
      BY <1>7, <3>1, <3>2
  <2>3. QED
    BY <2>1, <2>2
<1> HIDE DEF v, q, c
<1>10. /\ wbuf'[wb] = v /\ wrote'[wb] = wrote[wb] /\ wire'[wb] = wire[wb]
       /\ \A b \in WB \ {wb} : Untouched(b)
  BY <1>0, <1>1, <1>2, <1>8 DEF DataOK, Untouched
<1>11. DataOK'
  <2>1. wbuf' \in [WB -> Buffer]
    BY <1>2, <1>8, <1>9 DEF DataOK
  <2>2. closed' \in SUBSET WB /\ cut' \in SUBSET WB
    BY <1>0, <1>1, <1>2 DEF DataOK
  <2>3. QED
    BY <1>0, <1>2, <2>1, <2>2 DEF DataOK
<1>12. QueuesCounted'
  <2>1. QueueCounted(wb)'
    <3>1. /\ wbuf'[wb].q = <<>> /\ wbuf'[wb].buffered = 0 /\ wrote'[wb] = all
      BY <1>9, <1>10
    <3>2. Queued(wbuf'[wb].q) = 0 /\ Unsent(wbuf'[wb].q) = 0
      BY <3>1, EmptyQueue
    <3>3. 0 <= wrote'[wb]
      <4>1. all \in Nat
        BY <1>5
      <4> HIDE DEF all
      <4>2. QED
        BY <3>1, <4>1
    <3>4. QED
      BY <3>1, <3>2, <3>3 DEF QueueCounted
  <2>2. QED
    BY <1>1, <1>2, <1>10, <2>1, OtherCounts
<1>13. StreamOK(wb)'
  <2>1. ASSUME wb \notin closed'
        PROVE  InStep(wb, 0)'
    <3>1. c.status = "success" /\ wb \notin closed
      BY <1>0, <2>1
    <3> DEFINE left == Unsent(q)
    <3>2. /\ sent <= all - left /\ (wb \notin cut => sent = all - left)
          /\ left \in Nat
      BY <1>1, <3>1, QueueCounts
    <3>3. done => left = 0
      BY <1>6, EmptyQueue
    <3>4. wb \notin cut' => done /\ wb \notin cut
      BY <1>0, <3>1 DEF done
    <3> HIDE DEF left, all, sent
    <3>5. sent <= all - 0 + 0 /\ (wb \notin cut' => sent = all - 0 + 0)
      BY <1>5, <3>2, <3>3, <3>4
    <3>6. Unsent(wbuf'[wb].q) = 0
      BY <1>9, <1>10, EmptyQueue
    <3>7. Taken(wb, 0)' = all - 0 + 0 /\ wire'[wb] = sent
      BY <1>10, <3>6 DEF Taken, all, sent
    <3>8. QED
      BY <3>5, <3>7 DEF InStep
  <2>2. QED
    BY <1>3, <1>4, <1>9, <1>10, <2>1, StreamAtRest
<1>14. StreamsKept'
  <2>1. \A fd \in Fd : LET s == state'[fd].op["out"]
                       IN  s # NoOp /\ asked'[s.id].buf # wb => state[fd].op["out"] = s
    BY <1>3
  <2>2. \A id \in DOMAIN asked' : asked'[id].buf # wb =>
            id \in DOMAIN asked /\ asked'[id] = asked[id]
    BY <1>3
  <2>3. QED
    BY <1>1, <1>3, <1>10, <1>13, <2>1, <2>2, OtherStreams
<1>15. QED
  BY <1>3, <1>11, <1>12, <1>14 DEF BindInv

(* The rest goes back to the backend under the id that was reported.       *)
From(info, n) == [info EXCEPT !.from = n]

Resubmitted(wb, w) ==
    /\ Completes(wb, w) /\ UNCHANGED <<refs, closed, cut>>
    /\ w.q # <<>> /\ SubmitWrite(w.fd, WriteRequest(w))
    /\ wbuf' = [wbuf EXCEPT ![wb] = w]
    /\ asked' = [asked EXCEPT ![w.id] = From(asked[w.id], wrote[wb] - Unsent(w.q))]

LEMMA WriteResubmitted ==
    ASSUME BindInv, NEW wb, NEW w, Resubmitted(wb, w)
    PROVE  BindInv'
<1> DEFINE c == Head(out)
           q == Rest(wb, c).q
           all == wrote[wb]
           sent == wire[wb]
           left == Unsent(q)
           fd == asked[c.id].fd
           r == [id |-> c.id, kind |-> "write", len |-> left]
<1>0. /\ out # <<>> /\ out' = Tail(out)
      /\ UNCHANGED <<phase, batch, wrote, leaked, wire, socket, rsize, refs, closed, cut>>
      /\ c.kind = "write" /\ wb = asked[c.id].buf
      /\ w = Changed(wbuf[wb], Rest(wb, c).q, Rest(wb, c).buffered)
      /\ w.q # <<>> /\ SubmitWrite(w.fd, WriteRequest(w))
      /\ wbuf' = [wbuf EXCEPT ![wb] = w]
  BY DEF Resubmitted, Completes
<1>1. /\ wb \in WB /\ c.id[1] # 0
      /\ wbuf[wb].flying /\ wbuf[wb].id = c.id
      /\ wbuf[wb].fd = fd /\ fd \in Fd
      /\ \A id \in DOMAIN asked : asked[id].buf = wb => id = c.id
      /\ w \in Buffer /\ w.q = q /\ w.buffered = Queued(q)
      /\ w.flying = wbuf[wb].flying /\ w.id = wbuf[wb].id /\ w.fd = wbuf[wb].fd
      /\ q \in Seq(Entries) /\ Queued(q) <= all /\ left <= all
      /\ wb \in closed => q = <<>>
      /\ wb \notin closed => /\ sent <= all - left
                             /\ wb \notin cut => sent = all - left
  BY <1>0, WriteCompleted
<1>2. /\ TypeOK /\ IdsApart /\ DataOK /\ RequestsOK /\ QueuesCounted
      /\ PinsKept /\ KindsKept /\ StreamsKept /\ DOMAIN asked = Outstanding
  BY InvParts
<1>3. /\ c \in Handed /\ c.id \in Outstanding /\ c.id \in Id /\ c.id \in DOMAIN asked
      /\ KindFits(c, asked[c.id])
  <2>1. c \in Handed /\ c \in Completion /\ c.id \in Outstanding /\ KindFits(c, asked[c.id])
    BY <1>0, HeadFacts
  <2>2. QED
    BY <1>2, <2>1 DEF Completion
<1>4. /\ wbuf[wb] \in Buffer /\ all \in Nat /\ sent \in Nat /\ all \in 0..MaxWrote
  BY <1>1, <1>2, BufferFacts
<1>5. wb \notin closed /\ left \in Nat /\ left > 0 /\ left <= all
  BY <1>0, <1>1, QueueCounts
<1>6. left \in 1..MaxLen /\ all - left \in 0..MaxWrote
  <2>1. all \in 0..MaxWrote /\ left \in Nat /\ left > 0 /\ left <= all
    BY <1>4, <1>5
  <2> HIDE DEF left, all
  <2>2. QED
    BY <2>1, BoundFacts
<1>7. /\ r \in Request /\ r.id = c.id /\ r.kind = "write" /\ r.len = left
  BY <1>3, <1>6 DEF Request, Kind, OutKind
<1>8. Submit(fd, "out", r) /\ "out" \in Dir /\ r.kind \in OutKind /\ "out" # "in"
  <2>1. WriteRequest(w) = r /\ w.fd = fd
    BY <1>1 DEF WriteRequest
  <2>2. QED
    BY <1>0, <2>1 DEF SubmitWrite, Dir, OutKind
<1> DEFINE new == From(asked[c.id], all - left)
<1>9. /\ new \in RequestInfo /\ new.buf = wb /\ new.tok = asked[c.id].tok /\ new.fd = fd
      /\ new.from = all - left
  <2> DEFINE info == asked[c.id]
  <2>1. info \in RequestInfo /\ all - left \in 0..MaxWrote /\ info.buf = wb /\ info.fd = fd
    BY <1>0, <1>2, <1>3, <1>6 DEF RequestsOK
  <2> HIDE DEF all, left, info, fd
  <2>2. /\ From(info, all - left) \in RequestInfo /\ From(info, all - left).buf = info.buf
        /\ From(info, all - left).tok = info.tok /\ From(info, all - left).fd = info.fd
        /\ From(info, all - left).from = all - left
    BY <2>1 DEF RequestInfo, From
  <2>3. QED
    BY <2>1, <2>2 DEF info
<1>10. asked' = [asked EXCEPT ![c.id] = new]
  BY <1>1 DEF Resubmitted
<1> HIDE DEF new, r, c, q, left, all, sent, fd
<1>11. /\ DOMAIN asked' = Outstanding /\ asked'[c.id] = new
       /\ \A id \in Outstanding : id # c.id => asked'[id] = asked[id]
  BY <1>2, <1>3, <1>10
<1>12. /\ IdsApart' /\ Outstanding' = Outstanding
       /\ \A x \in Items' : x \in Items \/ x = r
       /\ sync' = sync
  <2>1. r.id = Head(out).id
    BY <1>7 DEF c
  <2>2. /\ IdsApart' /\ Outstanding' = Outstanding
        /\ \A x \in Items' : x \in Items \/ x = r
    BY <1>0, <1>1, <1>2, <1>7, <1>8, <2>1, ResubmitItems DEF c
  <2>3. sync' = sync
    BY <1>8 DEF Submit
  <2>4. QED
    BY <2>2, <2>3
<1>13. TypeOK'
  <2>1. CallOK'
    BY <1>0, <1>2, TailCallOK
  <2>2. QED
    BY <1>1, <1>2, <1>7, <1>8, <2>1, SubmitTypeOK, TypePartsNext
<1>14. \A id \in Outstanding : asked'[id].buf = asked[id].buf /\ asked'[id].tok = asked[id].tok
  BY <1>0, <1>1, <1>9, <1>11
<1>15. PinsKept'
  <2>1. leaked' = leaked \cup UNION {References(id) : id \in Outstanding \ Outstanding'}
    BY <1>0, <1>12
  <2>2. QED
    BY <1>0, <1>2, <1>11, <1>12, <1>14, <2>1, DropsKeepPins
<1>16. RequestsOK'
  BY <1>2, <1>9, <1>11 DEF RequestsOK
<1>17. KindsKept'
  <2>1. ASSUME NEW x \in Items'
        PROVE  \/ \E y \in Items : /\ y.id = x.id /\ y.kind = x.kind
                                   /\ asked'[x.id].buf = asked[x.id].buf
               \/ KindFits(x, asked'[x.id])
    <3>1. CASE x \in Items
      BY <1>14, <3>1, OutstandingIs
    <3>2. CASE x = r
      <4>1. asked'[c.id].buf = asked[c.id].buf
        BY <1>3, <1>14
      <4>2. c.kind = "write"
        BY <1>0
      <4>3. QED
        BY <1>3, <1>7, <3>2, <4>1, <4>2 DEF KindFits
    <3>3. QED
      BY <1>12, <3>1, <3>2
  <2>2. QED
    BY <1>2, <1>12, <2>1, KindsNext
<1>18. /\ wbuf'[wb] = w /\ wrote'[wb] = wrote[wb] /\ wire'[wb] = wire[wb]
       /\ \A b \in WB \ {wb} : Untouched(b)
  BY <1>0, <1>1, <1>2 DEF DataOK, Untouched
<1>19. DataOK' /\ QueuesCounted'
  <2>1. DataOK'
    BY <1>0, <1>1, <1>2 DEF DataOK
  <2>2. QueueCounted(wb)'
    BY <1>0, <1>1, <1>5, <1>18 DEF QueueCounted, all, left
  <2>3. QED
    BY <1>1, <1>2, <1>18, <2>1, <2>2, OtherCounts
<1>20. \A f \in Fd : state'[f].op["out"] = IF f = fd THEN r ELSE state[f].op["out"]
  BY <1>1, <1>2, <1>8, SubmitSlots
<1>21. \A e \in Handed' : e \in Handed /\ e.id # c.id
  BY <1>0, <1>2, TailFacts DEF IdsApart, c
<1>22. \A f \in Fd : state[f].op["out"] # NoOp => state[f].op["out"].id # c.id
  <2>1. c.id \notin Pending
    BY <1>2, <1>3 DEF IdsApart, OutApart
  <2>2. QED
    BY <1>8, <2>1, PendingIs
<1>23. \A id \in DOMAIN asked' : asked'[id].buf = wb => id = c.id
  BY <1>1, <1>2, <1>11, <1>14
<1>24. Taken(wb, 0)' = all - left /\ InStep(wb, 0)'
  <2>1. Taken(wb, 0)' = all - left + 0
    BY <1>1, <1>18 DEF Taken, all, left
  <2>2. Taken(wb, 0)' = all - left
    <3>1. all \in Nat /\ left \in Nat
      BY <1>4, <1>5
    <3>2. QED
      BY <2>1, <3>1
  <2>3. wire'[wb] = sent
    BY <1>18 DEF sent
  <2>4. QED
    BY <1>0, <1>1, <1>5, <2>2, <2>3 DEF InStep
<1>25. StreamOK(wb)'
  <2>1. WriteWaits(wb)'
    <3>1. ASSUME NEW f \in Fd, state'[f].op["out"] # NoOp,
                 asked'[state'[f].op["out"].id].buf = wb
          PROVE  state'[f].op["out"] = r /\ f = fd
      <4>1. state'[f].op["out"] \in Items'
        BY <1>8, <3>1, NextItems
      <4>2. state'[f].op["out"].id \in DOMAIN asked'
        BY <1>11, <1>12, <4>1, OutstandingIs
      <4>3. state'[f].op["out"].id = c.id
        BY <1>23, <3>1, <4>2
      <4>4. QED
        BY <1>20, <1>22, <3>1, <4>3
    <3>2. /\ wb \notin closed' /\ asked'[r.id].fd = fd
          /\ r.len <= Unsent(wbuf'[wb].q)
          /\ asked'[r.id].from = Taken(wb, 0)' /\ InStep(wb, 0)'
      <4>1. r.len <= Unsent(wbuf'[wb].q)
        <5>1. Unsent(wbuf'[wb].q) = left
          BY <1>1, <1>18 DEF left
        <5>2. left <= left
          BY <1>5
        <5>3. QED
          BY <1>7, <5>1, <5>2
      <4>2. QED
        BY <1>0, <1>3, <1>5, <1>7, <1>9, <1>11, <1>24, <4>1
    <3>3. \A f \in Fd : LET x == state'[f].op["out"]
                        IN  x # NoOp /\ asked'[x.id].buf = wb => x = r /\ f = fd
      BY <3>1
    <3>4. QED
      BY <3>2, <3>3 DEF WriteWaits
  <2>2. WriteHanded(wb)'
    <3>1. ASSUME NEW e \in Handed'
          PROVE  asked'[e.id].buf # wb
      <4>1. e \in Items
        BY <1>21 DEF Items
      <4>2. e.id \in DOMAIN asked'
        BY <1>11, <4>1, OutstandingIs
      <4>3. QED
        BY <1>21, <1>23, <4>2
    <3>2. QED
      BY <3>1 DEF WriteHanded
  <2>3. WriteKnown(wb)' /\ WriteRests(wb)'
    BY <1>1, <1>3, <1>9, <1>11, <1>18, <1>23 DEF WriteKnown, WriteRests
  <2>4. QED
    BY <2>1, <2>2, <2>3 DEF StreamOK
<1>26. StreamsKept'
  <2>1. \A f \in Fd : LET x == state'[f].op["out"]
                      IN  x # NoOp /\ asked'[x.id].buf # wb => state[f].op["out"] = x
    BY <1>7, <1>9, <1>11, <1>20
  <2>2. \A id \in DOMAIN asked' : asked'[id].buf # wb =>
            id \in DOMAIN asked /\ asked'[id] = asked[id]
    BY <1>2, <1>9, <1>11
  <2>3. QED
    BY <1>1, <1>15, <1>18, <1>21, <1>25, <2>1, <2>2, OtherStreams
<1>27. QED
  BY <1>12, <1>13, <1>15, <1>16, <1>17, <1>19, <1>26 DEF BindInv

LEMMA CompletionIs ==
    ASSUME BindInv, async_completions, Head(out).kind = "write"
    PROVE  \E wb, w : Resubmitted(wb, w) \/ \E rest : Finished(wb, w, rest)
<1> DEFINE c == Head(out)
           wb == asked[c.id].buf
           s == Consumed(wbuf[wb], c.bytes)
           w == Changed(wbuf[wb], s.q, s.buffered)
           rest == c.status = "success" /\ w.q # <<>>
<1>1. /\ out # <<>> /\ out' = Tail(out) /\ c.id[1] # NOREF
      /\ UNCHANGED <<phase, batch, wrote, leaked, wire, socket>>
  BY CompletionCases
<1>2. wb \in WB /\ c.id[1] # 0 /\ refs.slot[c.id[1]] = wb
  BY <1>1, WriteCompleted
<1>3. wb_on_completion(c, wb) /\ UNCHANGED rsize
  BY <1>2, CompletionCases
<1>4. \/ /\ rest /\ SubmitWrite(w.fd, WriteRequest(w))
         /\ wbuf' = [wbuf EXCEPT ![wb] = w]
         /\ asked' = [asked EXCEPT ![w.id].from = wrote[wb] - Unsent(w.q)]
         /\ UNCHANGED <<refs, closed, cut>>
      \/ /\ Emit(c) /\ (rest => MayRefuse(w.fd, "out"))
         /\ wbuf' = [wbuf EXCEPT ![wb] =
                        IF c.status = "success" /\ ~rest
                        THEN Landed(w) ELSE Landed(Changed(wbuf[wb], <<>>, 0))]
         /\ cut' = IF rest THEN cut \cup {wb} ELSE cut
         /\ closed' = IF c.status = "success" THEN closed ELSE closed \cup {wb}
  BY <1>3 DEF wb_on_completion, Changed, Cleared
<1>5. w = Changed(wbuf[wb], Rest(wb, c).q, Rest(wb, c).buffered)
  BY DEF Rest
<1>6. rest \in BOOLEAN
  OBVIOUS
<1>7. c = Head(out) /\ wb = asked[Head(out).id].buf
  OBVIOUS
<1>8. Completes(wb, w)
  BY <1>1, <1>3, <1>5, <1>7 DEF Completes
<1>9. Resubmitted(wb, w) \/ Finished(wb, w, rest)
  BY <1>4, <1>6, <1>8 DEF Resubmitted, Finished, From
<1> HIDE DEF w, s, wb, rest
<1>10. QED
  BY <1>9

LEMMA CompletionsKeep ==
    ASSUME BindInv, async_completions
    PROVE  BindInv'
<1>1. CASE Head(out).kind # "write"
  BY <1>1, OthersReported
<1>2. CASE Head(out).kind = "write"
  BY <1>2, CompletionIs, WriteResubmitted, WriteReported
<1>3. QED
  BY <1>1, <1>2

-------------------------------------------------------------------------------
(* The loop over the events.  A completion of a write is of the slot that  *)
(* waited for it, and of no more bytes than were waiting.                  *)
LEMMA FreshWrite ==
    ASSUME BindInv, NEW fd \in Fd, HandleEvent(fd),
           NEW b \in WB, NEW c \in Fresh, asked[c.id].buf = b
    PROVE  LET r == state[fd].op["out"]
           IN  /\ "out" \in Served(fd) /\ r # NoOp /\ r.id = c.id /\ asked[r.id].buf = b
               /\ c.bytes \in Nat /\ c.bytes <= r.len /\ r.len \in Nat
               /\ c.bytes <= Unsent(wbuf[b].q)
<1>1. /\ TypeOK /\ IdsApart /\ KindsKept /\ StreamsKept /\ DataOK
  BY InvParts
<1>2. Handle(fd)
  BY DEF HandleEvent
<1>3. PICK d \in Served(fd) : c \in Outcomes(state[fd].op[d])
  BY <1>1, <1>2, HandleItems
<1>4. d \in Dir /\ state[fd].op[d] # NoOp
  BY <1>1, <1>3, ServedDirs
<1> DEFINE r == state[fd].op[d]
<1>5. r \in Request /\ r \in Items
  BY <1>1, <1>4, ItemIs DEF TypeOK
<1>6. r.id = c.id /\ c.bytes \in 0..r.len /\ r.len \in Nat
  BY <1>3, <1>5, ConstantFacts DEF Outcomes, Request
<1>7. r.kind = "write"
  BY <1>1, <1>5, <1>6 DEF KindsKept, KindFits
<1>8. d = "out"
  BY <1>1, <1>4, <1>7 DEF TypeOK, Dir, InKind
<1>9. r.len <= Unsent(wbuf[b].q) /\ Unsent(wbuf[b].q) \in Nat
  <2>1. StreamOK(b) /\ Unsent(wbuf[b].q) \in Nat
    BY <1>1, BufferFacts DEF StreamsKept
  <2>2. QED
    BY <1>4, <1>6, <1>8, <2>1 DEF StreamOK, WriteWaits
<1>10. c.bytes <= Unsent(wbuf[b].q)
  <2> DEFINE unsent == Unsent(wbuf[b].q)
             len == r.len
             bytes == c.bytes
  <2>1. bytes \in 0..len /\ len \in Nat /\ len <= unsent /\ unsent \in Nat
    BY <1>6, <1>9
  <2> HIDE DEF unsent, len, bytes
  <2>2. bytes <= unsent
    BY <2>1
  <2>3. QED
    BY <2>2 DEF unsent, bytes
<1>11. c.bytes \in Nat /\ c.bytes <= r.len
  BY <1>6
<1>12. QED
  BY <1>3, <1>4, <1>6, <1>8, <1>10, <1>11

LEMMA WireIs ==
    ASSUME BindInv, NEW fd \in Fd, HandleEvent(fd), NEW b \in WB
    PROVE  /\ (\A c \in Fresh : asked[c.id].buf # b) => wire'[b] = wire[b]
           /\ \A c \in Fresh : asked[c.id].buf = b => wire'[b] = wire[b] + c.bytes
<1> DEFINE sent == {c \in Fresh : asked[c.id].buf = b}
           last == CHOOSE c \in sent : TRUE
<1>1. wire'[b] = IF sent = {} THEN wire[b] ELSE wire[b] + last.bytes
  BY DEF HandleEvent
<1>2. /\ Handle(fd) /\ TypeOK /\ IdsApart
  BY InvParts DEF HandleEvent
<1>3. \A c, e \in Fresh : c.id = e.id => c = e
  BY <1>2, HandleItems
<1>4. ASSUME NEW c \in Fresh, asked[c.id].buf = b
      PROVE  wire'[b] = wire[b] + c.bytes
  <2>1. c \in sent
    BY <1>4
  <2>2. last \in sent
    BY <2>1
  <2>3. last \in Fresh /\ asked[last.id].buf = b
    BY <2>2
  <2> HIDE DEF last
  <2>4. last.id = c.id
    BY <1>4, <2>3, FreshWrite
  <2>5. last = c
    BY <1>3, <2>3, <2>4
  <2>6. QED
    BY <1>1, <2>1, <2>5
<1>5. QED
  BY <1>1, <1>4

LEMMA HandleKeeps ==
    ASSUME BindInv, NEW fd \in Fd, HandleEvent(fd)
    PROVE  BindInv'
<1>1. /\ TypeOK /\ IdsApart /\ DataOK /\ RequestsOK /\ QueuesCounted
      /\ PinsKept /\ KindsKept /\ StreamsKept /\ DOMAIN asked = Outstanding
  BY InvParts
<1>2. /\ Handle(fd) /\ UNCHANGED <<refs, buffers, asked, leaked, socket>>
      /\ UNCHANGED <<wbuf, rsize, closed, cut, wrote>>
  BY DEF HandleEvent, buffers
<1>3. /\ IdsApart' /\ Outstanding' = Outstanding
      /\ Handed' = Handed \cup Fresh
      /\ \A c \in Fresh : \E d \in Served(fd) : c \in Outcomes(state[fd].op[d])
      /\ \A c, e \in Fresh : c.id = e.id => c = e
  BY <1>1, <1>2, HandleItems
<1>4. TypeOK' /\ sync' = sync
  BY <1>1, <1>2, HandleTypeOK DEF Handle
<1>5. PinsKept' /\ RequestsOK'
  <2>1. leaked' = leaked \cup UNION {References(id) : id \in Outstanding \ Outstanding'}
    BY <1>2, <1>3
  <2>2. \A id \in Outstanding' : asked'[id].buf = asked[id].buf /\ asked'[id].tok = asked[id].tok
    BY <1>2
  <2>3. DOMAIN asked' = Outstanding'
    BY <1>1, <1>2, <1>3
  <2>4. PinsKept'
    BY <1>1, <1>2, <1>3, <2>1, <2>2, <2>3, DropsKeepPins
  <2>5. QED
    BY <1>1, <1>2, <2>4 DEF RequestsOK
<1>6. \A f \in Fd, e \in Dir :
          state'[f].op[e] = IF f = fd /\ e \in Served(fd) THEN NoOp ELSE state[f].op[e]
  BY <1>1, <1>2, HandleSlots
<1>7. KindsKept'
  <2>1. ASSUME NEW x \in Items'
        PROVE  \E y \in Items : /\ y.id = x.id /\ y.kind = x.kind
                                /\ asked'[x.id].buf = asked[x.id].buf
    <3>1. CASE x \in Items
      BY <1>2, <3>1
    <3>2. CASE x \in Fresh
      <4>1. PICK d \in Served(fd) : x \in Outcomes(state[fd].op[d])
        BY <1>3, <3>2
      <4>2. state[fd].op[d] \in Items
        BY <1>1, <4>1, ServedDirs, ItemIs
      <4>3. state[fd].op[d].id = x.id /\ state[fd].op[d].kind = x.kind
        BY <4>1 DEF Outcomes
      <4>4. QED
        BY <1>2, <4>2, <4>3
    <3>3. x \in Items \/ x \in Fresh
      <4>1. CASE \E f \in Fd, d \in Dir : state'[f].op[d] # NoOp /\ x = state'[f].op[d]
        BY <1>6, <4>1, ItemIs
      <4>2. CASE \E i \in DOMAIN sync' : x = sync'[i]
        BY <1>4, <4>2, ItemIs
      <4>3. CASE x \in Handed'
        BY <1>3, <4>3, ItemIs
      <4>4. QED
        BY <4>1, <4>2, <4>3, NextItems
    <3>4. QED
      BY <3>1, <3>2, <3>3
  <2>2. \A i \in DOMAIN sync' : \E j \in DOMAIN sync : sync'[i] = sync[j]
    BY <1>4
  <2>3. QED
    BY <1>1, <2>1, <2>2, KindsNext
<1>8. QueuesCounted'
  BY <1>1, <1>2 DEF QueuesCounted, QueueCounted
<1>9. ASSUME NEW b \in WB
      PROVE  wire'[b] \in 0..MaxWrote /\ StreamOK(b)'
  <2>1. StreamOK(b) /\ QueueCounted(b)
    BY <1>1, <1>9 DEF StreamsKept, QueuesCounted
  <2>2. /\ wrote[b] \in 0..MaxWrote /\ wire[b] \in 0..MaxWrote /\ Unsent(wbuf[b].q) \in Nat
    BY <1>1, <1>9, BufferFacts
  <2>3. CASE \A c \in Fresh : asked[c.id].buf # b
    <3>1. wire'[b] = wire[b]
      BY <1>9, <2>3, WireIs
    <3>2. Untouched(b)
      BY <1>2, <3>1 DEF Untouched
    <3>3. \A f \in Fd : LET r == state'[f].op["out"]
                        IN  r # NoOp /\ asked'[r.id].buf = b => state[f].op["out"] = r
      BY <1>6 DEF Dir
    <3>4. \A c \in Handed' : asked'[c.id].buf = b => c \in Handed
      BY <1>2, <1>3, <2>3
    <3>5. \A id \in DOMAIN asked' : id \in DOMAIN asked /\ asked'[id] = asked[id]
      BY <1>2
    <3>6. QED
      BY <1>1, <1>5, <2>1, <2>2, <3>1, <3>2, <3>3, <3>4, <3>5, StreamFrame
  <2>4. CASE \E c \in Fresh : asked[c.id].buf = b
    <3>1. PICK c \in Fresh : asked[c.id].buf = b
      BY <2>4
    <3> DEFINE r == state[fd].op["out"]
    <3>2. /\ "out" \in Served(fd) /\ r # NoOp /\ r.id = c.id /\ asked[r.id].buf = b
          /\ c.bytes \in Nat /\ c.bytes <= Unsent(wbuf[b].q)
      BY <1>9, <3>1, FreshWrite
    <3>3. wire'[b] = wire[b] + c.bytes
      BY <1>9, <3>1, WireIs
    <3>4. /\ b \notin closed /\ asked[c.id].from = Taken(b, 0) /\ InStep(b, 0)
      BY <2>1, <3>2 DEF StreamOK, WriteWaits
    <3>5. "out" \in Dir /\ r \in Items
      BY <3>2, ItemIs DEF Dir
    <3>6. c.id \in DOMAIN asked
      BY <1>1, <3>2, <3>5, OutstandingIs
    <3>7. \A id \in DOMAIN asked : asked[id].buf = b => id = c.id
      BY <2>1, <3>1, <3>6 DEF StreamOK, WriteKnown
    <3> DEFINE all == wrote[b]
               unsent == Unsent(wbuf[b].q)
               sent == wire[b]
               bytes == c.bytes
    <3>8. /\ sent <= all - unsent + 0 /\ (b \notin cut => sent = all - unsent + 0)
          /\ sent \in 0..MaxWrote /\ all \in 0..MaxWrote /\ unsent \in Nat
          /\ bytes \in Nat /\ bytes <= unsent
      BY <2>2, <3>2, <3>4 DEF InStep, Taken
    <3>9. /\ wire'[b] = sent + bytes /\ Taken(b, bytes)' = all - unsent + bytes
          /\ Taken(b, 0)' = Taken(b, 0)
      BY <1>2, <3>3 DEF Taken
    <3> HIDE DEF all, unsent, sent, bytes
    <3>10. /\ sent + bytes \in 0..MaxWrote /\ sent + bytes <= all - unsent + bytes
           /\ (b \notin cut => sent + bytes = all - unsent + bytes)
      BY <3>8, BoundFacts
    <3>11. InStep(b, bytes)'
      BY <1>2, <3>9, <3>10 DEF InStep
    <3>12. WriteWaits(b)'
      <4>1. ASSUME NEW f \in Fd, state'[f].op["out"] # NoOp
            PROVE  asked'[state'[f].op["out"].id].buf # b
        <5> DEFINE s == state[f].op["out"]
        <5>1. s # NoOp /\ state'[f].op["out"] = s /\ f # fd
          BY <1>6, <3>2, <3>5, <4>1
        <5>2. s.id \in DOMAIN asked
          BY <1>1, <3>5, <5>1, ItemIs, OutstandingIs
        <5>3. s.id # r.id
          <6>1. ASSUME s.id = r.id PROVE FALSE
            BY <1>1, <3>2, <3>5, <5>1, <6>1, OneSlot
          <6>2. QED
            BY <6>1
        <5>4. QED
          BY <1>2, <3>2, <3>7, <5>1, <5>2, <5>3
      <4>2. QED
        BY <4>1 DEF WriteWaits
    <3>13. WriteHanded(b)'
      <4>1. ASSUME NEW e \in Handed', asked'[e.id].buf = b
            PROVE  e = c
        <5>1. e \in Items'
          BY NextItems
        <5>2. e.id = c.id
          BY <1>1, <1>2, <1>3, <3>7, <4>1, <5>1, OutstandingIs
        <5>3. e \notin Handed
          BY <1>1, <3>2, <3>5, <5>2, PendingIs DEF IdsApart, OutApart
        <5>4. QED
          BY <1>3, <3>1, <5>2, <5>3
      <4>2. c.bytes <= Unsent(wbuf'[b].q) /\ asked'[c.id].from = Taken(b, 0)'
        BY <1>2, <3>2, <3>4, <3>9
      <4>3. InStep(b, c.bytes)'
        BY <3>11 DEF bytes
      <4>4. QED
        BY <4>1, <4>2, <4>3 DEF WriteHanded
    <3>14. WriteKnown(b)' /\ WriteRests(b)'
      BY <1>2, <2>1, <3>1, <3>6 DEF StreamOK, WriteKnown, WriteRests
    <3>15. QED
      BY <3>9, <3>10, <3>12, <3>13, <3>14 DEF StreamOK
  <2>5. QED
    BY <2>3, <2>4
<1>10. DataOK'
  <2>1. wire' \in [WB -> 0..MaxWrote]
    <3>1. wire' = [b \in WB |-> wire'[b]]
      BY DEF HandleEvent
    <3>2. QED
      BY <1>9, <3>1
  <2>2. QED
    BY <1>1, <1>2, <2>1 DEF DataOK
<1>11. StreamsKept'
  BY <1>9 DEF StreamsKept
<1>12. QED
  BY <1>3, <1>4, <1>5, <1>7, <1>8, <1>10, <1>11 DEF BindInv

-------------------------------------------------------------------------------
(* The invariant of the binding.                                           *)
LEMMA InitBindInv == BindInit => BindInv
<1> SUFFICES ASSUME BindInit PROVE BindInv
  OBVIOUS
<1>1. TypeOK
  BY InitTypeOK DEF BindInit
<1>2. /\ state = [fd \in Fd |-> Idle] /\ sync = <<>> /\ out = <<>>
      /\ refs = R!EmptyTable /\ asked = <<>> /\ leaked = {} /\ closed = {} /\ cut = {}
      /\ wbuf = [b \in WB |-> NewWriteBuf] /\ rsize = [b \in RB |-> 0]
      /\ wrote = [b \in WB |-> 0] /\ wire = [b \in WB |-> 0] /\ socket = [fd \in Fd |-> 0]
  BY DEF BindInit, Init
<1>3. \A fd \in Fd, d \in Dir : state[fd].op[d] = NoOp
  BY <1>2 DEF Idle
<1>4. DOMAIN sync = {} /\ DOMAIN out = {} /\ Handed = {} /\ DOMAIN asked = {}
  BY <1>2 DEF Handed
<1>5. Items = {} /\ Outstanding = {}
  <2>1. \A x : x \notin Items
    BY <1>3, <1>4, ItemIs
  <2>2. QED
    BY <2>1, OutstandingIs
<1>6. IdsApart
  BY <1>3, <1>4 DEF IdsApart, Distinct, SlotsDistinct, PlacesDistinct, SlotsApart, OutOnce, OutApart
<1>7. NewWriteBuf \in Buffer /\ NewWriteBuf.q = <<>> /\ NewWriteBuf.buffered = 0
      /\ ~NewWriteBuf.flying
  BY EmptyQueue DEF NewWriteBuf, Buffer
<1>8. DataOK
  BY <1>2, <1>7, BoundFacts DEF DataOK
<1>9. RequestsOK /\ KindsKept
  BY <1>4, <1>5 DEF RequestsOK, KindsKept
<1>10. ASSUME NEW b \in WB
       PROVE  QueueCounted(b) /\ StreamOK(b)
  <2>1. /\ wbuf[b].q = <<>> /\ wbuf[b].buffered = 0 /\ ~wbuf[b].flying
        /\ wrote[b] = 0 /\ wire[b] = 0
    BY <1>2, <1>7
  <2>2. Queued(wbuf[b].q) = 0 /\ Unsent(wbuf[b].q) = 0
    BY <2>1, EmptyQueue
  <2>3. QueueCounted(b)
    BY <2>1, <2>2 DEF QueueCounted
  <2>4. InStep(b, 0)
    <3>1. Taken(b, 0) = 0
      BY <2>1, <2>2 DEF Taken
    <3>2. QED
      BY <2>1, <3>1 DEF InStep
  <2>5. WriteWaits(b) /\ WriteHanded(b) /\ WriteKnown(b) /\ WriteRests(b)
    BY <1>3, <1>4, <2>4 DEF WriteWaits, WriteHanded, WriteKnown, WriteRests, Dir
  <2>6. QED
    BY <2>3, <2>5 DEF StreamOK
<1>11. PinsKept
  <2>1. TableFits(refs) /\ R!Live(refs) = {}
    <3>1. refs.top = 1 /\ refs.free = {} /\ refs = [top |-> 1, free |-> {}, slot |-> [i \in {} |-> NIL]]
      BY <1>2 DEF R!EmptyTable, R!FREELIST
    <3>2. R!Live(refs) = {}
      BY <3>1 DEF R!Live
    <3>3. L!TableOK(refs)
      BY <3>1 DEF L!TableOK
    <3>4. QED
      BY <3>1, <3>2, <3>3, LimitFacts DEF TableFits
  <2>2. QED
    BY <1>2, <1>4, <1>5, <2>1 DEF PinsKept, PinsHeld, PinsAccounted
<1>12. QED
  BY <1>1, <1>6, <1>8, <1>9, <1>10, <1>11 DEF BindInv, QueuesCounted, StreamsKept

LEMMA ScriptSubmits ==
    ASSUME NEW fd \in Fd, NEW kind \in Kind, NEW tok \in UdataFor[kind],
           BindInv,
           \/ kind = "read" /\ \E rb \in RB : async_submit_read(fd, rb, tok)
           \/ kind = "write" /\ \E wb \in WB : async_submit_write(fd, wb, tok)
           \/ kind \in {"accept", "fd_poll"} /\ async_submit_udata(fd, kind, tok)
           \/ kind \in FileKind /\ async_submit_file(kind, tok)
           \/ kind = "connect" /\ async_submit_connect(fd, tok)
    PROVE  BindInv'
<1>1. tok \in Udata
  BY UdataForIsUdata
<1>2. QED
  BY <1>1, ReadKeeps, WriteKeeps, UdataKeeps, FileKeeps, ConnectKeeps

LEMMA NextBindInv ==
    ASSUME BindInv, [BindNext]_bvars
    PROVE  BindInv'
<1>1. CASE UNCHANGED bvars
  BY <1>1, QuietSteps
<1>2. ASSUME NEW fd \in Fd, NEW kind \in Kind, NEW tok \in UdataFor[kind],
             \/ kind = "read" /\ \E rb \in RB : async_submit_read(fd, rb, tok)
             \/ kind = "write" /\ \E wb \in WB : async_submit_write(fd, wb, tok)
             \/ kind \in {"accept", "fd_poll"} /\ async_submit_udata(fd, kind, tok)
             \/ kind \in FileKind /\ async_submit_file(kind, tok)
             \/ kind = "connect" /\ async_submit_connect(fd, tok)
      PROVE  BindInv'
  BY <1>2, ScriptSubmits
<1>3. ASSUME NEW fd \in Fd, async_cancel(fd) \/ HandleEvent(fd) \/ close(fd) \/ open_socket(fd)
      PROVE  BindInv'
  BY <1>3, CancelKeeps, HandleKeeps, QuietSteps
<1>4. ASSUME NEW wb \in WB, wb_close(wb) \/ \E n \in 1..2 : wb_write(wb, n)
      PROVE  BindInv'
  BY <1>4, WbCloseKeeps, WbWriteKeeps
<1>5. ASSUME NEW rb \in RB, NEW n \in 1..Cap, rb_read(rb, n)
      PROVE  BindInv'
  BY <1>5, QuietSteps
<1>6. ASSUME NEW mode \in {"poll", "wait"}, async_poll(mode)
      PROVE  BindInv'
  BY <1>6, PollKeeps
<1>7. CASE async_completions \/ async_stop \/ InCall \/ Peer
  BY <1>7, CompletionsKeep, StopKeeps, QuietSteps
<1>8. QED
  BY <1>1, <1>2, <1>3, <1>4, <1>5, <1>6, <1>7 DEF BindNext

LEMMA BindInvAlways == BindSpec => []BindInv
<1>1. BindInv /\ [BindNext]_bvars => BindInv'
  BY NextBindInv
<1>2. QED
  BY InitBindInv, <1>1, PTL DEF BindSpec

-------------------------------------------------------------------------------
(* What follows from it.                                                   *)
LEMMA TypesFollow ==
    ASSUME BindInv
    PROVE  BindTypeOK
<1>1. /\ TypeOK /\ DataOK /\ RequestsOK /\ QueuesCounted /\ PinsKept /\ DOMAIN asked = Outstanding
  BY InvParts
<1>2. refs \in [top : 1..MaxStack, free : SUBSET (2..MaxStack), slot : [2..refs.top -> Values]]
  <2>1. L!TableOK(refs) /\ refs.top <= MaxStack
    BY <1>1 DEF PinsKept, TableFits
  <2>2. /\ refs \in [top : Nat \ {0}, free : SUBSET Nat, slot : [2..refs.top -> Values]]
        /\ refs.free \subseteq 2..(refs.top - 1)
    BY <2>1 DEF L!TableOK
  <2> DEFINE top == refs.top
             free == refs.free
             slot == refs.slot
  <2>3. top \in 1..MaxStack /\ free \in SUBSET (2..MaxStack)
    BY <2>1, <2>2, LimitFacts
  <2>4. slot \in [2..top -> Values] /\ refs = [top |-> top, free |-> free, slot |-> slot]
    BY <2>2
  <2> HIDE DEF top, free, slot
  <2>5. refs.top = top
    BY <2>4
  <2>6. QED
    BY <2>3, <2>4, <2>5
<1>3. ASSUME NEW b \in WB
      PROVE  /\ wbuf[b].q \in Seq([len : 1..MaxWrote, offset : 0..MaxWrote])
             /\ \A k \in DOMAIN wbuf[b].q : wbuf[b].q[k].offset < wbuf[b].q[k].len
             /\ wbuf[b].buffered \in 0..MaxWrote /\ wbuf[b].flying \in BOOLEAN
  <2>1. /\ wbuf[b].q \in Seq(Entries) /\ wbuf[b].flying \in BOOLEAN /\ wbuf[b].buffered \in Int
        /\ wrote[b] \in 0..MaxWrote /\ Queued(wbuf[b].q) \in Nat
    BY <1>1, BufferFacts
  <2>2. wbuf[b].buffered = Queued(wbuf[b].q) /\ wbuf[b].buffered <= wrote[b]
    BY <1>1 DEF QueuesCounted, QueueCounted
  <2> DEFINE q == wbuf[b].q
             buffered == wbuf[b].buffered
             all == wrote[b]
  <2>3. buffered \in Nat /\ all \in 0..MaxWrote /\ buffered <= all
    BY <2>1, <2>2
  <2>4. q \in Seq(Entries)
    BY <2>1
  <2> HIDE DEF q, buffered, all
  <2>5. buffered \in 0..MaxWrote
    BY <2>3, BoundFacts
  <2>6. DOMAIN q = 1..Len(q) /\ \A k \in DOMAIN q : q[k] \in Entries
    BY <2>4
  <2>7. \A k \in DOMAIN q : q[k].offset < q[k].len
    BY <2>6 DEF Entries
  <2>8. Entries \subseteq [len : 1..MaxWrote, offset : 0..MaxWrote]
    BY DEF Entries
  <2>9. q \in Seq([len : 1..MaxWrote, offset : 0..MaxWrote])
    <3> DEFINE S == [len : 1..MaxWrote, offset : 0..MaxWrote]
    <3>1. q \in [1..Len(q) -> Entries] /\ Len(q) \in Nat
      BY <2>4
    <3>2. \A k \in 1..Len(q) : q[k] \in S
      BY <2>8, <3>1
    <3> HIDE DEF S
    <3>3. q \in [1..Len(q) -> S]
      BY <3>1, <3>2
    <3>4. q \in Seq(S)
      BY <3>1, <3>3, SeqDef
    <3>5. QED
      BY <3>4 DEF S
  <2>10. QED
    BY <2>1, <2>5, <2>7, <2>9 DEF q, buffered
<1>4. leaked \in SUBSET (2..MaxStack)
  BY <1>1, LiveFits DEF PinsKept, PinsAccounted
<1>5. QED
  BY <1>1, <1>2, <1>3, <1>4 DEF BindTypeOK, DataOK, RequestsOK

LEMMA WritesAre ==
    ASSUME BindInv, NEW x \in Writes
    PROVE  /\ x[1] \in Fd /\ x[2] = state[x[1]].op["out"] /\ x[2] # NoOp
           /\ asked[x[2].id].buf \in WB /\ x[2].id \in DOMAIN asked /\ x[2] \in Items
<1>1. /\ TypeOK /\ KindsKept /\ DOMAIN asked = Outstanding
  BY InvParts
<1>2. PICK fd \in Fd : \E r \in Ops(fd) : r.kind = "write" /\ x = <<fd, r>>
  BY DEF Writes
<1>3. PICK r \in Ops(fd) : r.kind = "write" /\ x = <<fd, r>>
  BY <1>2
<1>4. PICK d \in Dir : state[fd].op[d] # NoOp /\ r = state[fd].op[d]
  BY DEF Ops, Mask
<1>5. d = "out"
  BY <1>1, <1>3, <1>4 DEF TypeOK, Dir, InKind
<1>6. r \in Items
  BY <1>4, ItemIs
<1>7. asked[r.id].buf \in WB /\ r.id \in DOMAIN asked
  BY <1>1, <1>3, <1>6, OutstandingIs DEF KindsKept, KindFits
<1>8. QED
  BY <1>3, <1>4, <1>5, <1>6, <1>7

LEMMA StreamsFollow ==
    ASSUME BindInv
    PROVE  WriteBufSound /\ StreamInOrder
<1>1. /\ QueuesCounted /\ StreamsKept /\ DOMAIN asked = Outstanding
  BY InvParts
<1>2. OneWritePerBuf
  <2>1. ASSUME NEW id \in Outstanding, NEW other \in Outstanding,
               asked[id].buf = asked[other].buf, asked[id].buf \in WB
        PROVE  id = other /\ wbuf[asked[id].buf].flying /\ wbuf[asked[id].buf].id = id
    <3>1. WriteKnown(asked[id].buf)
      BY <1>1, <2>1 DEF StreamsKept, StreamOK
    <3>2. QED
      BY <1>1, <2>1, <3>1 DEF WriteKnown
  <2>2. QED
    BY <2>1 DEF OneWritePerBuf
<1>3. ASSUME NEW x \in Writes
      PROVE  LET info == asked[x[2].id]
             IN  /\ x[2].len <= Unsent(wbuf[info.buf].q)
                 /\ info.buf \notin cut => info.from = wire[info.buf]
  <2> DEFINE b == asked[x[2].id].buf
  <2>1. /\ x[1] \in Fd /\ x[2] = state[x[1]].op["out"] /\ x[2] # NoOp /\ b \in WB
    BY WritesAre
  <2>2. WriteWaits(b)
    BY <1>1, <2>1 DEF StreamsKept, StreamOK
  <2>3. /\ x[2].len <= Unsent(wbuf[b].q) /\ asked[x[2].id].from = Taken(b, 0) /\ InStep(b, 0)
    BY <2>1, <2>2 DEF WriteWaits
  <2>4. QED
    BY <2>3 DEF InStep
<1>4. IovBacked /\ StreamInOrder
  BY <1>3 DEF IovBacked, StreamInOrder
<1>5. BufferedIsQueued
  BY <1>1 DEF QueuesCounted, QueueCounted, BufferedIsQueued
<1>6. QED
  BY <1>2, <1>4, <1>5 DEF WriteBufSound

(* BindTypeOK: every variable of the binding keeps its type; the binding   *)
(* knows what each outstanding id was submitted with, no queue holds a     *)
(* string that is sent, and no count or reference leaves its range.        *)
THEOREM BindTypeCorrect == BindSpec => []BindTypeOK
<1>1. BindInv => BindTypeOK
  BY TypesFollow
<1>2. QED
  BY <1>1, BindInvAlways, PTL

(* PinsHeld: until a request is reported the references its id packs hold  *)
(* the buffer and the udata it was submitted with, and are nobody else's,  *)
(* whether luaref_ref failed for one of them, or for others, or not (pin,  *)
(* pin_udata, pin_release).                                                *)
THEOREM PinsAreHeld == BindSpec => []PinsHeld
<1>1. BindInv => PinsHeld
  BY DEF BindInv, PinsKept
<1>2. QED
  BY <1>1, BindInvAlways, PTL

(* PinsAccounted: every reference in use is of a request that will be      *)
(* reported, or of one that cancel, stop or an abandoned iterator dropped: *)
(* refusals and reports leave none behind.                                 *)
THEOREM PinsAreAccounted == BindSpec => []PinsAccounted
<1>1. BindInv => PinsAccounted
  BY DEF BindInv, PinsKept
<1>2. QED
  BY <1>1, BindInvAlways, PTL

(* WriteBufSound: a write_buf has one write under way at most and knows    *)
(* its id; the strings the write points to are still in the queue, and     *)
(* buffered() is what the queue holds, through every partial send,         *)
(* refusal, resubmission and close.                                        *)
THEOREM WriteBufsSound == BindSpec => []WriteBufSound
<1>1. BindInv => WriteBufSound
  BY StreamsFollow
<1>2. QED
  BY <1>1, BindInvAlways, PTL

(* StreamInOrder: every write, resubmitted ones included, starts at the    *)
(* first byte of the stream that the kernel has not taken, unless bytes    *)
(* were dropped before.                                                    *)
THEOREM StreamsInOrder == BindSpec => []StreamInOrder
<1>1. BindInv => StreamInOrder
  BY StreamsFollow
<1>2. QED
  BY <1>1, BindInvAlways, PTL

-------------------------------------------------------------------------------
(* Sockets and read_bufs.  Most steps only take requests away.             *)
Shrinks ==
    /\ closed \subseteq closed'
    /\ \A f \in Fd, d \in Dir : state'[f].op[d] \in {NoOp, state[f].op[d]}
    /\ \A c \in Handed' : c \in Handed \/ c.kind \notin {"read", "write"}
    /\ \A id \in DOMAIN asked' : id \in DOMAIN asked /\ asked'[id] = asked[id]

LEMMA QuietShrinks ==
    ASSUME UNCHANGED <<state, out, asked>>, closed \subseteq closed'
    PROVE  Shrinks
<1>1. Handed' = Handed
  BY DEF Handed
<1>2. QED
  BY <1>1 DEF Shrinks

LEMMA ForgetShrinks ==
    ASSUME NEW ids, Forget(ids)
    PROVE  /\ UNCHANGED <<rsize, closed, socket>>
           /\ \A id \in DOMAIN asked' : id \in DOMAIN asked /\ asked'[id] = asked[id]
BY DEF Forget, buffers

ShrinkStep ==
    \/ InCall \/ Peer \/ UNCHANGED bvars \/ async_stop
    \/ \E fd \in Fd : close(fd) \/ open_socket(fd) \/ async_cancel(fd)
    \/ \E rb \in RB, n \in 1..Cap : rb_read(rb, n)
    \/ \E wb \in WB : wb_close(wb) \/ \E n \in 1..2 : wb_write(wb, n)
    \/ \E mode \in {"poll", "wait"} : async_poll(mode)

LEMMA ShrinkSteps ==
    ASSUME BindInv, ShrinkStep
    PROVE  /\ Shrinks
           /\ \/ UNCHANGED <<up, socket>>
              \/ \E fd \in Fd : close(fd) \/ open_socket(fd)
           /\ \/ UNCHANGED rsize
              \/ \E rb \in RB, n \in 1..Cap : rb_read(rb, n)
<1>1. /\ TypeOK /\ IdsApart /\ KindsKept
  BY InvParts
<1>2. CASE InCall
  <2>1. UNCHANGED <<state, out, asked, rsize, closed, up, socket>>
    BY <1>2 DEF InCall, Fetch, Return, backend, world, buffers
  <2>2. QED
    BY <2>1, QuietShrinks
<1>3. CASE Peer
  <2>1. UNCHANGED <<state, out, asked, rsize, closed, up, socket>>
    BY <1>3 DEF Peer, Arrive, backend, call, buffers
  <2>2. QED
    BY <2>1, QuietShrinks
<1>4. CASE UNCHANGED bvars
  <2>1. UNCHANGED <<state, out, asked, rsize, closed, up, socket>>
    BY <1>4 DEF bvars, vars, backend, call, world, buffers
  <2>2. QED
    BY <2>1, QuietShrinks
<1>5. CASE async_stop
  <2>1. Stop /\ Forget(UNION {{r.id : r \in Ops(fd)} : fd \in Fd})
    BY <1>5 DEF async_stop
  <2>2. UNCHANGED <<out, up>> /\ \A f \in Fd, d \in Dir : state'[f].op[d] = NoOp
    BY <2>1 DEF Stop, Idle, call, world
  <2>3. Handed' = Handed
    BY <2>2 DEF Handed
  <2>4. QED
    BY <2>1, <2>2, <2>3, ForgetShrinks DEF Shrinks
<1>6. ASSUME NEW fd \in Fd, async_cancel(fd)
      PROVE  Shrinks /\ UNCHANGED <<up, socket, rsize>>
  <2>1. Cancel(fd) /\ Forget({r.id : r \in Ops(fd)})
    BY <1>6 DEF async_cancel
  <2>2. UNCHANGED <<out, up>>
    BY <2>1 DEF Cancel, call, world
  <2>3. \A f \in Fd, d \in Dir : state'[f].op[d] \in {NoOp, state[f].op[d]}
    BY <1>1, <2>1 DEF Cancel, Idle, TypeOK
  <2>4. Handed' = Handed
    BY <2>2 DEF Handed
  <2>5. QED
    BY <2>1, <2>2, <2>3, <2>4, ForgetShrinks DEF Shrinks
<1>7. ASSUME NEW fd \in Fd, close(fd) \/ open_socket(fd)
      PROVE  Shrinks /\ UNCHANGED rsize
  <2>1. UNCHANGED <<state, out, asked, rsize, closed>>
    BY <1>7 DEF close, open_socket, CloseFd, OpenFd, call, backend, buffers
  <2>2. QED
    BY <2>1, QuietShrinks
<1>8. ASSUME NEW rb \in RB, NEW n \in 1..Cap, rb_read(rb, n)
      PROVE  Shrinks /\ UNCHANGED <<up, socket>>
  <2>1. UNCHANGED <<state, out, asked, closed, up, socket>>
    BY <1>8 DEF rb_read, vars, backend, call, world
  <2>2. QED
    BY <2>1, QuietShrinks
<1>9. ASSUME NEW wb \in WB, wb_close(wb) \/ \E n \in 1..2 : wb_write(wb, n)
      PROVE  Shrinks /\ UNCHANGED <<up, socket, rsize>>
  <2>1. UNCHANGED <<state, out, asked, up, socket, rsize>> /\ closed \subseteq closed'
    BY <1>9 DEF wb_close, wb_write, vars, backend, call, world
  <2>2. QED
    BY <2>1, QuietShrinks
<1>10. ASSUME NEW mode \in {"poll", "wait"}, async_poll(mode)
       PROVE  Shrinks /\ UNCHANGED <<up, socket, rsize>>
  <2>1. Begin(mode) /\ Forget(Ids(out))
    BY <1>10 DEF async_poll
  <2>2. \A c \in Handed' : \E j \in DOMAIN sync : c = sync[j]
    BY <1>1, <2>1, BeginItems
  <2>3. UNCHANGED <<state, up>>
    BY <2>1 DEF Begin, world
  <2>4. \A c \in Handed' : c.kind \notin {"read", "write"}
    BY <1>1, <2>2 DEF KindsKept
  <2>5. QED
    BY <2>1, <2>3, <2>4, ForgetShrinks DEF Shrinks
<1>11. QED
  BY <1>2, <1>3, <1>4, <1>5, <1>6, <1>7, <1>8, <1>9, <1>10 DEF ShrinkStep

(* A submission is refused, or is one new item: in a slot of an open       *)
(* socket, or in the queue.                                                *)
NewItem(id, info) ==
    /\ id \notin Outstanding /\ DOMAIN asked' = Outstanding \cup {id}
    /\ asked'[id] = info /\ \A other \in Outstanding : asked'[other] = asked[other]

InSlot(fd, d, r, info) ==
    /\ fd \in up
    /\ \A f \in Fd, e \in Dir : state'[f].op[e] = IF f = fd /\ e = d THEN r ELSE state[f].op[e]
    /\ info.buf \in WB => info.socket = socket[fd]
    /\ info.buf \in RB => /\ r.len <= Cap - rsize[info.buf]
                          /\ OneReadPerBuf => \A id \in Outstanding : asked[id].buf # info.buf

Submits ==
    \/ UNCHANGED <<state, asked>>
    \/ \E info : \E fd \in Fd, d \in Dir, r \in Request :
           NewItem(r.id, info) /\ InSlot(fd, d, r, info)
    \/ \E id, info : NewItem(id, info) /\ state' = state /\ info.buf \notin WB \cup RB

LEMMA AcceptedItem ==
    ASSUME BindInv, NEW p, NEW info, NEW buf, NEW tok, Pinned(p, buf, tok), Accepted(p, info)
    PROVE  NewItem(p.id, info)
<1>1. p.id \notin Outstanding
  BY InvParts, PinnedIsNew DEF Accepted
<1>2. QED
  BY <1>1 DEF Accepted, NewItem

LEMMA ReadSubmits ==
    ASSUME BindInv, NEW fd \in Fd, NEW rb \in RB, NEW tok \in Udata,
           async_submit_read(fd, rb, tok)
    PROVE  Submits /\ UNCHANGED <<out, rsize, closed, socket, up>>
<1>1. PICK p \in Pin(rb, tok) :
          \/ /\ SubmitIn(fd, [id |-> p.id, kind |-> "read", len |-> FreeCap(rb)])
             /\ Accepted(p, Info(rb, tok))
          \/ Refused(p)
  BY DEF async_submit_read
<1>2. /\ UNCHANGED <<call, buffers, leaked, wire, socket>> /\ FreeCap(rb) > 0
      /\ OneReadPerBuf => \A id \in Outstanding : asked[id].buf # rb
  BY DEF async_submit_read
<1>3. UNCHANGED <<out, rsize, closed, socket>>
  BY <1>2 DEF call, buffers
<1>4. rb \in Values /\ tok \in Values
  BY DEF Values
<1>5. Pinned(p, rb, tok)
  BY <1>1, <1>4, InvParts, PinFacts DEF PinsKept
<1>6. CASE Refused(p)
  BY <1>3, <1>6 DEF Refused, Submits, backend, world
<1>7. CASE SubmitIn(fd, [id |-> p.id, kind |-> "read", len |-> FreeCap(rb)])
           /\ Accepted(p, Info(rb, tok))
  <2> DEFINE r == [id |-> p.id, kind |-> "read", len |-> FreeCap(rb)]
             info == Info(rb, tok)
  <2>1. FreeCap(rb) \in 1..MaxLen /\ FreeCap(rb) <= Cap - rsize[rb]
    <3>1. rsize[rb] \in Nat
      BY InvParts DEF DataOK
    <3>2. QED
      BY <1>2, <3>1, BoundFacts DEF FreeCap
  <2>2. r \in Request /\ r.id = p.id /\ r.len = FreeCap(rb)
    <3>1. p.id \in Id
      BY <1>5, PairsAreIds DEF Pinned
    <3>2. QED
      BY <2>1, <3>1 DEF Request, Kind, InKind
  <2>3. Submit(fd, "in", r) /\ "in" \in Dir
    BY <1>7 DEF SubmitIn, Dir
  <2>4. info.buf = rb /\ rb \notin WB
    BY BuffersDiffer DEF Info
  <2>5. NewItem(r.id, info)
    BY <1>5, <1>7, <2>2, AcceptedItem
  <2> HIDE DEF r, info
  <2>6. fd \in up /\ up' = up
    BY <2>3 DEF Submit, FdArm, CtlAccepts, world
  <2>7. InSlot(fd, "in", r, info)
    <3>1. \A f \in Fd, e \in Dir :
              state'[f].op[e] = IF f = fd /\ e = "in" THEN r ELSE state[f].op[e]
      BY <2>3, InvParts, SubmitSlots
    <3>2. QED
      BY <1>2, <2>1, <2>2, <2>4, <2>6, <3>1 DEF InSlot
  <2>8. QED
    BY <1>3, <2>2, <2>3, <2>5, <2>6, <2>7 DEF Submits
<1>8. QED
  BY <1>1, <1>6, <1>7

LEMMA WriteSubmits ==
    ASSUME BindInv, NEW fd \in Fd, NEW wb \in WB, NEW tok \in Udata,
           async_submit_write(fd, wb, tok)
    PROVE  Submits /\ UNCHANGED <<out, rsize, closed, socket, up>>
<1>1. PICK p \in Pin(wb, tok) :
          LET w == [wbuf[wb] EXCEPT !.fd = fd, !.id = p.id]
          IN  \/ SubmitWrite(fd, WriteRequest(w)) /\ Accepted(p, WriteInfo(wb, tok, fd))
              \/ Refused(p)
  BY DEF async_submit_write
<1> DEFINE w == [wbuf[wb] EXCEPT !.fd = fd, !.id = p.id]
           info == WriteInfo(wb, tok, fd)
           r == WriteRequest(w)
<1>2. UNCHANGED <<out, rsize, closed, socket>>
  BY DEF async_submit_write, call
<1>3. wb \in Values /\ tok \in Values
  BY DEF Values
<1>4. Pinned(p, wb, tok) /\ p.id \in Id
  <2>1. Pinned(p, wb, tok)
    BY <1>1, <1>3, InvParts, PinFacts DEF PinsKept
  <2>2. QED
    BY <2>1, PairsAreIds DEF Pinned
<1>5. CASE Refused(p)
  BY <1>2, <1>5 DEF Refused, Submits, backend, world
<1>6. CASE SubmitWrite(fd, r) /\ Accepted(p, info)
  <2>1. wbuf[wb] \in [q : Seq(Entries), buffered : Int, flying : BOOLEAN,
                      fd : Fd \cup {NoOp}, id : Id \cup {NoOp}]
    BY InvParts DEF DataOK, Buffer
  <2>2. w.q = wbuf[wb].q /\ w.id = p.id
    BY <2>1
  <2>3. r = [id |-> p.id, kind |-> "write", len |-> Unsent(wbuf[wb].q)]
    BY <2>2 DEF WriteRequest
  <2>4. Unsent(wbuf[wb].q) \in 1..MaxLen
    <3>1. DataOK /\ QueueCounted(wb)
      BY InvParts DEF QueuesCounted
    <3>2. /\ wbuf[wb].q \in Seq(Entries) /\ wrote[wb] \in 0..MaxWrote /\ Unsent(wbuf[wb].q) \in Nat
      BY <3>1, BufferFacts
    <3>3. Unsent(wbuf[wb].q) > 0
      BY <3>2, QueueCounts DEF async_submit_write, WbIdle
    <3>4. Unsent(wbuf[wb].q) <= wrote[wb]
      BY <3>1 DEF QueueCounted
    <3> DEFINE unsent == Unsent(wbuf[wb].q)
               all == wrote[wb]
    <3>5. all \in 0..MaxWrote /\ unsent \in Nat /\ unsent > 0 /\ unsent <= all
      BY <3>2, <3>3, <3>4
    <3> HIDE DEF unsent, all
    <3>6. unsent \in 1..MaxLen
      BY <3>5, BoundFacts
    <3>7. QED
      BY <3>6 DEF unsent
  <2>5. r \in Request /\ r.id = p.id
    <3> HIDE DEF r, w
    <3>1. QED
      BY <1>4, <2>3, <2>4 DEF Request, Kind, OutKind
  <2>6. info.buf = wb /\ info.socket = socket[fd] /\ wb \notin RB
    BY BuffersDiffer DEF WriteInfo
  <2>7. Submit(fd, "out", r) /\ "out" \in Dir
    BY <1>6 DEF SubmitWrite, Dir
  <2>8. NewItem(r.id, info)
    BY <1>4, <1>6, <2>5, AcceptedItem
  <2> HIDE DEF r, info, w
  <2>9. fd \in up /\ up' = up
    BY <2>7 DEF Submit, FdArm, CtlAccepts, world
  <2>10. InSlot(fd, "out", r, info)
    <3>1. \A f \in Fd, e \in Dir :
              state'[f].op[e] = IF f = fd /\ e = "out" THEN r ELSE state[f].op[e]
      BY <2>7, InvParts, SubmitSlots
    <3>2. QED
      BY <2>6, <2>9, <3>1 DEF InSlot
  <2>11. QED
    BY <1>2, <2>5, <2>7, <2>8, <2>9, <2>10 DEF Submits
<1>7. QED
  BY <1>1, <1>5, <1>6

(* The others: no buffer that anybody counts.                              *)
Posted(p, buf, tok, fd) ==
    /\ Pinned(p, buf, tok)
    /\ \/ Refused(p)
       \/ /\ Accepted(p, Info(buf, tok))
          /\ \/ \E d \in Dir, kind \in InKind \cup OutKind :
                    Submit(fd, d, [id |-> p.id, kind |-> kind, len |-> 1])
             \/ UNCHANGED <<state, world>>

LEMMA OtherSubmits ==
    ASSUME BindInv, NEW fd \in Fd, NEW tok \in Udata,
           \/ async_submit_connect(fd, tok)
           \/ \E kind \in {"accept", "fd_poll"} : async_submit_udata(fd, kind, tok)
           \/ \E kind \in FileKind : async_submit_file(kind, tok)
    PROVE  Submits /\ UNCHANGED <<out, rsize, closed, socket, up>>
<1>1. UNCHANGED <<call, buffers, socket>>
  BY DEF async_submit_connect, async_submit_udata, async_submit_file
<1>2. UNCHANGED <<out, rsize, closed, socket>>
  BY <1>1 DEF call, buffers
<1>3. tok \in Values /\ Other \in Values
  BY DEF Values
<1>4. \E p : \E buf \in {Other, NIL} : Posted(p, buf, tok, fd)
  <2>1. CASE async_submit_connect(fd, tok)
    <3>1. PICK p \in Pin(Other, tok) :
              \/ /\ SubmitConnect(fd, [id |-> p.id, kind |-> "connect", len |-> 1])
                 /\ Accepted(p, Info(Other, tok))
              \/ Refused(p)
      BY <2>1 DEF async_submit_connect
    <3>2. Pinned(p, Other, tok)
      BY <1>3, <3>1, InvParts, PinFacts DEF PinsKept
    <3>3. SubmitConnect(fd, [id |-> p.id, kind |-> "connect", len |-> 1]) =>
              \/ \E d \in Dir, kind \in InKind \cup OutKind :
                     Submit(fd, d, [id |-> p.id, kind |-> kind, len |-> 1])
              \/ UNCHANGED <<state, world>>
      BY DEF SubmitConnect, Queue, Dir, OutKind
    <3>4. QED
      BY <3>1, <3>2, <3>3 DEF Posted
  <2>2. ASSUME NEW kind \in {"accept", "fd_poll"}, async_submit_udata(fd, kind, tok)
        PROVE  \E p : \E buf \in {Other, NIL} : Posted(p, buf, tok, fd)
    <3>1. PICK p \in PinUdata(tok) :
              \/ /\ SubmitIn(fd, [id |-> p.id, kind |-> kind, len |-> 1])
                 /\ Accepted(p, Info(NIL, tok))
              \/ Refused(p)
      BY <2>2 DEF async_submit_udata
    <3>2. Pinned(p, NIL, tok)
      BY <1>3, <3>1, InvParts, PinUdataFacts DEF PinsKept
    <3>3. SubmitIn(fd, [id |-> p.id, kind |-> kind, len |-> 1]) =>
              \E d \in Dir, k \in InKind \cup OutKind :
                  Submit(fd, d, [id |-> p.id, kind |-> k, len |-> 1])
      BY DEF SubmitIn, Dir
    <3>4. QED
      BY <3>1, <3>2, <3>3 DEF Posted
  <2>3. ASSUME NEW kind \in FileKind, async_submit_file(kind, tok)
        PROVE  \E p : \E buf \in {Other, NIL} : Posted(p, buf, tok, fd)
    <3>1. PICK p \in Pin(Other, tok) :
              /\ SubmitFile([id |-> p.id, kind |-> kind, len |-> 1])
              /\ Accepted(p, Info(Other, tok))
      BY <2>3 DEF async_submit_file
    <3>2. Pinned(p, Other, tok)
      BY <1>3, <3>1, InvParts, PinFacts DEF PinsKept
    <3>3. UNCHANGED <<state, world>>
      BY <3>1 DEF SubmitFile, Queue
    <3>4. QED
      BY <3>1, <3>2, <3>3 DEF Posted
  <2>4. QED
    BY <2>1, <2>2, <2>3
<1>5. PICK p : \E buf \in {Other, NIL} : Posted(p, buf, tok, fd)
  BY <1>4
<1>6. PICK buf \in {Other, NIL} : Posted(p, buf, tok, fd)
  BY <1>5
<1>7. CASE Refused(p)
  BY <1>2, <1>7 DEF Refused, Submits, backend, world
<1>8. CASE Accepted(p, Info(buf, tok))
  <2> DEFINE info == Info(buf, tok)
  <2>1. NewItem(p.id, info) /\ info.buf \notin WB \cup RB
    <3>1. info.buf = buf
      BY DEF Info
    <3>2. QED
      BY <1>6, <1>8, <3>1, AcceptedItem, BuffersDiffer DEF Posted
  <2> HIDE DEF info
  <2>2. CASE UNCHANGED <<state, world>>
    BY <1>2, <2>1, <2>2 DEF Submits, world
  <2>3. ASSUME NEW d \in Dir, NEW kind \in InKind \cup OutKind,
               Submit(fd, d, [id |-> p.id, kind |-> kind, len |-> 1])
        PROVE  Submits /\ up' = up
    <3> DEFINE r == [id |-> p.id, kind |-> kind, len |-> 1]
    <3>1. r \in Request /\ r.id = p.id
      <4>1. p.id \in Id
        BY <1>6, PairsAreIds DEF Posted, Pinned
      <4>2. QED
        BY <4>1, ConstantFacts DEF Request, Kind
    <3> HIDE DEF r
    <3>2. fd \in up /\ up' = up
      BY <2>3 DEF Submit, FdArm, CtlAccepts, world
    <3>3. \A f \in Fd, e \in Dir :
              state'[f].op[e] = IF f = fd /\ e = d THEN r ELSE state[f].op[e]
      BY <2>3, InvParts, SubmitSlots DEF r
    <3>4. InSlot(fd, d, r, info)
      BY <2>1, <3>2, <3>3 DEF InSlot
    <3>5. QED
      BY <2>1, <3>1, <3>2, <3>4 DEF Submits
  <2>4. QED
    BY <1>2, <1>6, <1>7, <2>2, <2>3 DEF Posted
<1>9. QED
  BY <1>6, <1>7, <1>8 DEF Posted

-------------------------------------------------------------------------------
(* What is under way was asked for.                                        *)
Known ==
    /\ \A f \in Fd, d \in Dir : state[f].op[d] # NoOp =>
           LET id == state[f].op[d].id
           IN  id \in DOMAIN asked /\ KindFits(state[f].op[d], asked[id])
    /\ \A c \in Handed : c.id \in DOMAIN asked /\ KindFits(c, asked[c.id])

LEMMA AllKnown ==
    /\ BindInv => Known
    /\ BindInv' => Known'
<1>1. ASSUME BindInv
      PROVE  Known
  <2>1. KindsKept /\ DOMAIN asked = Outstanding
    BY <1>1, InvParts
  <2>2. \A x \in Items : x.id \in DOMAIN asked /\ KindFits(x, asked[x.id])
    BY <2>1, OutstandingIs DEF KindsKept
  <2>3. QED
    BY <2>2, ItemIs DEF Known
<1>2. ASSUME BindInv'
      PROVE  Known'
  <2>1. KindsKept' /\ DOMAIN asked' = Outstanding'
    BY <1>2 DEF BindInv, PinsKept
  <2>2. \A x \in Items' : x.id \in DOMAIN asked' /\ KindFits(x, asked'[x.id])
    BY <2>1, OutstandingIs DEF KindsKept, KindFits
  <2>3. QED
    BY <2>2, NextItems DEF Known, KindFits
<1>3. QED
  BY <1>1, <1>2

(* A step that only takes requests away leaves every write where it was:   *)
(* a socket that still has one is not closed, and so its number is not     *)
(* given to another.                                                       *)
LEMMA SocketsShrink ==
    ASSUME CancelFirst, BindInv, BindInv', SocketsKept, Shrinks,
           \/ UNCHANGED <<up, socket>>
           \/ \E fd \in Fd : close(fd) \/ open_socket(fd)
    PROVE  SocketsKept'
<1>1. Known' /\ Known /\ DOMAIN asked = Outstanding /\ TypeOK /\ DataOK
  BY AllKnown, InvParts
<1>2. "out" \in Dir /\ up \subseteq Fd
  BY <1>1 DEF Dir, TypeOK
<1>3. ASSUME NEW f \in up, ~close(f)
      PROVE  f \in up' /\ socket'[f] = socket[f]
  <2>1. CASE UNCHANGED <<up, socket>>
    BY <2>1
  <2>2. ASSUME NEW fd \in Fd, close(fd)
        PROVE  f \in up' /\ socket'[f] = socket[f]
    BY <1>3, <2>2 DEF close, CloseFd
  <2>3. ASSUME NEW fd \in Fd, open_socket(fd)
        PROVE  f \in up' /\ socket'[f] = socket[f]
    <3>1. fd \notin up /\ up' = up \cup {fd} /\ socket' = [socket EXCEPT ![fd] = @ + 1]
      BY <2>3 DEF open_socket, OpenFd
    <3>2. socket \in [Fd -> 0..MaxReuse] /\ f \in Fd
      BY <1>1, <1>2 DEF DataOK
    <3>3. QED
      BY <3>1, <3>2
  <2>4. QED
    BY <2>1, <2>2, <2>3
<1>4. ASSUME NEW f \in Fd, close(f)
      PROVE  /\ \A d \in Dir : state[f].op[d] = NoOp
             /\ \A id \in DOMAIN asked : asked[id].fd = f => asked[id].buf \in closed
  <2>1. state[f] = Idle /\ \A id \in Outstanding : asked[id].fd = f => asked[id].buf \in closed
    BY <1>4 DEF close, CloseFd
  <2>2. QED
    BY <1>1, <2>1 DEF Idle
<1>5. ASSUME NEW f \in Fd, NEW d \in Dir, state'[f].op[d] # NoOp
      PROVE  /\ state'[f].op[d] = state[f].op[d] /\ f \in up
             /\ f \in up' /\ socket'[f] = socket[f]
             /\ asked'[state'[f].op[d].id] = asked[state[f].op[d].id]
  <2>1. state'[f].op[d] = state[f].op[d]
    BY <1>5 DEF Shrinks
  <2>2. f \in up /\ ~close(f)
    BY <1>4, <1>5, <2>1 DEF SocketsKept
  <2>3. state'[f].op[d].id \in DOMAIN asked'
    BY <1>1, <1>5 DEF Known
  <2>4. QED
    BY <1>3, <2>1, <2>2, <2>3 DEF Shrinks
<1>6. \A f \in Fd : LET r == state'[f].op["out"]
                    IN  r # NoOp /\ asked'[r.id].buf \in WB => asked'[r.id].socket = socket'[f]
  BY <1>2, <1>5 DEF SocketsKept
<1>7. ASSUME NEW c \in Handed', asked'[c.id].buf \in WB \ closed'
      PROVE  asked'[c.id].fd \in up' /\ asked'[c.id].socket = socket'[asked'[c.id].fd]
  <2>1. c.id \in DOMAIN asked' /\ c.kind = "write"
    BY <1>1, <1>7 DEF Known, KindFits
  <2>2. /\ c \in Handed /\ c.id \in DOMAIN asked /\ asked'[c.id] = asked[c.id]
        /\ asked[c.id].buf \in WB \ closed
    BY <1>7, <2>1 DEF Shrinks
  <2>3. asked[c.id].fd \in up /\ asked[c.id].socket = socket[asked[c.id].fd]
    BY <2>2 DEF SocketsKept
  <2>4. ~close(asked[c.id].fd)
    BY <1>2, <1>4, <2>2, <2>3
  <2>5. QED
    BY <1>3, <2>2, <2>3, <2>4
<1>8. QED
  BY <1>5, <1>6, <1>7 DEF SocketsKept

(* A new write is for the socket that has the number now.                  *)
LEMMA SocketsSubmit ==
    ASSUME CancelFirst, BindInv, BindInv', SocketsKept, Submits,
           UNCHANGED <<out, rsize, closed, socket, up>>
    PROVE  SocketsKept'
<1>1. Known /\ DOMAIN asked = Outstanding /\ "out" \in Dir
  BY AllKnown, InvParts DEF Dir
<1>2. Handed' = Handed
  BY DEF Handed
<1>3. CASE UNCHANGED <<state, asked>>
  BY <1>3, QuietShrinks, SocketsShrink
<1>4. ASSUME NEW id, NEW info, NewItem(id, info),
             \A f \in Fd, e \in Dir :
                 \/ state'[f].op[e] = state[f].op[e]
                 \/ /\ state'[f].op[e].id = id /\ f \in up
                    /\ info.buf \in WB => info.socket = socket[f]
      PROVE  SocketsKept'
  <2>1. /\ asked'[id] = info
        /\ \A other \in DOMAIN asked : asked'[other] = asked[other]
    BY <1>1, <1>4 DEF NewItem
  <2>2. \A f \in Fd, d \in Dir : state'[f].op[d] # NoOp => f \in up'
    BY <1>4 DEF SocketsKept
  <2>3. ASSUME NEW f \in Fd, state'[f].op["out"] # NoOp,
               asked'[state'[f].op["out"].id].buf \in WB
        PROVE  asked'[state'[f].op["out"].id].socket = socket'[f]
    <3>1. CASE state'[f].op["out"] = state[f].op["out"]
      <4>1. state[f].op["out"].id \in DOMAIN asked
        BY <1>1, <2>3, <3>1 DEF Known
      <4>2. asked'[state'[f].op["out"].id] = asked[state[f].op["out"].id]
        BY <2>1, <3>1, <4>1
      <4>3. QED
        BY <2>3, <3>1, <4>2 DEF SocketsKept
    <3>2. CASE state'[f].op["out"].id = id /\ (info.buf \in WB => info.socket = socket[f])
      BY <2>1, <2>3, <3>2
    <3>3. QED
      BY <1>1, <1>4, <3>1, <3>2
  <2>4. \A c \in Handed' : asked'[c.id] = asked[c.id]
    BY <1>1, <1>2, <2>1 DEF Known
  <2>5. \A c \in Handed' : asked'[c.id].buf \in WB \ closed' =>
            asked'[c.id].fd \in up' /\ asked'[c.id].socket = socket'[asked'[c.id].fd]
    BY <1>2, <2>4 DEF SocketsKept
  <2>6. QED
    BY <2>2, <2>3, <2>5 DEF SocketsKept
<1>5. ASSUME NEW info, NEW fd \in Fd, NEW d \in Dir, NEW r \in Request,
             NewItem(r.id, info), InSlot(fd, d, r, info)
      PROVE  SocketsKept'
  <2>1. \A f \in Fd, e \in Dir :
            \/ state'[f].op[e] = state[f].op[e]
            \/ /\ state'[f].op[e].id = r.id /\ f \in up
               /\ info.buf \in WB => info.socket = socket[f]
    BY <1>5 DEF InSlot
  <2>2. QED
    BY <1>4, <1>5, <2>1
<1>6. ASSUME NEW id, NEW info, NewItem(id, info), state' = state
      PROVE  SocketsKept'
  BY <1>4, <1>6
<1>7. QED
  BY <1>3, <1>5, <1>6 DEF Submits

-------------------------------------------------------------------------------
(* A report only takes its request away.                                   *)
LEMMA EmitShrinks ==
    ASSUME BindInv, async_completions, Emit(Head(out)), closed \subseteq closed'
    PROVE  Shrinks /\ UNCHANGED <<up, socket>>
<1>1. /\ out # <<>> /\ out' = Tail(out)
      /\ UNCHANGED <<phase, batch, leaked, socket>>
  BY CompletionCases
<1>2. /\ \A id \in DOMAIN asked' : id \in DOMAIN asked /\ asked'[id] = asked[id]
      /\ state' = state
      /\ \A c \in Handed' : c \in Handed
  BY <1>1, EmitBooked
<1>3. up' = up
  BY DEF Emit, world
<1>4. QED
  BY <1>1, <1>2, <1>3 DEF Shrinks

(* A resubmission puts the request back into the slot it came from.        *)
LEMMA ResubmittedIs ==
    ASSUME BindInv, NEW wb, NEW w, Resubmitted(wb, w)
    PROVE  LET c  == Head(out)
               fd == asked[c.id].fd
           IN  /\ c \in Handed /\ c.id \in DOMAIN asked /\ asked[c.id].buf = wb
               /\ wb \in WB \ closed /\ fd \in Fd
               /\ DOMAIN asked' = DOMAIN asked
               /\ \A id \in DOMAIN asked : /\ asked'[id].buf = asked[id].buf
                                           /\ asked'[id].fd = asked[id].fd
                                           /\ asked'[id].socket = asked[id].socket
               /\ \A f \in Fd, d \in Dir :
                      IF f = fd /\ d = "out" THEN state'[f].op[d].id = c.id
                                             ELSE state'[f].op[d] = state[f].op[d]
               /\ \A e \in Handed' : e \in Handed
               /\ UNCHANGED <<up, socket, closed, rsize>>
<1> DEFINE c == Head(out)
           q == Rest(wb, c).q
           fd == asked[c.id].fd
           n == wrote[wb] - Unsent(w.q)
<1>1. /\ out # <<>> /\ out' = Tail(out) /\ c.kind = "write" /\ wb = asked[c.id].buf
      /\ w = Changed(wbuf[wb], q, Rest(wb, c).buffered) /\ w.q # <<>>
      /\ SubmitWrite(w.fd, WriteRequest(w))
      /\ UNCHANGED <<socket, closed, rsize>>
  BY DEF Resubmitted, Completes
<1>2. /\ wb \in WB /\ wbuf[wb].id = c.id /\ wbuf[wb].fd = fd /\ fd \in Fd
      /\ w.q = q /\ w.id = wbuf[wb].id /\ w.fd = wbuf[wb].fd
      /\ wb \in closed => q = <<>>
  BY <1>1, WriteCompleted
<1>3. TypeOK /\ IdsApart /\ RequestsOK
  BY InvParts
<1>4. c \in Handed /\ c.id \in DOMAIN asked
  BY <1>1, HeadFacts
<1>5. wb \notin closed
  BY <1>1, <1>2
<1>6. Submit(fd, "out", WriteRequest(w)) /\ "out" \in Dir
  BY <1>1, <1>2 DEF SubmitWrite, Dir
<1>7. WriteRequest(w).id = c.id
  BY <1>2 DEF WriteRequest
<1>8. \A f \in Fd, d \in Dir :
          state'[f].op[d] = IF f = fd /\ d = "out" THEN WriteRequest(w) ELSE state[f].op[d]
  BY <1>2, <1>3, <1>6, SubmitSlots
<1>9. up' = up
  BY <1>6 DEF Submit, world
<1>10. \A e \in Handed' : e \in Handed
  BY <1>1, <1>3, TailFacts DEF IdsApart
<1>11. asked' = [asked EXCEPT ![c.id] = From(asked[c.id], n)]
  BY <1>2 DEF Resubmitted
<1>12. \A info \in RequestInfo : /\ From(info, n).buf = info.buf /\ From(info, n).fd = info.fd
                                 /\ From(info, n).socket = info.socket
  BY DEF RequestInfo, From
<1>13. asked[c.id] \in RequestInfo
  BY <1>3, <1>4 DEF RequestsOK
<1> HIDE DEF c, q, fd, n
<1>14. /\ DOMAIN asked' = DOMAIN asked
       /\ \A id \in DOMAIN asked : /\ asked'[id].buf = asked[id].buf
                                   /\ asked'[id].fd = asked[id].fd
                                   /\ asked'[id].socket = asked[id].socket
  BY <1>4, <1>11, <1>12, <1>13
<1>15. \A f \in Fd, d \in Dir :
           IF f = fd /\ d = "out" THEN state'[f].op[d].id = c.id
                                  ELSE state'[f].op[d] = state[f].op[d]
  BY <1>7, <1>8
<1>16. QED
  BY <1>1, <1>2, <1>4, <1>5, <1>9, <1>10, <1>14, <1>15 DEF c, fd

LEMMA SocketsReported ==
    ASSUME CancelFirst, BindInv, BindInv', SocketsKept, async_completions
    PROVE  SocketsKept'
<1>1. CASE Emit(Head(out)) /\ closed \subseteq closed'
  BY <1>1, EmitShrinks, SocketsShrink
<1>2. ASSUME NEW wb, NEW w, Resubmitted(wb, w)
      PROVE  SocketsKept'
  <2> DEFINE c == Head(out)
             fd == asked[c.id].fd
  <2>1. /\ c \in Handed /\ c.id \in DOMAIN asked /\ asked[c.id].buf \in WB \ closed /\ fd \in Fd
        /\ DOMAIN asked' = DOMAIN asked
        /\ \A id \in DOMAIN asked : /\ asked'[id].buf = asked[id].buf
                                    /\ asked'[id].fd = asked[id].fd
                                    /\ asked'[id].socket = asked[id].socket
        /\ \A f \in Fd, d \in Dir :
               IF f = fd /\ d = "out" THEN state'[f].op[d].id = c.id
                                      ELSE state'[f].op[d] = state[f].op[d]
        /\ \A e \in Handed' : e \in Handed
        /\ UNCHANGED <<up, socket, closed>>
    BY <1>2, ResubmittedIs
  <2>2. fd \in up /\ asked[c.id].socket = socket[fd]
    BY <2>1 DEF SocketsKept
  <2>3. Known /\ "out" \in Dir
    BY AllKnown DEF Dir
  <2> HIDE DEF c, fd
  <2>4. \A f \in Fd, d \in Dir : state'[f].op[d] # NoOp => f \in up'
    BY <2>1, <2>2 DEF SocketsKept
  <2>5. ASSUME NEW f \in Fd, state'[f].op["out"] # NoOp,
               asked'[state'[f].op["out"].id].buf \in WB
        PROVE  asked'[state'[f].op["out"].id].socket = socket'[f]
    <3>1. CASE f = fd
      BY <2>1, <2>2, <2>3, <3>1
    <3>2. CASE f # fd
      <4>1. state'[f].op["out"] = state[f].op["out"]
        BY <2>1, <2>3, <3>2
      <4>2. state[f].op["out"].id \in DOMAIN asked
        BY <2>3, <2>5, <4>1 DEF Known
      <4>3. QED
        BY <2>1, <2>5, <4>1, <4>2 DEF SocketsKept
    <3>3. QED
      BY <3>1, <3>2
  <2>6. \A e \in Handed' : asked'[e.id].buf \in WB \ closed' =>
            asked'[e.id].fd \in up' /\ asked'[e.id].socket = socket'[asked'[e.id].fd]
    <3>1. \A e \in Handed' : e \in Handed /\ e.id \in DOMAIN asked
      BY <2>1, <2>3 DEF Known
    <3>2. QED
      BY <2>1, <3>1 DEF SocketsKept
  <2>7. QED
    BY <2>4, <2>5, <2>6 DEF SocketsKept
<1>3. ASSUME NEW wb, NEW w, NEW rest, Finished(wb, w, rest)
      PROVE  Emit(Head(out)) /\ closed \subseteq closed'
  BY <1>3 DEF Finished
<1>4. Head(out).kind # "write" => Emit(Head(out)) /\ closed \subseteq closed'
  BY CompletionCases
<1>5. QED
  BY <1>1, <1>2, <1>3, <1>4, CompletionIs

(* A completion that is written is of a write that waited at its socket.   *)
LEMMA SocketsHandled ==
    ASSUME CancelFirst, BindInv, BindInv', SocketsKept, NEW fd \in Fd, HandleEvent(fd)
    PROVE  SocketsKept'
<1>1. TypeOK /\ IdsApart /\ StreamsKept /\ Known /\ "out" \in Dir
  BY AllKnown, InvParts DEF Dir
<1>2. Handle(fd) /\ UNCHANGED <<asked, closed, socket, up>>
  BY DEF HandleEvent, Handle, buffers
<1>3. \A f \in Fd, e \in Dir :
          state'[f].op[e] = IF f = fd /\ e \in Served(fd) THEN NoOp ELSE state[f].op[e]
  BY <1>1, <1>2, HandleSlots
<1>4. Handed' = Handed \cup Fresh
  BY <1>1, <1>2, HandleItems
<1>5. ASSUME NEW c \in Fresh, asked[c.id].buf \in WB
      PROVE  asked[c.id].fd \in up /\ asked[c.id].socket = socket[asked[c.id].fd]
  <2> DEFINE r == state[fd].op["out"]
             b == asked[c.id].buf
  <2>1. r # NoOp /\ r.id = c.id
    BY <1>5, FreshWrite
  <2>2. WriteWaits(b)
    BY <1>1, <1>5 DEF StreamsKept, StreamOK
  <2>3. asked[c.id].fd = fd
    BY <2>1, <2>2 DEF WriteWaits
  <2>4. fd \in up /\ asked[c.id].socket = socket[fd]
    BY <1>1, <1>5, <2>1 DEF SocketsKept
  <2>5. QED
    BY <2>3, <2>4
<1>6. \A c \in Handed' : asked'[c.id].buf \in WB \ closed' =>
          asked'[c.id].fd \in up' /\ asked'[c.id].socket = socket'[asked'[c.id].fd]
  BY <1>2, <1>4, <1>5 DEF SocketsKept
<1>7. \A f \in Fd : state'[f].op["out"] \in {NoOp, state[f].op["out"]}
  BY <1>1, <1>3
<1>8. \A f \in Fd : LET r == state'[f].op["out"]
                    IN  r # NoOp /\ asked'[r.id].buf \in WB => asked'[r.id].socket = socket'[f]
  BY <1>2, <1>7 DEF SocketsKept
<1>9. \A f \in Fd, d \in Dir : state'[f].op[d] # NoOp => f \in up'
  BY <1>2, <1>3 DEF SocketsKept
<1>10. QED
  BY <1>6, <1>8, <1>9 DEF SocketsKept

(* The kinds of steps: submissions, the iterator, events, and the rest.    *)
LEMMA StepCases ==
    ASSUME BindInv, [BindNext]_bvars
    PROVE  \/ Submits /\ UNCHANGED <<out, rsize, closed, socket, up>>
           \/ async_completions
           \/ \E fd \in Fd : HandleEvent(fd)
           \/ ShrinkStep
<1>1. ASSUME NEW fd \in Fd, NEW kind \in Kind, NEW tok \in UdataFor[kind],
             \/ kind = "read" /\ \E rb \in RB : async_submit_read(fd, rb, tok)
             \/ kind = "write" /\ \E wb \in WB : async_submit_write(fd, wb, tok)
             \/ kind \in {"accept", "fd_poll"} /\ async_submit_udata(fd, kind, tok)
             \/ kind \in FileKind /\ async_submit_file(kind, tok)
             \/ kind = "connect" /\ async_submit_connect(fd, tok)
      PROVE  Submits /\ UNCHANGED <<out, rsize, closed, socket, up>>
  <2>1. tok \in Udata
    BY UdataForIsUdata
  <2>2. QED
    BY <1>1, <2>1, ReadSubmits, WriteSubmits, OtherSubmits
<1>2. QED
  BY <1>1 DEF BindNext, ShrinkStep

LEMMA SocketsNext ==
    ASSUME CancelFirst, BindInv, SocketsKept, [BindNext]_bvars
    PROVE  SocketsKept'
<1>1. BindInv'
  BY NextBindInv
<1>2. CASE ShrinkStep
  BY <1>1, <1>2, ShrinkSteps, SocketsShrink
<1>3. QED
  BY <1>1, <1>2, StepCases, SocketsSubmit, SocketsReported, SocketsHandled

LEMMA SocketsFollow ==
    ASSUME BindInv, SocketsKept
    PROVE  WritesStayOnSocket
BY WritesAre DEF SocketsKept, WritesStayOnSocket

LEMMA InitIsEmpty ==
    ASSUME BindInit
    PROVE  /\ \A fd \in Fd, d \in Dir : state[fd].op[d] = NoOp
           /\ Handed = {} /\ DOMAIN asked = {} /\ "in" \in Dir /\ "out" \in Dir
<1>1. Init /\ asked = <<>>
  BY DEF BindInit
<1>2. \A fd \in Fd, d \in Dir : state[fd].op[d] = NoOp
  BY <1>1 DEF Init, Idle
<1>3. Handed = {}
  BY <1>1 DEF Init, Handed
<1>4. QED
  BY <1>1, <1>2, <1>3 DEF Dir

LEMMA InitSockets == BindInit => SocketsKept
BY InitIsEmpty DEF SocketsKept

(* WritesStayOnSocket: a script that cancels what a stream has with the    *)
(* backend before it closes the socket never has a write, resubmitted by   *)
(* the completion iterator or not, go to another socket that got the same  *)
(* number.                                                                 *)
THEOREM WritesStay == ASSUME CancelFirst PROVE BindSpec => []WritesStayOnSocket
<1>1. BindInv /\ SocketsKept /\ [BindNext]_bvars => SocketsKept'
  BY SocketsNext
<1>2. BindInv /\ SocketsKept => WritesStayOnSocket
  BY SocketsFollow
<1>3. QED
  BY InitSockets, BindInvAlways, <1>1, <1>2, PTL DEF BindSpec

-------------------------------------------------------------------------------
(* A read_buf that a step gives no read, and that does not grow.           *)
LEMMA ReadShrinks ==
    ASSUME BindInv, BindInv', NEW rb \in RB, ReadOK(rb), Shrinks, rsize'[rb] <= rsize[rb]
    PROVE  ReadOK(rb)'
<1>1. Known' /\ DataOK /\ DataOK' /\ "in" \in Dir /\ rb \notin WB
  BY AllKnown, InvParts, BuffersDiffer DEF BindInv, Dir
<1>2. rsize[rb] \in Nat /\ rsize'[rb] \in Nat /\ Cap \in Nat /\ rsize'[rb] <= Cap
  BY <1>1, BoundFacts DEF DataOK, ReadOK
<1>3. \A n \in Nat : n <= Cap - rsize[rb] => n <= Cap - rsize'[rb]
  BY <1>2
<1>4. ASSUME NEW f \in Fd, state'[f].op["in"] # NoOp, asked'[state'[f].op["in"].id].buf = rb
      PROVE  state'[f].op["in"].len <= Cap - rsize'[rb]
  <2>1. state'[f].op["in"] = state[f].op["in"] /\ state'[f].op["in"].id \in DOMAIN asked'
    BY <1>1, <1>4 DEF Shrinks, Known
  <2>2. state[f].op["in"].len <= Cap - rsize[rb]
    BY <1>4, <2>1 DEF Shrinks, ReadOK
  <2>3. state[f].op["in"].len \in Nat
    BY <1>1, <1>4, <2>1, InvParts, ConstantFacts DEF TypeOK, Request
  <2>4. QED
    BY <1>3, <2>1, <2>2, <2>3
<1>5. ASSUME NEW c \in Handed', asked'[c.id].buf = rb
      PROVE  c.bytes <= Cap - rsize'[rb]
  <2>1. c.id \in DOMAIN asked' /\ c.kind = "read"
    BY <1>1, <1>5 DEF Known, KindFits
  <2>2. c \in Handed /\ asked[c.id].buf = rb
    BY <1>5, <2>1 DEF Shrinks
  <2>3. c.bytes <= Cap - rsize[rb]
    BY <2>2 DEF ReadOK
  <2>4. c.bytes \in Nat
    <3>1. PICK i \in DOMAIN out : c = out[i]
      BY <2>2 DEF Handed
    <3>2. c \in Completion
      BY <3>1, InvParts, SequenceFacts
    <3>3. QED
      BY <3>2, ConstantFacts DEF Completion
  <2>5. QED
    BY <1>3, <2>3, <2>4
<1>6. \A id, other \in DOMAIN asked' :
          asked'[id].buf = rb /\ asked'[other].buf = rb => id = other
  BY DEF Shrinks, ReadOK
<1>7. QED
  BY <1>2, <1>4, <1>5, <1>6 DEF ReadOK

LEMMA ReadsShrink ==
    ASSUME BindInv, BindInv', ReadsKept, Shrinks,
           \/ UNCHANGED rsize
           \/ \E rb \in RB, n \in 1..Cap : rb_read(rb, n)
    PROVE  ReadsKept'
<1>1. rsize \in [RB -> Nat]
  BY InvParts DEF DataOK
<1>2. \A rb \in RB : rsize'[rb] <= rsize[rb]
  <2>1. CASE UNCHANGED rsize
    BY <1>1, <2>1
  <2>2. ASSUME NEW rb \in RB, NEW n \in 1..Cap, rb_read(rb, n)
        PROVE  \A b \in RB : rsize'[b] <= rsize[b]
    <3>1. rsize' = [rsize EXCEPT ![rb] = @ - n] /\ n \in Nat
      BY <2>2, BoundFacts DEF rb_read
    <3>2. QED
      BY <1>1, <3>1
  <2>3. QED
    BY <2>1, <2>2
<1>3. QED
  BY <1>2, ReadShrinks DEF ReadsKept

(* A new read is given no more than the space that is free, and nobody     *)
(* else has been given it.                                                 *)
LEMMA ReadsSubmit ==
    ASSUME OneReadPerBuf, BindInv, BindInv', ReadsKept, Submits,
           UNCHANGED <<out, rsize, closed, socket, up>>
    PROVE  ReadsKept'
<1>1. Known /\ DOMAIN asked = Outstanding /\ "in" \in Dir
  BY AllKnown, InvParts DEF Dir
<1>2. Handed' = Handed
  BY DEF Handed
<1>3. CASE UNCHANGED <<state, asked>>
  BY <1>3, QuietShrinks, ReadsShrink
<1>4. ASSUME NEW id, NEW info, NewItem(id, info), NEW rb \in RB,
             \A f \in Fd : \/ state'[f].op["in"] = state[f].op["in"]
                           \/ /\ state'[f].op["in"].id = id
                              /\ info.buf = rb => state'[f].op["in"].len <= Cap - rsize[rb],
             info.buf = rb => \A other \in Outstanding : asked[other].buf # rb
      PROVE  ReadOK(rb)'
  <2>1. /\ asked'[id] = info /\ DOMAIN asked' = DOMAIN asked \cup {id}
        /\ \A other \in DOMAIN asked : asked'[other] = asked[other]
    BY <1>1, <1>4 DEF NewItem
  <2>2. ReadOK(rb)
    BY DEF ReadsKept
  <2>3. ASSUME NEW f \in Fd, state'[f].op["in"] # NoOp,
               asked'[state'[f].op["in"].id].buf = rb
        PROVE  state'[f].op["in"].len <= Cap - rsize[rb]
    <3>1. CASE state'[f].op["in"] = state[f].op["in"]
      <4>1. state[f].op["in"].id \in DOMAIN asked
        BY <1>1, <2>3, <3>1 DEF Known
      <4>2. asked[state[f].op["in"].id].buf = rb
        BY <2>1, <2>3, <3>1, <4>1
      <4>3. QED
        BY <2>2, <2>3, <3>1, <4>2 DEF ReadOK
    <3>2. CASE state'[f].op["in"].id = id
               /\ (info.buf = rb => state'[f].op["in"].len <= Cap - rsize[rb])
      BY <2>1, <2>3, <3>2
    <3>3. QED
      BY <1>4, <3>1, <3>2
  <2>4. \A c \in Handed' : asked'[c.id] = asked[c.id]
    BY <1>1, <1>2, <2>1 DEF Known
  <2>5. \A c \in Handed' : asked'[c.id].buf = rb => c.bytes <= Cap - rsize[rb]
    BY <1>2, <2>2, <2>4 DEF ReadOK
  <2>6. \A one, other \in DOMAIN asked' :
            asked'[one].buf = rb /\ asked'[other].buf = rb => one = other
    BY <1>1, <1>4, <2>1, <2>2 DEF ReadOK
  <2>7. rsize' = rsize /\ rsize[rb] <= Cap
    BY <2>2 DEF ReadOK
  <2>8. QED
    BY <2>3, <2>5, <2>6, <2>7 DEF ReadOK
<1>5. ASSUME NEW info, NEW fd \in Fd, NEW d \in Dir, NEW r \in Request,
             NewItem(r.id, info), InSlot(fd, d, r, info), NEW rb \in RB
      PROVE  ReadOK(rb)'
  <2>1. info.buf = rb => /\ r.len <= Cap - rsize[rb]
                         /\ \A other \in Outstanding : asked[other].buf # rb
    BY <1>5 DEF InSlot
  <2>2. \A f \in Fd : \/ state'[f].op["in"] = state[f].op["in"]
                      \/ /\ state'[f].op["in"].id = r.id
                         /\ info.buf = rb => state'[f].op["in"].len <= Cap - rsize[rb]
    BY <1>1, <1>5, <2>1 DEF InSlot
  <2>3. QED
    BY <1>4, <1>5, <2>1, <2>2
<1>6. ASSUME NEW id, NEW info, NewItem(id, info), state' = state,
             info.buf \notin WB \cup RB, NEW rb \in RB
      PROVE  ReadOK(rb)'
  BY <1>4, <1>6
<1>7. QED
  BY <1>3, <1>5, <1>6 DEF Submits, ReadsKept

-------------------------------------------------------------------------------
(* The bytes of the one read are committed to the space it was given.      *)
LEMMA ReadCommitted ==
    ASSUME BindInv, BindInv', ReadsKept, async_completions,
           Head(out).kind # "write", Committed(Head(out))
    PROVE  ReadsKept'
<1> DEFINE c == Head(out)
           buf == asked[c.id].buf
<1>1. /\ out # <<>> /\ out' = Tail(out) /\ Emit(c) /\ closed' = closed
      /\ c.id[1] # NOREF
      /\ rsize' = [rsize EXCEPT ![IF c.id[1] = 0 THEN NIL ELSE refs.slot[c.id[1]]] = @ + c.bytes]
      /\ UNCHANGED <<phase, batch, leaked>>
  BY CompletionCases
<1>2. /\ c \in Handed /\ c.id \in DOMAIN asked /\ c.bytes \in Nat
      /\ KindFits(c, asked[c.id])
      /\ c.id[1] # 0 => refs.slot[c.id[1]] = buf
  BY <1>1, HeadFacts
<1>3. buf \in RB /\ rsize' = [rsize EXCEPT ![buf] = @ + c.bytes]
  BY <1>1, <1>2 DEF Committed, KindFits
<1>4. Shrinks /\ Known' /\ DOMAIN asked = Outstanding /\ "in" \in Dir
  BY <1>1, EmitShrinks, AllKnown, InvParts DEF Dir
<1>5. DOMAIN asked' = DOMAIN asked \ {c.id}
  BY <1>1, <1>4, EmitBooked
<1>6. rsize \in [RB -> Nat] /\ Cap \in Nat
  BY InvParts, BoundFacts DEF DataOK
<1>7. ASSUME NEW rb \in RB, rb # buf
      PROVE  ReadOK(rb)'
  <2>1. rsize'[rb] <= rsize[rb]
    BY <1>3, <1>6, <1>7
  <2>2. QED
    BY <1>4, <2>1, ReadShrinks DEF ReadsKept
<1>8. ASSUME NEW rb \in RB, rb = buf
      PROVE  ReadOK(rb)'
  <2> HIDE DEF c
  <2>1. ReadOK(rb)
    BY DEF ReadsKept
  <2>2. rsize'[rb] <= Cap
    <3>1. c.bytes <= Cap - rsize[rb]
      BY <1>2, <1>8, <2>1 DEF ReadOK
    <3>2. rsize'[rb] = rsize[rb] + c.bytes /\ rsize[rb] \in Nat
      BY <1>3, <1>6, <1>8
    <3> DEFINE size == rsize[rb]
               new == rsize'[rb]
               bytes == c.bytes
    <3>3. bytes <= Cap - size /\ new = size + bytes /\ size \in Nat /\ bytes \in Nat
      BY <1>2, <3>1, <3>2
    <3> HIDE DEF size, new, bytes
    <3>4. new <= Cap
      BY <1>6, <3>3
    <3>5. QED
      BY <3>4 DEF new
  <2>3. \A id \in DOMAIN asked' : asked'[id].buf # rb
    BY <1>2, <1>4, <1>5, <1>8, <2>1 DEF Shrinks, ReadOK
  <2>4. /\ \A f \in Fd : state'[f].op["in"] # NoOp => state'[f].op["in"].id \in DOMAIN asked'
        /\ \A e \in Handed' : e.id \in DOMAIN asked'
    BY <1>4 DEF Known
  <2> HIDE DEF buf
  <2>5. QED
    BY <2>2, <2>3, <2>4 DEF ReadOK
<1>9. QED
  BY <1>7, <1>8 DEF ReadsKept

LEMMA ReadsReported ==
    ASSUME BindInv, BindInv', ReadsKept, async_completions
    PROVE  ReadsKept'
<1>1. CASE Emit(Head(out)) /\ closed \subseteq closed' /\ UNCHANGED rsize
  BY <1>1, EmitShrinks, ReadsShrink
<1>2. ASSUME NEW wb, NEW w, Resubmitted(wb, w)
      PROVE  ReadsKept'
  <2>1. /\ DOMAIN asked' = DOMAIN asked
        /\ \A id \in DOMAIN asked : asked'[id].buf = asked[id].buf
        /\ \A f \in Fd : state'[f].op["in"] = state[f].op["in"]
        /\ \A e \in Handed' : e \in Handed
        /\ UNCHANGED rsize
    <3>1. "in" \in Dir /\ "in" # "out"
      BY DEF Dir
    <3>2. QED
      BY <1>2, <3>1, ResubmittedIs
  <2>2. /\ \A f \in Fd : state[f].op["in"] # NoOp => state[f].op["in"].id \in DOMAIN asked
        /\ \A e \in Handed : e.id \in DOMAIN asked
    BY AllKnown DEF Known, Dir
  <2>3. ASSUME NEW rb \in RB
        PROVE  ReadOK(rb)'
    <3>1. ReadOK(rb)
      BY DEF ReadsKept
    <3>2. QED
      BY <2>1, <2>2, <3>1 DEF ReadOK
  <2>4. QED
    BY <2>3 DEF ReadsKept
<1>3. ASSUME NEW wb, NEW w, NEW rest, Finished(wb, w, rest)
      PROVE  Emit(Head(out)) /\ closed \subseteq closed' /\ UNCHANGED rsize
  BY <1>3 DEF Finished, Completes
<1>4. Head(out).kind # "write" /\ ~Committed(Head(out)) =>
          Emit(Head(out)) /\ closed \subseteq closed' /\ UNCHANGED rsize
  BY CompletionCases
<1>5. QED
  BY <1>1, <1>2, <1>3, <1>4, CompletionIs, ReadCommitted

(* A read fills no more than it was given.                                 *)
LEMMA ReadsHandled ==
    ASSUME BindInv, BindInv', ReadsKept, NEW fd \in Fd, HandleEvent(fd)
    PROVE  ReadsKept'
<1>1. TypeOK /\ IdsApart /\ Known /\ DataOK /\ "in" \in Dir
  BY AllKnown, InvParts DEF Dir
<1>2. Handle(fd) /\ UNCHANGED <<asked, rsize>>
  BY DEF HandleEvent, buffers
<1>3. \A f \in Fd, e \in Dir :
          state'[f].op[e] = IF f = fd /\ e \in Served(fd) THEN NoOp ELSE state[f].op[e]
  BY <1>1, <1>2, HandleSlots
<1>4. /\ Handed' = Handed \cup Fresh
      /\ \A c \in Fresh : \E d \in Served(fd) : c \in Outcomes(state[fd].op[d])
  BY <1>1, <1>2, HandleItems
<1>5. ASSUME NEW rb \in RB, NEW c \in Fresh, asked[c.id].buf = rb
      PROVE  c.bytes <= Cap - rsize[rb]
  <2>1. PICK d \in Served(fd) : c \in Outcomes(state[fd].op[d])
    BY <1>4
  <2> DEFINE r == state[fd].op[d]
  <2>2. d \in Dir /\ r # NoOp
    BY <1>1, ServedDirs
  <2>3. r \in Request
    BY <1>1, <2>2 DEF TypeOK
  <2>4. r.id = c.id /\ c.bytes \in 0..r.len /\ r.len \in Nat
    BY <2>1, <2>3, ConstantFacts DEF Outcomes, Request
  <2>5. r.kind = "read"
    BY <1>1, <1>5, <2>2, <2>4 DEF Known, KindFits
  <2>6. d = "in"
    BY <1>1, <2>2, <2>5 DEF TypeOK, Dir, OutKind
  <2>7. r.len <= Cap - rsize[rb]
    BY <1>5, <2>2, <2>4, <2>6 DEF ReadsKept, ReadOK
  <2> DEFINE size == rsize[rb]
             bytes == c.bytes
             len == r.len
  <2>8. bytes \in 0..len /\ len \in Nat /\ len <= Cap - size /\ size \in Nat /\ Cap \in Nat
    BY <1>1, <2>4, <2>7, BoundFacts DEF DataOK
  <2> HIDE DEF size, bytes, len
  <2>9. bytes <= Cap - size
    BY <2>8
  <2>10. QED
    BY <2>9 DEF size, bytes
<1>6. \A f \in Fd : state'[f].op["in"] \in {NoOp, state[f].op["in"]}
  BY <1>1, <1>3
<1>7. ASSUME NEW rb \in RB
      PROVE  ReadOK(rb)'
  <2>1. ReadOK(rb)
    BY DEF ReadsKept
  <2>2. QED
    BY <1>2, <1>4, <1>5, <1>6, <2>1 DEF ReadOK
<1>8. QED
  BY <1>7 DEF ReadsKept

LEMMA ReadsNext ==
    ASSUME OneReadPerBuf, BindInv, ReadsKept, [BindNext]_bvars
    PROVE  ReadsKept'
<1>1. BindInv'
  BY NextBindInv
<1>2. CASE ShrinkStep
  BY <1>1, <1>2, ShrinkSteps, ReadsShrink
<1>3. QED
  BY <1>1, <1>2, StepCases, ReadsSubmit, ReadsReported, ReadsHandled

LEMMA InitReads == BindInit => ReadsKept
<1>1. ASSUME BindInit, NEW rb \in RB
      PROVE  rsize[rb] <= Cap
  BY <1>1, BoundFacts DEF BindInit
<1>2. QED
  BY <1>1, InitIsEmpty DEF ReadsKept, ReadOK

(* ReadBufWithinCap: a script that has one read into a read_buf at a time  *)
(* never makes it hold more than its capacity: the space that a read was   *)
(* given is still free when the iterator commits its bytes (free_cap and   *)
(* commit).                                                                *)
THEOREM ReadBufsWithinCap == ASSUME OneReadPerBuf PROVE BindSpec => []ReadBufWithinCap
<1>1. BindInv /\ ReadsKept /\ [BindNext]_bvars => ReadsKept'
  BY ReadsNext
<1>2. ReadsKept => ReadBufWithinCap
  BY DEF ReadsKept, ReadOK, ReadBufWithinCap
<1>3. QED
  BY InitReads, BindInvAlways, <1>1, <1>2, PTL DEF BindSpec
-------------------------------------------------------------------------------
(* What a success means.  A resubmission is refused when somebody else has *)
(* taken the socket's write half, or epoll_ctl fails.  Neither happens to  *)
(* a script that writes through one write_buf, connects nothing and        *)
(* cancels before it closes, on a kernel with memory to spare.             *)
OneWriter ==
    /\ CancelFirst /\ CtlFails = FALSE
    /\ \A wb, other \in WB : wb = other
    /\ UdataFor["connect"] = {}

(* The steps of the binding as the registrations see them: the write half  *)
(* is given to writes.                                                     *)
Gives(fd, d, r) ==
    Submit(fd, d, r) /\ (d = "out" => r.kind = "write")

Moves ==
    \/ UNCHANGED <<state, armed>> \/ Stop
    \/ \E fd \in Fd : Cancel(fd) \/ Handle(fd) \/ CloseFd(fd)
    \/ \E fd \in Fd, d \in Dir : \E r : Gives(fd, d, r)

LEMMA ReportMoves ==
    ASSUME BindInv, async_completions
    PROVE  Moves
<1>1. CASE Emit(Head(out))
  BY <1>1 DEF Emit, backend, Moves
<1>2. ASSUME NEW wb, NEW w, Resubmitted(wb, w)
      PROVE  Moves
  <2>1. SubmitWrite(w.fd, WriteRequest(w)) /\ w.fd \in Fd
    <3>1. /\ out # <<>> /\ out' = Tail(out) /\ Head(out).kind = "write"
          /\ wb = asked[Head(out).id].buf
          /\ w = Changed(wbuf[wb], Rest(wb, Head(out)).q, Rest(wb, Head(out)).buffered)
          /\ SubmitWrite(w.fd, WriteRequest(w))
      BY <1>2 DEF Resubmitted, Completes
    <3>2. w.fd \in Fd
      BY <3>1, WriteCompleted
    <3>3. QED
      BY <3>1, <3>2
  <2>2. Gives(w.fd, "out", WriteRequest(w)) /\ "out" \in Dir
    BY <2>1 DEF SubmitWrite, Gives, Dir
  <2>3. QED
    BY <2>1, <2>2 DEF Moves
<1>3. ASSUME NEW wb, NEW w, NEW rest, Finished(wb, w, rest)
      PROVE  Emit(Head(out))
  BY <1>3 DEF Finished
<1>4. Head(out).kind # "write" => Emit(Head(out))
  BY CompletionCases
<1>5. QED
  BY <1>1, <1>2, <1>3, <1>4, CompletionIs

LEMMA ScriptMoves ==
    ASSUME UdataFor["connect"] = {},
           NEW fd \in Fd, NEW kind \in Kind, NEW tok \in UdataFor[kind],
           \/ kind = "read" /\ \E rb \in RB : async_submit_read(fd, rb, tok)
           \/ kind = "write" /\ \E wb \in WB : async_submit_write(fd, wb, tok)
           \/ kind \in {"accept", "fd_poll"} /\ async_submit_udata(fd, kind, tok)
           \/ kind \in FileKind /\ async_submit_file(kind, tok)
           \/ kind = "connect" /\ async_submit_connect(fd, tok)
    PROVE  Moves
<1>1. \A p : Refused(p) => Moves
  BY DEF Refused, backend, Moves
<1>2. "in" \in Dir /\ "out" \in Dir /\ "in" # "out"
  BY DEF Dir
<1>3. \A r : SubmitIn(fd, r) => Moves
  <2>1. \A r : SubmitIn(fd, r) => Gives(fd, "in", r)
    BY <1>2 DEF SubmitIn, Gives
  <2>2. QED
    BY <1>2, <2>1 DEF Moves
<1>4. \A r : SubmitWrite(fd, r) => Moves
  <2>1. \A r : SubmitWrite(fd, r) => Gives(fd, "out", r)
    BY DEF SubmitWrite, Gives
  <2>2. QED
    BY <1>2, <2>1 DEF Moves
<1>5. \A r : SubmitFile(r) => Moves
  BY DEF SubmitFile, Queue, Moves
<1>6. ASSUME NEW rb \in RB, async_submit_read(fd, rb, tok)
      PROVE  Moves
  BY <1>1, <1>3, <1>6 DEF async_submit_read
<1>7. ASSUME NEW wb \in WB, async_submit_write(fd, wb, tok)
      PROVE  Moves
  BY <1>1, <1>4, <1>7 DEF async_submit_write
<1>8. CASE async_submit_udata(fd, kind, tok)
  BY <1>1, <1>3, <1>8 DEF async_submit_udata
<1>9. CASE async_submit_file(kind, tok)
  BY <1>5, <1>9 DEF async_submit_file
<1>10. QED
  BY <1>6, <1>7, <1>8, <1>9

LEMMA ShrinkMoves ==
    ASSUME ShrinkStep
    PROVE  Moves
<1>1. CASE InCall \/ Peer \/ UNCHANGED bvars
  <2>1. UNCHANGED <<state, armed>>
    BY <1>1 DEF InCall, Fetch, Return, Peer, Arrive, bvars, vars, backend
  <2>2. QED
    BY <2>1 DEF Moves
<1>2. CASE async_stop
  BY <1>2 DEF async_stop, Moves
<1>3. ASSUME NEW fd \in Fd, close(fd) \/ open_socket(fd) \/ async_cancel(fd)
      PROVE  Moves
  <2>1. CloseFd(fd) \/ OpenFd(fd) \/ Cancel(fd)
    BY <1>3 DEF close, open_socket, async_cancel
  <2>2. QED
    BY <2>1 DEF OpenFd, backend, Moves
<1>4. ASSUME NEW rb \in RB, NEW n \in 1..Cap, rb_read(rb, n)
      PROVE  Moves
  BY <1>4 DEF rb_read, vars, backend, Moves
<1>5. ASSUME NEW wb \in WB, wb_close(wb) \/ \E n \in 1..2 : wb_write(wb, n)
      PROVE  Moves
  BY <1>5 DEF wb_close, wb_write, vars, backend, Moves
<1>6. ASSUME NEW mode \in {"poll", "wait"}, async_poll(mode)
      PROVE  Moves
  BY <1>6 DEF async_poll, Begin, Moves
<1>7. QED
  BY <1>1, <1>2, <1>3, <1>4, <1>5, <1>6 DEF ShrinkStep

LEMMA BindMoves ==
    ASSUME UdataFor["connect"] = {}, BindInv, [BindNext]_bvars
    PROVE  Moves
<1>1. ASSUME NEW fd \in Fd, HandleEvent(fd)
      PROVE  Moves
  BY <1>1 DEF HandleEvent, Moves
<1>2. ASSUME NEW fd \in Fd, NEW kind \in Kind, NEW tok \in UdataFor[kind],
             \/ kind = "read" /\ \E rb \in RB : async_submit_read(fd, rb, tok)
             \/ kind = "write" /\ \E wb \in WB : async_submit_write(fd, wb, tok)
             \/ kind \in {"accept", "fd_poll"} /\ async_submit_udata(fd, kind, tok)
             \/ kind \in FileKind /\ async_submit_file(kind, tok)
             \/ kind = "connect" /\ async_submit_connect(fd, tok)
      PROVE  Moves
  BY <1>2, ScriptMoves
<1>3. QED
  BY <1>1, <1>2, ReportMoves, ShrinkMoves DEF BindNext, ShrinkStep

-------------------------------------------------------------------------------
(* Only writes in the write halves; and nothing was cut.                   *)
WritersOnly == \A fd \in Fd : state[fd].op["out"] # NoOp => state[fd].op["out"].kind = "write"

SentInv == EventsAreRegistered /\ WritersOnly /\ (open => cut = {})

LEMMA MovesKeep ==
    ASSUME CancelFirst, TypeOK, EventsAreRegistered, WritersOnly, Moves
    PROVE  EventsAreRegistered' /\ WritersOnly'
<1>1. Registers
  BY DEF Moves, Gives, Registers
<1>2. EventsAreRegistered'
  BY <1>1, StepRegistered
<1>3. "out" \in Dir
  BY DEF Dir
<1>4. ASSUME NEW fd \in Fd, Cancel(fd)
      PROVE  WritersOnly'
  BY <1>3, <1>4 DEF Cancel, Idle, WritersOnly, TypeOK
<1>5. ASSUME NEW fd \in Fd, Handle(fd)
      PROVE  WritersOnly'
  BY <1>3, <1>5, HandleSlots DEF WritersOnly
<1>6. ASSUME NEW fd \in Fd, NEW d \in Dir, NEW r, Gives(fd, d, r)
      PROVE  WritersOnly'
  <2>1. \A f \in Fd, e \in Dir :
            state'[f].op[e] = IF f = fd /\ e = d THEN r ELSE state[f].op[e]
    BY <1>6, SubmitSlots DEF Gives
  <2>2. QED
    BY <1>3, <1>6, <2>1 DEF Gives, WritersOnly
<1>7. Stop => WritersOnly'
  BY <1>3 DEF Stop, Idle, WritersOnly
<1>8. UNCHANGED state => WritersOnly'
  BY DEF WritersOnly
<1>9. \A fd \in Fd : CloseFd(fd) => UNCHANGED state
  BY DEF CloseFd
<1>10. QED
  BY <1>2, <1>4, <1>5, <1>6, <1>7, <1>8, <1>9 DEF Moves

(* A resubmission finds the slot that its write has left empty.            *)
LEMMA NoRefusal ==
    ASSUME OneWriter, BindInv, SocketsKept, SentInv, open,
           NEW wb, NEW w, NEW rest, Finished(wb, w, rest)
    PROVE  rest = FALSE
<1> DEFINE c == Head(out)
           fd == asked[c.id].fd
<1>1. /\ out # <<>> /\ out' = Tail(out) /\ c.kind = "write" /\ wb = asked[c.id].buf
      /\ w = Changed(wbuf[wb], Rest(wb, c).q, Rest(wb, c).buffered)
      /\ rest \in BOOLEAN /\ (rest => w.q # <<>> /\ MayRefuse(w.fd, "out"))
  BY DEF Finished, Completes
<1>2. /\ wb \in WB /\ wbuf[wb].fd = fd /\ fd \in Fd /\ w.fd = wbuf[wb].fd
      /\ \A id \in DOMAIN asked : asked[id].buf = wb => id = c.id
      /\ w.q = Rest(wb, c).q /\ (wb \in closed => Rest(wb, c).q = <<>>)
  BY <1>1, WriteCompleted
<1>3. c \in Handed /\ c.id \in DOMAIN asked
  BY <1>1, HeadFacts
<1>4. Known /\ IdsApart /\ "out" \in Dir
  BY AllKnown, InvParts DEF Dir
<1>5. state[fd].op["out"] = NoOp
  <2>1. ASSUME state[fd].op["out"] # NoOp
        PROVE  FALSE
    <3> DEFINE r == state[fd].op["out"]
    <3>1. r.id \in DOMAIN asked /\ KindFits(r, asked[r.id]) /\ r.kind = "write"
      BY <1>2, <1>4, <2>1 DEF Known, SentInv, WritersOnly
    <3>2. asked[r.id].buf = wb
      BY <1>2, <3>1 DEF KindFits, OneWriter
    <3>3. r.id = c.id
      BY <1>2, <3>1, <3>2
    <3>4. r.id \in Pending
      BY <1>2, <1>4, <2>1, PendingIs
    <3>5. QED
      BY <1>3, <1>4, <3>3, <3>4 DEF IdsApart, OutApart
  <2>2. QED
    BY <2>1
<1>6. ASSUME rest
      PROVE  FALSE
  <2>1. wb \notin closed
    BY <1>1, <1>2, <1>6
  <2>2. fd \in up
    BY <1>1, <1>2, <1>3, <2>1 DEF SocketsKept
  <2>3. CtlAccepts(fd)
    BY <1>2, <2>2 DEF CtlAccepts, SentInv, EventsAreRegistered
  <2>4. QED
    BY <1>1, <1>2, <1>5, <1>6, <2>3 DEF MayRefuse, OneWriter
<1>7. QED
  BY <1>1, <1>6

(* cut changes in the iterator only, and an instance does not open again.  *)
LEMMA CutChanges ==
    ASSUME BindInv, [BindNext]_bvars
    PROVE  /\ open' => open
           /\ \/ cut' = cut
              \/ \E wb, w, rest : Finished(wb, w, rest)
<1>1. CASE async_completions
  <2>1. Head(out).kind # "write" => Emit(Head(out)) /\ cut' = cut
    BY <1>1, CompletionCases
  <2>2. ASSUME NEW wb, NEW w, Resubmitted(wb, w)
        PROVE  cut' = cut /\ open' = open
    BY <2>2 DEF Resubmitted, SubmitWrite, Submit
  <2>3. ASSUME NEW wb, NEW w, NEW rest, Finished(wb, w, rest)
        PROVE  Emit(Head(out))
    BY <2>3 DEF Finished
  <2>4. Emit(Head(out)) => open' = open
    BY DEF Emit, backend
  <2>5. QED
    BY <1>1, <2>1, <2>2, <2>3, <2>4, CompletionIs
<1>2. ASSUME NEW fd \in Fd, NEW tok \in Udata,
             \/ \E rb \in RB : async_submit_read(fd, rb, tok)
             \/ \E kind \in Kind : async_submit_udata(fd, kind, tok)
             \/ \E kind \in Kind : async_submit_file(kind, tok)
             \/ async_submit_connect(fd, tok)
      PROVE  cut' = cut /\ open' = open
  <2>1. cut' = cut
    BY <1>2 DEF async_submit_read, async_submit_udata, async_submit_file,
                async_submit_connect, buffers
  <2>2. /\ \A r : SubmitIn(fd, r) => open' = open
        /\ \A r : SubmitFile(r) => open' = open
        /\ \A r : SubmitConnect(fd, r) => open' = open
    BY DEF SubmitIn, SubmitFile, SubmitConnect, Submit, Queue
  <2>3. \A p : Refused(p) => open' = open
    BY DEF Refused, backend
  <2>4. ASSUME NEW rb \in RB, async_submit_read(fd, rb, tok)
        PROVE  open' = open
    BY <2>2, <2>3, <2>4 DEF async_submit_read
  <2>5. ASSUME NEW kind \in Kind, async_submit_udata(fd, kind, tok)
        PROVE  open' = open
    BY <2>2, <2>3, <2>5 DEF async_submit_udata
  <2>6. ASSUME NEW kind \in Kind, async_submit_file(kind, tok)
        PROVE  open' = open
    BY <2>2, <2>3, <2>6 DEF async_submit_file
  <2>7. async_submit_connect(fd, tok) => open' = open
    BY <2>2, <2>3 DEF async_submit_connect
  <2>8. QED
    BY <1>2, <2>1, <2>4, <2>5, <2>6, <2>7
<1>3. ASSUME NEW fd \in Fd, NEW tok \in Udata, NEW wb \in WB, async_submit_write(fd, wb, tok)
      PROVE  cut' = cut /\ open' = open
  <2>1. \A r : SubmitWrite(fd, r) => open' = open
    BY DEF SubmitWrite, Submit
  <2>2. \A p : Refused(p) => open' = open
    BY DEF Refused, backend
  <2>3. QED
    BY <1>3, <2>1, <2>2 DEF async_submit_write
<1>4. ASSUME NEW fd \in Fd, async_cancel(fd) \/ HandleEvent(fd) \/ close(fd) \/ open_socket(fd)
      PROVE  cut' = cut /\ open' = open
  BY <1>4 DEF async_cancel, Cancel, HandleEvent, Handle, close, CloseFd, open_socket, OpenFd,
              Forget, buffers, backend
<1>5. ASSUME NEW wb \in WB, wb_close(wb) \/ \E n \in 1..2 : wb_write(wb, n)
      PROVE  cut' = cut /\ open' = open
  BY <1>5 DEF wb_close, wb_write, vars, backend
<1>6. ASSUME NEW rb \in RB, NEW n \in 1..Cap, rb_read(rb, n)
      PROVE  cut' = cut /\ open' = open
  BY <1>6 DEF rb_read, vars, backend
<1>7. ASSUME NEW mode \in {"poll", "wait"}, async_poll(mode)
      PROVE  cut' = cut /\ open' = open
  BY <1>7 DEF async_poll, Begin, Forget, buffers
<1>8. CASE async_stop
  BY <1>8 DEF async_stop, Stop, Forget, buffers
<1>9. CASE InCall \/ Peer \/ UNCHANGED bvars
  BY <1>9 DEF InCall, Fetch, Return, Peer, Arrive, bvars, vars, backend, buffers
<1>10. \A kind \in Kind : UdataFor[kind] \subseteq Udata
  BY UdataForIsUdata
<1>11. QED
  BY <1>1, <1>2, <1>3, <1>4, <1>5, <1>6, <1>7, <1>8, <1>9, <1>10 DEF BindNext

LEMMA SentNext ==
    ASSUME OneWriter, BindInv, SocketsKept, SentInv, [BindNext]_bvars
    PROVE  SentInv'
<1>1. EventsAreRegistered' /\ WritersOnly'
  BY InvParts, BindMoves, MovesKeep DEF SentInv, OneWriter
<1>2. ASSUME open'
      PROVE  cut' = {}
  <2>1. open /\ cut = {}
    BY <1>2, CutChanges DEF SentInv
  <2>2. ASSUME NEW wb, NEW w, NEW rest, Finished(wb, w, rest)
        PROVE  cut' = cut
    <3>1. rest = FALSE
      BY <2>1, <2>2, NoRefusal
    <3>2. QED
      BY <2>2, <3>1 DEF Finished
  <2>3. QED
    BY <2>1, <2>2, CutChanges
<1>3. QED
  BY <1>1, <1>2 DEF SentInv

LEMMA InitSent == BindInit => SentInv
BY InitRegistered, InitIsEmpty DEF BindInit, SentInv, WritersOnly

-------------------------------------------------------------------------------
(* A step of the iterator that takes an id off the books reports it.       *)
LEMMA SentStep ==
    ASSUME OneWriter, BindInv, SocketsKept, SentInv, async_completions, open,
           Head(out).id \notin DOMAIN asked', asked[Head(out).id].buf \in WB \ closed,
           Head(out).status = "success"
    PROVE  wire[asked[Head(out).id].buf] = wrote[asked[Head(out).id].buf]
<1>1. out # <<>> /\ out' = Tail(out)
  BY CompletionCases
<1>2. Head(out).kind = "write"
  BY <1>1, HeadFacts DEF KindFits
<1>3. ASSUME NEW wb, NEW w, Resubmitted(wb, w)
      PROVE  FALSE
  <2>1. Head(out).id \in DOMAIN asked
    BY <1>1, HeadFacts
  <2>2. DOMAIN asked' = DOMAIN asked
    BY <1>3 DEF Resubmitted
  <2>3. QED
    BY <2>1, <2>2
<1>4. PICK wb, w, rest : Finished(wb, w, rest)
  BY <1>2, <1>3, CompletionIs
<1>5. rest = FALSE
  BY <1>4, NoRefusal
<1>6. /\ wb = asked[Head(out).id].buf /\ w.q = <<>>
      /\ w = Changed(wbuf[wb], Rest(wb, Head(out)).q, Rest(wb, Head(out)).buffered)
  BY <1>4, <1>5 DEF Finished, Completes
<1>7. wire[wb] = wrote[wb] - Unsent(<<>>)
  BY <1>1, <1>2, <1>6, WriteCompleted DEF SentInv
<1>8. wrote[wb] \in Nat
  BY <1>6, InvParts, BufferFacts
<1>9. QED
  BY <1>6, <1>7, <1>8, EmptyQueue

(* WriteSuccessMeansSent, under OneWriter: what src/meta/async.lua says of *)
(* submit_write is true of a script that has one writer per socket.  The   *)
(* iterator reports the success of a write when the kernel has taken every *)
(* byte the script wrote.                                                  *)
THEOREM SuccessMeansSent == ASSUME OneWriter PROVE BindSpec => WriteSuccessMeansSent
<1>1. BindInv /\ SocketsKept /\ [BindNext]_bvars => SocketsKept'
  BY SocketsNext DEF OneWriter
<1>2. BindInv /\ SocketsKept /\ SentInv /\ [BindNext]_bvars => SentInv'
  BY SentNext
<1>3. BindInv /\ SocketsKept /\ SentInv /\ [BindNext]_bvars =>
          [LET c == Head(out)
           IN  /\ async_completions /\ c.id \notin DOMAIN asked' /\ open
               /\ asked[c.id].buf \in WB \ closed /\ c.status = "success"
               => wire[asked[c.id].buf] = wrote[asked[c.id].buf]]_bvars
  BY SentStep
<1>4. QED
  BY InitSockets, InitSent, BindInvAlways, <1>1, <1>2, <1>3, PTL
  DEF BindSpec, WriteSuccessMeansSent
===============================================================================
