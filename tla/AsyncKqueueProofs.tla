-------------------------- MODULE AsyncKqueueProofs --------------------------
(***************************************************************************)
(* Proofs about the kqueue backend for any sockets, requests, span and     *)
(* batch sizes: type correctness, the ownership of the udata, that no      *)
(* request is stranded, and the refinement of the interface AsyncIface.    *)
(***************************************************************************)
EXTENDS AsyncKqueue, SequenceTheorems, TLAPS

(* The event of op is in the kernel, in the one place where it can be.     *)
Held(op) == kq[op.fd][EVFILT(op.kind)] = op

(* Every registration is filed under the socket and filter of its op.      *)
Keyed == \A fd \in Fd, f \in Filter :
             kq[fd][f] # NoOp => kq[fd][f].fd = fd /\ EVFILT(kq[fd][f].kind) = f

(* Events are in the caller's hands only inside the loop over them.        *)
BatchInLoop == phase # "events" => batch = {}

HeldArePending == \A op \in PendingOp : Held(op) => op \in pending /\ op \notin batch

NoneStranded == \A op \in pending :
                    Held(op) \/ op \in batch \cup replaced \cup dropped \cup lapsed

IInv == /\ TypeOK /\ Keyed /\ BatchInLoop /\ HeldArePending
        /\ batch \subseteq pending /\ NoneStranded

LEMMA ConstantFacts ==
    Room \in Nat /\ Room > 0 /\ Wanted \subseteq Request /\ NoOp \notin PendingOp /\ NoOp \notin Fd
BY Constants

LEMMA FilterFacts ==
    /\ Filter = {"read", "write"}
    /\ \A kind : EVFILT(kind) \in Filter
    /\ \A kind \in SocketKind : op_filter(kind) = EVFILT(kind)
BY DEF Filter, EVFILT, op_filter, SocketKind, ReadKind, WriteKind

LEMMA OpFacts ==
    ASSUME NEW op \in PendingOp
    PROVE  /\ op.id \in Id /\ op.fd \in Fd /\ op.kind \in SocketKind
           /\ EVFILT(op.kind) \in Filter /\ op # NoOp
BY FilterFacts, ConstantFacts DEF PendingOp

LEMMA SubmitOp ==
    ASSUME NEW r \in Request, r.kind \in SocketKind, NEW fd \in Fd
    PROVE  LET op == [id |-> r.id, kind |-> r.kind, fd |-> fd] IN
               op \in PendingOp /\ op.id = r.id /\ op.kind = r.kind /\ op.fd = fd
BY DEF Request, PendingOp

-------------------------------------------------------------------------------
(* The map of the kernel                                                   *)

KqType == [Fd -> [Filter -> PendingOp \cup {NoOp}]]

LEMMA KqUpdate ==
    ASSUME kq \in KqType, NEW op \in PendingOp,
           kq' = [kq EXCEPT ![op.fd][EVFILT(op.kind)] = op]
    PROVE  /\ kq' \in KqType
           /\ \A fd \in Fd, f \in Filter :
                 kq'[fd][f] = IF fd = op.fd /\ f = EVFILT(op.kind) THEN op ELSE kq[fd][f]
<1> DEFINE row == [kq[op.fd] EXCEPT ![EVFILT(op.kind)] = op]
<1>1. op.fd \in Fd /\ EVFILT(op.kind) \in Filter
  BY OpFacts
<1>2. kq[op.fd] \in [Filter -> PendingOp \cup {NoOp}]
  BY <1>1 DEF KqType
<1>3. row \in [Filter -> PendingOp \cup {NoOp}]
  BY <1>2
<1>4. kq' = [kq EXCEPT ![op.fd] = row]
  OBVIOUS
<1>5. kq' \in KqType
  BY <1>3, <1>4 DEF KqType
<1>6. ASSUME NEW fd \in Fd, NEW f \in Filter
      PROVE  kq'[fd][f] = IF fd = op.fd /\ f = EVFILT(op.kind) THEN op ELSE kq[fd][f]
  BY <1>1, <1>2, <1>4 DEF KqType
<1>7. QED
  BY <1>5, <1>6

(* Of a request, the register call touches only the place it is held in.   *)
LEMMA RegisterFacts ==
    ASSUME TypeOK, Keyed, NEW op \in PendingOp, kqueue_register(op)
    PROVE  /\ kq' \in KqType /\ Keyed' /\ replaced' \in SUBSET PendingOp
           /\ kq'[op.fd][EVFILT(op.kind)] = op
           /\ \A o \in PendingOp : o # op => (Held(o)' => Held(o))
           /\ \A o \in PendingOp : Held(o) => Held(o)' \/ o \in replaced'
           /\ replaced \subseteq replaced'
<1>1. kq \in KqType /\ kq' = [kq EXCEPT ![op.fd][EVFILT(op.kind)] = op]
  BY DEF TypeOK, KqType, kqueue_register
<1>2. /\ kq' \in KqType
      /\ \A fd \in Fd, f \in Filter :
            kq'[fd][f] = IF fd = op.fd /\ f = EVFILT(op.kind) THEN op ELSE kq[fd][f]
  BY <1>1, KqUpdate
<1>3. Keyed'
  BY <1>2 DEF Keyed
<1>4. \A o \in PendingOp : o.fd \in Fd /\ EVFILT(o.kind) \in Filter /\ o # NoOp
  BY OpFacts
<1>5. replaced' = replaced \cup ({kq[op.fd][EVFILT(op.kind)]} \ {NoOp})
  BY DEF kqueue_register
<1>6. kq[op.fd][EVFILT(op.kind)] \in PendingOp \cup {NoOp}
  BY <1>1, <1>4 DEF KqType
<1>7. replaced' \in SUBSET PendingOp
  BY <1>5, <1>6 DEF TypeOK
<1>8. \A o \in PendingOp : Held(o)' <=> kq'[o.fd][EVFILT(o.kind)] = o
  BY DEF Held
<1>9. \A o \in PendingOp : o # op => (Held(o)' => Held(o))
  BY <1>2, <1>4, <1>8 DEF Held
<1>10. \A o \in PendingOp : Held(o) => Held(o)' \/ o \in replaced'
  BY <1>2, <1>4, <1>5, <1>8 DEF Held
<1>11. kq'[op.fd][EVFILT(op.kind)] = op
  BY <1>2, <1>4
<1>12. QED
  BY <1>2, <1>3, <1>5, <1>7, <1>9, <1>10, <1>11

(* A step that empties some places of the kernel.                          *)
LEMMA EmptyFacts ==
    ASSUME TypeOK, Keyed, NEW E \in SUBSET (Fd \X Filter),
           kq' = [fd \in Fd |-> [f \in Filter |-> IF <<fd, f>> \in E THEN NoOp ELSE kq[fd][f]]]
    PROVE  /\ kq' \in KqType /\ Keyed'
           /\ \A o \in PendingOp : Held(o)' <=> Held(o) /\ <<o.fd, EVFILT(o.kind)>> \notin E
<1>1. kq \in KqType
  BY DEF TypeOK, KqType
<1>2. \A fd \in Fd, f \in Filter : kq'[fd][f] = IF <<fd, f>> \in E THEN NoOp ELSE kq[fd][f]
  OBVIOUS
<1>3. kq' \in KqType
  BY <1>1 DEF KqType
<1>4. Keyed'
  BY <1>2 DEF Keyed
<1>5. \A o \in PendingOp : Held(o)' <=> kq'[o.fd][EVFILT(o.kind)] = o
  BY DEF Held
<1>6. ASSUME NEW o \in PendingOp
      PROVE  Held(o)' <=> Held(o) /\ <<o.fd, EVFILT(o.kind)>> \notin E
  <2>1. o.fd \in Fd /\ EVFILT(o.kind) \in Filter /\ o # NoOp
    BY OpFacts
  <2>2. QED
    BY <1>2, <1>5, <2>1 DEF Held
<1>7. QED
  BY <1>3, <1>4, <1>6

-------------------------------------------------------------------------------
(* Sequences of ids                                                        *)

Fit == IF Len(sync) < Room THEN Len(sync) ELSE Room

LEMMA TakeFacts ==
    ASSUME NEW s \in Seq(Id), NEW k \in 0..Len(s)
    PROVE  /\ SubSeq(s, 1, k) \in Seq(Id) /\ Len(SubSeq(s, 1, k)) = k
           /\ \A i \in 1..k : SubSeq(s, 1, k)[i] = s[i]
           /\ SubSeq(s, k + 1, Len(s)) \in Seq(Id)
           /\ Len(SubSeq(s, k + 1, Len(s))) = Len(s) - k
           /\ \A i \in 1..(Len(s) - k) : SubSeq(s, k + 1, Len(s))[i] = s[k + i]
<1>1. Len(s) \in Nat /\ \A i \in 1..Len(s) : s[i] \in Id
  BY LenProperties, ElementOfSeq
<1>2. \A i \in 1..k : s[i] \in Id
  BY <1>1
<1>3. /\ SubSeq(s, 1, k) \in Seq(Id) /\ Len(SubSeq(s, 1, k)) = k
      /\ \A i \in 1..k : SubSeq(s, 1, k)[i] = s[i]
  BY <1>1, <1>2, SubSeqProperties
<1>4. \A i \in (k + 1)..Len(s) : s[i] \in Id
  BY <1>1
<1>5. k + 1 \in Int /\ Len(s) \in Int
  BY <1>1
<1>6. /\ SubSeq(s, k + 1, Len(s)) \in Seq(Id)
      /\ Len(SubSeq(s, k + 1, Len(s))) = Len(s) - k
      /\ \A i \in 1..(Len(s) - k) : SubSeq(s, k + 1, Len(s))[i] = s[k + i]
  BY <1>1, <1>4, <1>5, SubSeqProperties
<1>7. QED
  BY <1>3, <1>6

LEMMA BeginFacts ==
    ASSUME TypeOK, NEW mode, Begin(mode)
    PROVE  /\ Len(sync) \in Nat /\ DOMAIN sync = 1..Len(sync) /\ Fit \in 0..Len(sync)
           /\ out' \in Seq(Id) /\ DOMAIN out' = 1..Fit
           /\ \A i \in 1..Fit : out'[i] = sync[i]
           /\ sync' \in Seq(Id) /\ DOMAIN sync' = 1..(Len(sync) - Fit)
           /\ \A i \in 1..(Len(sync) - Fit) : sync'[i] = sync[Fit + i]
           /\ phase = "lua" /\ phase' \in {"lua", "drain"}
<1>1. sync \in Seq(Id) /\ Len(sync) \in Nat /\ DOMAIN sync = 1..Len(sync)
  BY LenProperties DEF TypeOK
<1>2. Fit \in 0..Len(sync)
  BY <1>1, ConstantFacts DEF Fit
<1>3. out' = SubSeq(sync, 1, Fit) /\ sync' = SubSeq(sync, Fit + 1, Len(sync))
  BY DEF Begin, Fit
<1>4. /\ out' \in Seq(Id) /\ Len(out') = Fit
      /\ \A i \in 1..Fit : out'[i] = sync[i]
      /\ sync' \in Seq(Id) /\ Len(sync') = Len(sync) - Fit
      /\ \A i \in 1..(Len(sync) - Fit) : sync'[i] = sync[Fit + i]
  BY <1>1, <1>2, <1>3, TakeFacts
<1>5. DOMAIN out' = 1..Fit /\ DOMAIN sync' = 1..(Len(sync) - Fit)
  BY <1>4, LenProperties
<1>6. phase = "lua" /\ phase' \in {"lua", "drain"}
  BY DEF Begin
<1>7. QED
  BY <1>1, <1>2, <1>4, <1>5, <1>6

LEMMA AppendFacts ==
    ASSUME NEW s \in Seq(Id), NEW x \in Id
    PROVE  /\ Append(s, x) \in Seq(Id) /\ Span(Append(s, x)) = Span(s) \cup {x}
           /\ Len(s) \in Nat /\ DOMAIN s = 1..Len(s)
           /\ DOMAIN Append(s, x) = 1..(Len(s) + 1)
           /\ \A i \in 1..Len(s) : Append(s, x)[i] = s[i]
           /\ Append(s, x)[Len(s) + 1] = x
<1>1. /\ Append(s, x) \in Seq(Id) /\ Len(Append(s, x)) = Len(s) + 1
      /\ \A i \in 1..Len(s) : Append(s, x)[i] = s[i]
      /\ Append(s, x)[Len(s) + 1] = x
  BY AppendProperties
<1>2. Len(s) \in Nat /\ DOMAIN s = 1..Len(s) /\ DOMAIN Append(s, x) = 1..(Len(s) + 1)
  BY <1>1, LenProperties
<1>3. \A i \in 1..(Len(s) + 1) : i \in 1..Len(s) \/ i = Len(s) + 1
  BY <1>2
<1>4. \A i \in 1..Len(s) : i \in 1..(Len(s) + 1)
  BY <1>2
<1>5. Len(s) + 1 \in 1..(Len(s) + 1)
  BY <1>2
<1>6. Span(Append(s, x)) = Span(s) \cup {x}
  BY <1>1, <1>2, <1>3, <1>4, <1>5 DEF Span
<1>7. QED
  BY <1>1, <1>2, <1>6

-------------------------------------------------------------------------------
(* The invariant is inductive                                              *)

LEMMA InitIInv == Init => IInv
<1> SUFFICES ASSUME Init
             PROVE  IInv
  OBVIOUS
<1>1. \A fd \in Fd, f \in Filter : kq[fd][f] = NoOp
  BY DEF Init, Unregistered
<1>2. TypeOK
  BY DEF Init, TypeOK, Unregistered
<1>3. \A op \in PendingOp : ~Held(op)
  BY <1>1, OpFacts DEF Held
<1>4. QED
  BY <1>1, <1>2, <1>3 DEF Init, IInv, Keyed, BatchInLoop, HeldArePending, NoneStranded

(* A step that only takes the events of requests that it forgets.          *)
LEMMA ForgetIInv ==
    ASSUME IInv, phase = "lua", NEW ops \in SUBSET PendingOp, Forget(ops),
           kq' \in KqType, Keyed', open' \in BOOLEAN,
           \A o \in PendingOp : Held(o)' <=> Held(o) /\ o \notin ops,
           UNCHANGED <<sync, call, world>>
    PROVE  IInv'
<1>1. batch = {} /\ batch' = {} /\ phase' = phase
  BY DEF IInv, BatchInLoop, call
<1>2. TypeOK'
  BY <1>1 DEF IInv, TypeOK, KqType, Forget, call, world
<1>3. HeldArePending'
  BY <1>1 DEF IInv, HeldArePending, Forget
<1>4. NoneStranded'
  BY <1>1, <1>2 DEF IInv, NoneStranded, Forget, TypeOK
<1>5. QED
  BY <1>1, <1>2, <1>3, <1>4 DEF IInv, BatchInLoop

LEMMA SubmitIInv ==
    ASSUME IInv, NEW r \in Request, NEW fd \in Fd, Unused(r.id), Submit(r, fd)
    PROVE  IInv'
<1> DEFINE op == [id |-> r.id, kind |-> r.kind, fd |-> fd]
<1>1. op \in PendingOp /\ op.id = r.id
  BY SubmitOp DEF Submit
<1>2. /\ kqueue_register(op) /\ pending' = pending \cup {op} /\ phase = "lua"
      /\ UNCHANGED <<open, sync, call, world, dropped, lapsed>>
  BY DEF Submit
<1>3. /\ kq' \in KqType /\ Keyed' /\ replaced' \in SUBSET PendingOp
      /\ kq'[op.fd][EVFILT(op.kind)] = op
      /\ \A o \in PendingOp : o # op => (Held(o)' => Held(o))
      /\ \A o \in PendingOp : Held(o) => Held(o)' \/ o \in replaced'
      /\ replaced \subseteq replaced'
  BY <1>1, <1>2, RegisterFacts DEF IInv
<1>4. Held(op)'
  BY <1>3 DEF Held
<1>5. batch = {} /\ batch' = {} /\ phase' = phase
  BY <1>2 DEF IInv, BatchInLoop, call
<1>6. TypeOK'
  BY <1>1, <1>2, <1>3, <1>5 DEF IInv, TypeOK, KqType, call, world
<1>7. HeldArePending'
  BY <1>2, <1>3, <1>5 DEF IInv, HeldArePending
<1>8. NoneStranded'
  BY <1>2, <1>3, <1>4, <1>5 DEF IInv, NoneStranded, TypeOK
<1>9. QED
  BY <1>3, <1>5, <1>6, <1>7, <1>8 DEF IInv, BatchInLoop

LEMMA CompleteIInv ==
    ASSUME IInv, NEW r \in Request, Complete(r)
    PROVE  IInv'
<1>1. /\ sync' = Append(sync, r.id)
      /\ UNCHANGED <<open, pending, kq, call, world, history>>
  BY DEF Complete
<1>2. sync' \in Seq(Id)
  BY <1>1, AppendFacts DEF Request, IInv, TypeOK
<1>3. TypeOK'
  BY <1>1, <1>2 DEF IInv, TypeOK, call, world, history
<1>4. QED
  BY <1>1, <1>3 DEF IInv, Keyed, BatchInLoop, HeldArePending, NoneStranded, Held, call, history

LEMMA CancelIInv ==
    ASSUME IInv, NEW fd \in Fd, cancel(fd)
    PROVE  IInv'
<1> DEFINE ops == {op \in pending : op.fd = fd}
           Cut(f) == \E op \in ops : op_filter(op.kind) = f
           E == {k \in Fd \X Filter : k[1] = fd /\ Cut(k[2])}
<1>1. /\ phase = "lua" /\ Forget(ops) /\ ops \in SUBSET PendingOp
      /\ kq' = [kq EXCEPT ![fd] = [f \in Filter |-> IF Cut(f) THEN NoOp ELSE @[f]]]
      /\ UNCHANGED <<open, sync, call, world>>
  BY DEF cancel, IInv, TypeOK
<1>2. \A g \in Fd, f \in Filter : <<g, f>> \in E <=> g = fd /\ Cut(f)
  OBVIOUS
<1>3. kq' = [g \in Fd |-> [f \in Filter |-> IF <<g, f>> \in E THEN NoOp ELSE kq[g][f]]]
  <2> HIDE DEF E, Cut
  <2>1. kq \in [Fd -> [Filter -> PendingOp \cup {NoOp}]]
    BY DEF IInv, TypeOK
  <2>2. ASSUME NEW g \in Fd
        PROVE  kq'[g] = [f \in Filter |-> IF <<g, f>> \in E THEN NoOp ELSE kq[g][f]]
    <3>1. CASE g = fd
      <4>1. kq'[g] = [f \in Filter |-> IF Cut(f) THEN NoOp ELSE kq[g][f]]
        BY <1>1, <2>1, <3>1
      <4>2. QED
        BY <1>2, <3>1, <4>1
    <3>2. CASE g # fd
      <4>1. kq'[g] = kq[g] /\ kq[g] \in [Filter -> PendingOp \cup {NoOp}]
        BY <1>1, <2>1, <3>2
      <4>2. \A f \in Filter : <<g, f>> \notin E
        BY <1>2, <3>2
      <4>3. QED
        BY <4>1, <4>2
    <3>3. QED
      BY <3>1, <3>2
  <2>3. kq' = [g \in Fd |-> kq'[g]]
    BY <1>1, <2>1
  <2>4. QED
    BY <2>2, <2>3
<1>4. E \in SUBSET (Fd \X Filter)
  OBVIOUS
<1>5. /\ kq' \in KqType /\ Keyed'
      /\ \A o \in PendingOp : Held(o)' <=> Held(o) /\ <<o.fd, EVFILT(o.kind)>> \notin E
  <2> HIDE DEF E
  <2>1. QED
    BY <1>3, <1>4, EmptyFacts DEF IInv
<1>6. ASSUME NEW o \in PendingOp
      PROVE  Held(o)' <=> Held(o) /\ o \notin ops
  <2>1. o.fd \in Fd /\ o.kind \in SocketKind /\ EVFILT(o.kind) \in Filter
    BY OpFacts
  <2>2. ASSUME Held(o), o.fd = fd
        PROVE  o \in ops /\ Cut(EVFILT(o.kind))
    <3>1. o \in ops
      BY <2>2 DEF IInv, HeldArePending
    <3>2. QED
      BY <2>1, <3>1, FilterFacts
  <2>3. Held(o) => (o \in ops <=> <<o.fd, EVFILT(o.kind)>> \in E)
    <3> HIDE DEF E, Cut
    <3>1. <<o.fd, EVFILT(o.kind)>> \in E <=> o.fd = fd /\ Cut(EVFILT(o.kind))
      BY <1>2, <2>1
    <3>2. QED
      BY <2>2, <3>1
  <2>4. QED
    BY <1>5, <2>3
<1>7. open' \in BOOLEAN
  BY <1>1 DEF IInv, TypeOK
<1>8. QED
  <2> HIDE DEF ops
  <2>1. QED
    BY <1>1, <1>5, <1>6, <1>7, ForgetIInv

LEMMA StopIInv ==
    ASSUME IInv, stop
    PROVE  IInv'
<1>1. /\ phase = "lua" /\ Forget(pending) /\ pending \in SUBSET PendingOp
      /\ open' \in BOOLEAN /\ UNCHANGED <<sync, call, world>>
  BY DEF stop, IInv, TypeOK
<1>2. \A fd \in Fd, f \in Filter : kq'[fd][f] = NoOp
  BY DEF stop, Unregistered
<1>3. kq' \in KqType /\ Keyed'
  BY <1>2 DEF stop, Unregistered, KqType, Keyed
<1>4. ASSUME NEW o \in PendingOp
      PROVE  Held(o)' <=> Held(o) /\ o \notin pending
  <2>1. Held(o)' <=> kq'[o.fd][EVFILT(o.kind)] = o
    BY DEF Held
  <2>2. ~Held(o)'
    BY <1>2, <2>1, OpFacts
  <2>3. QED
    BY <2>2 DEF IInv, HeldArePending
<1>5. QED
  BY <1>1, <1>3, <1>4, ForgetIInv

LEMMA BeginIInv ==
    ASSUME IInv, NEW mode, Begin(mode)
    PROVE  IInv'
<1>1. /\ out' \in Seq(Id) /\ sync' \in Seq(Id) /\ phase = "lua" /\ phase' \in {"lua", "drain"}
  BY BeginFacts DEF IInv
<1>2. UNCHANGED <<open, pending, kq, batch, world, history>>
  BY DEF Begin
<1>3. TypeOK'
  BY <1>1, <1>2 DEF IInv, TypeOK, world, history
<1>4. BatchInLoop'
  BY <1>1, <1>2 DEF IInv, BatchInLoop
<1>5. QED
  BY <1>2, <1>3, <1>4 DEF IInv, Keyed, HeldArePending, NoneStranded, Held, history

LEMMA KeventIInv ==
    ASSUME IInv, kevent
    PROVE  IInv'
<1>1. PICK keys \in SUBSET Firing :
          /\ batch' = {kq[k[1]][k[2]] : k \in keys}
          /\ kq' = [fd \in Fd |-> [f \in Filter |->
                        IF <<fd, f>> \in keys THEN NoOp ELSE kq[fd][f]]]
          /\ phase' = IF keys = {} THEN "lua" ELSE "events"
  BY DEF kevent
<1>2. phase = "drain" /\ UNCHANGED <<open, pending, sync, out, world, history>>
  BY DEF kevent
<1>3. keys \in SUBSET (Fd \X Filter) /\ \A k \in keys : kq[k[1]][k[2]] # NoOp
  BY DEF Firing
<1>4. /\ kq' \in KqType /\ Keyed'
      /\ \A o \in PendingOp : Held(o)' <=> Held(o) /\ <<o.fd, EVFILT(o.kind)>> \notin keys
  BY <1>1, <1>3, EmptyFacts DEF IInv
<1>5. ASSUME NEW o
      PROVE  o \in batch' <=> o \in PendingOp /\ Held(o) /\ <<o.fd, EVFILT(o.kind)>> \in keys
  <2>1. ASSUME o \in batch'
        PROVE  o \in PendingOp /\ Held(o) /\ <<o.fd, EVFILT(o.kind)>> \in keys
    <3>1. PICK k \in keys : o = kq[k[1]][k[2]]
      BY <1>1, <2>1
    <3>2. PICK fd \in Fd, f \in Filter : k = <<fd, f>>
      BY <1>3, <3>1
    <3>3. o = kq[fd][f] /\ o # NoOp /\ <<fd, f>> \in keys
      BY <1>3, <3>1, <3>2
    <3>4. o \in PendingOp /\ o.fd = fd /\ EVFILT(o.kind) = f
      BY <3>3 DEF IInv, TypeOK, Keyed
    <3>5. QED
      BY <3>3, <3>4 DEF Held
  <2>2. ASSUME o \in PendingOp, Held(o), <<o.fd, EVFILT(o.kind)>> \in keys
        PROVE  o \in batch'
    <3> DEFINE k == <<o.fd, EVFILT(o.kind)>>
    <3>1. k \in keys /\ k[1] = o.fd /\ k[2] = EVFILT(o.kind)
      BY <2>2
    <3>2. o = kq[k[1]][k[2]]
      BY <2>2, <3>1 DEF Held
    <3>3. QED
      BY <1>1, <3>1, <3>2
  <2>3. QED
    BY <2>1, <2>2
<1>6. batch' \in SUBSET PendingOp /\ batch' \subseteq pending'
  BY <1>2, <1>5 DEF IInv, HeldArePending
<1>7. TypeOK'
  BY <1>1, <1>2, <1>4, <1>6 DEF IInv, TypeOK, KqType, world, history
<1>8. HeldArePending'
  BY <1>2, <1>4, <1>5 DEF IInv, HeldArePending
<1>9. BatchInLoop'
  BY <1>1 DEF BatchInLoop
<1>10. batch = {}
  BY <1>2 DEF IInv, BatchInLoop
<1>11. NoneStranded'
  BY <1>2, <1>4, <1>5, <1>10 DEF IInv, NoneStranded, TypeOK, history
<1>12. QED
  BY <1>4, <1>6, <1>7, <1>8, <1>9, <1>11 DEF IInv

LEMMA ReportIInv ==
    ASSUME IInv, NEW op \in pending, Report(op) \/ rearm_refused(op)
    PROVE  IInv'
<1>1. /\ phase = "events" /\ op \in batch /\ out' = Append(out, op.id)
      /\ pending' = pending \ {op} /\ batch' = batch \ {op}
      /\ UNCHANGED <<open, sync, kq, phase, up, history>>
  BY DEF Report, rearm_refused, world
<1>2. \/ \E gone \in SUBSET {EVFILT(op.kind)} : ready' = [ready EXCEPT ![op.fd] = @ \ gone]
      \/ ready' = ready
  BY DEF Report, rearm_refused, world
<1>3. op \in PendingOp /\ op.id \in Id
  BY OpFacts DEF IInv, TypeOK
<1>4. out' \in Seq(Id)
  BY <1>1, <1>3, AppendFacts DEF IInv, TypeOK
<1>5. ready' \in [Fd -> SUBSET Filter]
  BY <1>2 DEF IInv, TypeOK
<1>6. TypeOK'
  BY <1>1, <1>4, <1>5 DEF IInv, TypeOK, history
<1>7. \A o \in PendingOp : Held(o)' <=> Held(o)
  BY <1>1 DEF Held
<1>8. HeldArePending'
  BY <1>1, <1>7 DEF IInv, HeldArePending
<1>9. NoneStranded'
  BY <1>1, <1>7 DEF IInv, NoneStranded, TypeOK, history
<1>10. QED
  BY <1>1, <1>6, <1>8, <1>9 DEF IInv, Keyed, BatchInLoop

LEMMA RearmIInv ==
    ASSUME IInv, NEW op \in pending, kqueue_rearm(op)
    PROVE  IInv'
<1>1. /\ phase = "events" /\ op \in batch /\ batch' = batch \ {op} /\ kqueue_register(op)
      /\ UNCHANGED <<open, pending, sync, phase, out, world, dropped, lapsed>>
  BY DEF kqueue_rearm
<1>2. op \in PendingOp
  BY DEF IInv, TypeOK
<1>3. /\ kq' \in KqType /\ Keyed' /\ replaced' \in SUBSET PendingOp
      /\ kq'[op.fd][EVFILT(op.kind)] = op
      /\ \A o \in PendingOp : o # op => (Held(o)' => Held(o))
      /\ \A o \in PendingOp : Held(o) => Held(o)' \/ o \in replaced'
      /\ replaced \subseteq replaced'
  BY <1>1, <1>2, RegisterFacts DEF IInv
<1>4. Held(op)'
  BY <1>3 DEF Held
<1>5. TypeOK'
  BY <1>1, <1>3 DEF IInv, TypeOK, KqType, world
<1>6. HeldArePending'
  BY <1>1, <1>3 DEF IInv, HeldArePending
<1>7. NoneStranded'
  BY <1>1, <1>3, <1>4 DEF IInv, NoneStranded, TypeOK
<1>8. QED
  BY <1>1, <1>3, <1>5, <1>6, <1>7 DEF IInv, BatchInLoop

LEMMA ReturnIInv ==
    ASSUME IInv, Return
    PROVE  IInv'
<1>1. /\ phase' = "lua" /\ batch' = {} /\ dropped' = dropped \cup batch
      /\ UNCHANGED <<open, pending, sync, kq, out, world, replaced, lapsed>>
  BY DEF Return
<1>2. TypeOK'
  BY <1>1 DEF IInv, TypeOK, world
<1>3. \A o \in PendingOp : Held(o)' <=> Held(o)
  BY <1>1 DEF Held
<1>4. HeldArePending' /\ Keyed'
  BY <1>1, <1>3 DEF IInv, HeldArePending, Keyed
<1>5. NoneStranded'
  BY <1>1, <1>3 DEF IInv, NoneStranded, TypeOK
<1>6. QED
  BY <1>1, <1>2, <1>4, <1>5 DEF IInv, BatchInLoop

LEMMA CloseFdIInv ==
    ASSUME IInv, NEW fd \in Fd, CloseFd(fd)
    PROVE  IInv'
<1> DEFINE E == {fd} \X Filter
<1>1. /\ phase = "lua" /\ up' = up \ {fd} /\ ready' = [ready EXCEPT ![fd] = {}]
      /\ kq' = [kq EXCEPT ![fd] = Unregistered]
      /\ lapsed' = lapsed \cup ({kq[fd][f] : f \in Filter} \ {NoOp})
      /\ UNCHANGED <<open, pending, sync, call, replaced, dropped>>
  BY DEF CloseFd
<1>2. kq \in [Fd -> [Filter -> PendingOp \cup {NoOp}]]
  BY DEF IInv, TypeOK
<1>3. kq' = [g \in Fd |-> [f \in Filter |-> IF <<g, f>> \in E THEN NoOp ELSE kq[g][f]]]
  <2>1. ASSUME NEW g \in Fd
        PROVE  kq'[g] = [f \in Filter |-> IF <<g, f>> \in E THEN NoOp ELSE kq[g][f]]
    <3>1. CASE g = fd
      BY <1>1, <1>2, <3>1 DEF Unregistered
    <3>2. CASE g # fd
      <4>1. kq'[g] = kq[g] /\ kq[g] \in [Filter -> PendingOp \cup {NoOp}]
        BY <1>1, <1>2, <3>2
      <4>2. QED
        BY <3>2, <4>1
    <3>3. QED
      BY <3>1, <3>2
  <2>2. kq' = [g \in Fd |-> kq'[g]]
    BY <1>1, <1>2
  <2>3. QED
    BY <2>1, <2>2
<1>4. /\ kq' \in KqType /\ Keyed'
      /\ \A o \in PendingOp : Held(o)' <=> Held(o) /\ <<o.fd, EVFILT(o.kind)>> \notin E
  <2>1. E \in SUBSET (Fd \X Filter)
    OBVIOUS
  <2> HIDE DEF E
  <2>2. QED
    BY <1>3, <2>1, EmptyFacts DEF IInv
<1>5. batch = {} /\ batch' = {} /\ phase' = phase
  BY <1>1 DEF IInv, BatchInLoop, call
<1>6. lapsed' \in SUBSET PendingOp
  BY <1>1, <1>2 DEF IInv, TypeOK
<1>7. ready' \in [Fd -> SUBSET Filter] /\ up' \in SUBSET Fd
  BY <1>1 DEF IInv, TypeOK
<1>8. TypeOK'
  BY <1>1, <1>4, <1>5, <1>6, <1>7 DEF IInv, TypeOK, KqType, call
<1>9. HeldArePending'
  BY <1>1, <1>4, <1>5 DEF IInv, HeldArePending
<1>10. NoneStranded'
  <2>1. ASSUME NEW o \in PendingOp, Held(o)
        PROVE  Held(o)' \/ o \in lapsed'
    <3>1. o.fd \in Fd /\ EVFILT(o.kind) \in Filter /\ o # NoOp
      BY OpFacts
    <3>2. CASE o.fd = fd
      BY <1>1, <2>1, <3>1, <3>2 DEF Held
    <3>3. CASE o.fd # fd
      BY <1>4, <2>1, <3>3
    <3>4. QED
      BY <3>2, <3>3
  <2>2. QED
    BY <1>1, <1>5, <2>1 DEF IInv, NoneStranded, TypeOK
<1>11. QED
  BY <1>1, <1>4, <1>5, <1>8, <1>9, <1>10 DEF IInv, BatchInLoop

(* The steps of the world that leave the backend alone.                    *)
LEMMA WorldIInv ==
    ASSUME IInv, up' \in SUBSET Fd, ready' \in [Fd -> SUBSET Filter],
           UNCHANGED <<open, pending, sync, kq, call, history>>
    PROVE  IInv'
<1>1. TypeOK'
  BY DEF IInv, TypeOK, call, history
<1>2. QED
  BY <1>1 DEF IInv, Keyed, BatchInLoop, HeldArePending, NoneStranded, Held, call, history

LEMMA NextIInv == IInv /\ [Next]_vars => IInv'
<1> SUFFICES ASSUME IInv, [Next]_vars
             PROVE  IInv'
  OBVIOUS
<1>0. up \in SUBSET Fd /\ ready \in [Fd -> SUBSET Filter]
  BY DEF IInv, TypeOK
<1>1. ASSUME NEW r \in Wanted, Submission(r)
      PROVE  IInv'
  <2>1. r \in Request
    BY ConstantFacts
  <2>2. QED
    BY <1>1, <2>1, SubmitIInv, CompleteIInv DEF Submission
<1>2. ASSUME NEW fd \in Fd, cancel(fd) \/ CloseFd(fd)
      PROVE  IInv'
  BY <1>2, CancelIInv, CloseFdIInv
<1>3. ASSUME NEW fd \in Fd, OpenFd(fd)
      PROVE  IInv'
  BY <1>0, <1>3, WorldIInv DEF OpenFd
<1>4. ASSUME NEW fd \in Fd, NEW f \in Filter, Arrive(fd, f) \/ Depart(fd, f)
      PROVE  IInv'
  <2>1. up' = up /\ ready' \in [Fd -> SUBSET Filter]
    BY <1>0, <1>4 DEF Arrive, Depart
  <2>2. QED
    BY <1>0, <1>4, <2>1, WorldIInv DEF Arrive, Depart
<1>5. CASE stop \/ kevent \/ Return
  BY <1>5, StopIInv, KeventIInv, ReturnIInv
<1>6. CASE PollOrWait
  BY <1>6, BeginIInv DEF PollOrWait
<1>7. ASSUME NEW op \in pending, Report(op) \/ kqueue_rearm(op) \/ rearm_refused(op)
      PROVE  IInv'
  BY <1>7, ReportIInv, RearmIInv
<1>8. CASE UNCHANGED vars
  BY <1>0, <1>8, WorldIInv DEF vars, world
<1>9. QED
  BY <1>1, <1>2, <1>3, <1>4, <1>5, <1>6, <1>7, <1>8 DEF Next

LEMMA Invariance == Spec => []IInv
BY InitIInv, NextIInv, PTL DEF Spec

(* What is registered is what is held.                                     *)
LEMMA RegisteredIs ==
    ASSUME IInv, NEW o
    PROVE  o \in Registered <=> o \in PendingOp /\ Held(o)
<1>1. ASSUME o \in Registered
      PROVE  o \in PendingOp /\ Held(o)
  <2>1. PICK k \in Fd \X Filter : o = kq[k[1]][k[2]] /\ o # NoOp
    BY <1>1 DEF Registered
  <2>2. PICK fd \in Fd, f \in Filter : k = <<fd, f>>
    BY <2>1
  <2>3. o = kq[fd][f]
    BY <2>1, <2>2
  <2>4. o \in PendingOp /\ o.fd = fd /\ EVFILT(o.kind) = f
    BY <2>1, <2>3 DEF IInv, TypeOK, Keyed
  <2>5. QED
    BY <2>3, <2>4 DEF Held
<1>2. ASSUME o \in PendingOp, Held(o)
      PROVE  o \in Registered
  <2> DEFINE k == <<o.fd, EVFILT(o.kind)>>
  <2>1. o.fd \in Fd /\ EVFILT(o.kind) \in Filter /\ o # NoOp
    BY <1>2, OpFacts
  <2>2. k \in Fd \X Filter /\ k[1] = o.fd /\ k[2] = EVFILT(o.kind)
    BY <2>1
  <2>3. o = kq[k[1]][k[2]]
    BY <1>2, <2>2 DEF Held
  <2>4. QED
    BY <2>1, <2>2, <2>3 DEF Registered
<1>3. QED
  BY <1>1, <1>2

(* Type correctness: the records, masks and queues of async_bsd.cpp.       *)
THEOREM TypeCorrect == Spec => []TypeOK
<1>1. IInv => TypeOK
  BY DEF IInv
<1>2. QED
  BY <1>1, Invariance, PTL

(* UdataIsPending: the kernel and the fetched events never hold the        *)
(* address of a request that cancel, stop or handle_event deleted.         *)
THEOREM UdataSafe == Spec => []UdataIsPending
<1>1. IInv => UdataIsPending
  <2> SUFFICES ASSUME IInv
               PROVE  UdataIsPending
    OBVIOUS
  <2>1. \A o : o \in Registered => o \in PendingOp /\ Held(o)
    BY RegisteredIs
  <2>2. QED
    BY <2>1 DEF IInv, HeldArePending, UdataIsPending
<1>2. QED
  BY <1>1, Invariance, PTL

(* WaitingIsRegistered: handle_event's rearm keeps every request that it   *)
(* does not report in the kernel, whatever kevent hands it.                *)
THEOREM NothingStranded == Spec => []WaitingIsRegistered
<1>1. IInv => WaitingIsRegistered
  <2> SUFFICES ASSUME IInv
               PROVE  WaitingIsRegistered
    OBVIOUS
  <2>1. \A o : o \in PendingOp /\ Held(o) => o \in Registered
    BY RegisteredIs
  <2>2. QED
    BY <2>1 DEF IInv, NoneStranded, TypeOK, WaitingIsRegistered
<1>2. QED
  BY <1>1, Invariance, PTL

-------------------------------------------------------------------------------
(* Refinement of the interface                                             *)

(* The requests in flight have ids of their own.                           *)
IdsDistinct ==
    /\ \A o1, o2 \in pending : o1.id = o2.id => o1 = o2
    /\ \A i, j \in DOMAIN sync : sync[i] = sync[j] => i = j
    /\ \A op \in pending, i \in DOMAIN sync : op.id # sync[i]

LEMMA FewerDistinct ==
    ASSUME IdsDistinct, pending' \subseteq pending, sync' = sync
    PROVE  IdsDistinct'
BY DEF IdsDistinct

LEMMA BeginDistinct ==
    ASSUME TypeOK, IdsDistinct, NEW mode, Begin(mode)
    PROVE  IdsDistinct'
<1>1. /\ Len(sync) \in Nat /\ DOMAIN sync = 1..Len(sync) /\ Fit \in 0..Len(sync)
      /\ DOMAIN sync' = 1..(Len(sync) - Fit)
      /\ \A i \in 1..(Len(sync) - Fit) : sync'[i] = sync[Fit + i]
  BY BeginFacts
<1>2. \A i \in DOMAIN sync' : Fit + i \in DOMAIN sync /\ sync'[i] = sync[Fit + i]
  BY <1>1
<1>3. pending' = pending
  BY DEF Begin
<1>4. \A i, j \in DOMAIN sync' : sync'[i] = sync'[j] => i = j
  <2>1. ASSUME NEW i \in DOMAIN sync', NEW j \in DOMAIN sync', sync'[i] = sync'[j]
        PROVE  i = j
    <3>1. Fit + i = Fit + j
      BY <1>2, <2>1 DEF IdsDistinct
    <3>2. QED
      BY <1>1, <3>1
  <2>2. QED
    BY <2>1
<1>5. QED
  BY <1>2, <1>3, <1>4 DEF IdsDistinct

LEMMA SubmissionDistinct ==
    ASSUME TypeOK, IdsDistinct, NEW r \in Request, Submission(r)
    PROVE  IdsDistinct'
<1>1. Unused(r.id) /\ r.id \in Id
  BY DEF Submission, Request
<1>2. CASE Complete(r)
  <2>1. sync' = Append(sync, r.id) /\ pending' = pending
    BY <1>2 DEF Complete
  <2>2. /\ Len(sync) \in Nat /\ DOMAIN sync = 1..Len(sync)
        /\ DOMAIN sync' = 1..(Len(sync) + 1)
        /\ \A i \in 1..Len(sync) : sync'[i] = sync[i]
        /\ sync'[Len(sync) + 1] = r.id
    BY <1>1, <2>1, AppendFacts DEF TypeOK
  <2>3. \A i \in DOMAIN sync' : \/ i \in DOMAIN sync /\ sync'[i] = sync[i]
                                \/ i = Len(sync) + 1 /\ sync'[i] = r.id
    BY <2>2
  <2>4. \A i \in DOMAIN sync : sync[i] # r.id
    BY <1>1 DEF Unused, Span
  <2>5. \A op \in pending : op.id # r.id
    BY <1>1 DEF Unused
  <2>6. QED
    BY <2>1, <2>3, <2>4, <2>5 DEF IdsDistinct
<1>3. ASSUME NEW fd \in Fd, Submit(r, fd)
      PROVE  IdsDistinct'
  <2> DEFINE op == [id |-> r.id, kind |-> r.kind, fd |-> fd]
  <2>1. pending' = pending \cup {op} /\ sync' = sync /\ op.id = r.id
    BY <1>3 DEF Submit
  <2>2. \A i \in DOMAIN sync : sync[i] # r.id
    BY <1>1 DEF Unused, Span
  <2>3. \A o \in pending : o.id # r.id
    BY <1>1 DEF Unused
  <2> HIDE DEF op
  <2>4. QED
    BY <2>1, <2>2, <2>3 DEF IdsDistinct
<1>4. QED
  BY <1>2, <1>3 DEF Submission

LEMMA NextDistinct == TypeOK /\ IdsDistinct /\ [Next]_vars => IdsDistinct'
<1> SUFFICES ASSUME TypeOK, IdsDistinct, [Next]_vars
             PROVE  IdsDistinct'
  OBVIOUS
<1>1. ASSUME NEW r \in Wanted, Submission(r)
      PROVE  IdsDistinct'
  BY <1>1, ConstantFacts, SubmissionDistinct
<1>2. CASE PollOrWait
  BY <1>2, BeginDistinct DEF PollOrWait
<1>3. CASE \/ stop \/ \E fd \in Fd : cancel(fd)
           \/ \E op \in pending : Report(op) \/ rearm_refused(op)
  BY <1>3, FewerDistinct DEF stop, cancel, Report, rearm_refused, Forget
<1>4. CASE UNCHANGED <<pending, sync>>
  BY <1>4, FewerDistinct
<1>5. QED
  BY <1>1, <1>2, <1>3, <1>4
     DEF Next, CloseFd, OpenFd, Arrive, Depart, kevent, Return, kqueue_rearm, vars

(* A filed request is a pending op, with its socket, or an id in the queue. *)
LEMMA FiledIs ==
    \A p : p \in Filed <=> \/ \E op \in pending : p = <<op.id, op.fd>>
                           \/ \E i \in DOMAIN sync : p = <<sync[i], NoOp>>
BY DEF Filed, Span

LEMMA FiledIsNext ==
    \A p : p \in Filed' <=> \/ \E op \in pending' : p = <<op.id, op.fd>>
                            \/ \E i \in DOMAIN sync' : p = <<sync'[i], NoOp>>
BY DEF Filed, Span

LEMMA PairParts ==
    /\ \A a, b, c, d : <<a, b>> = <<c, d>> <=> a = c /\ b = d
    /\ \A a, b : <<a, b>>[1] = a /\ <<a, b>>[2] = b
OBVIOUS

LEMMA SubmissionRefines ==
    ASSUME TypeOK, NEW r \in Request, Submission(r)
    PROVE  Iface!Next
<1>1. Unused(r.id) /\ r.id \in Id
  BY DEF Submission, Request
<1>2. r.id \notin Iface!Ids(Filed)
  <2>1. ASSUME NEW p \in Filed
        PROVE  p[1] # r.id
    BY <1>1, FiledIs DEF Unused, Span
  <2>2. QED
    BY <2>1 DEF Iface!Ids
<1>3. ASSUME NEW where \in Fd \cup {NoOp}, Filed' = Filed \cup {<<r.id, where>>},
             phase = "lua", UNCHANGED <<open, call>>
      PROVE  Iface!Next
  <2>1. Iface!Submit(r.id, where)
    BY <1>2, <1>3 DEF Iface!Submit, call
  <2>2. QED
    BY <1>1, <2>1 DEF Iface!Next
<1>4. CASE Complete(r)
  <2>1. sync' = Append(sync, r.id) /\ pending' = pending /\ phase = "lua"
        /\ UNCHANGED <<open, call>>
    BY <1>4 DEF Complete
  <2>2. Span(sync)' = Span(sync) \cup {r.id}
    <3>1. sync \in Seq(Id)
      BY DEF TypeOK
    <3>2. Span(Append(sync, r.id)) = Span(sync) \cup {r.id}
      BY <1>1, <3>1, AppendFacts
    <3>3. QED
      BY <2>1, <3>2 DEF Span
  <2>3. Filed' = Filed \cup {<<r.id, NoOp>>}
    BY <2>1, <2>2 DEF Filed
  <2>4. QED
    BY <1>3, <2>1, <2>3
<1>5. ASSUME NEW fd \in Fd, Submit(r, fd)
      PROVE  Iface!Next
  <2> DEFINE op == [id |-> r.id, kind |-> r.kind, fd |-> fd]
  <2>1. pending' = pending \cup {op} /\ sync' = sync /\ phase = "lua" /\ UNCHANGED <<open, call>>
    BY <1>5 DEF Submit
  <2>2. op.id = r.id /\ op.fd = fd
    OBVIOUS
  <2> HIDE DEF op
  <2>3. Filed' = Filed \cup {<<r.id, fd>>}
    BY <2>1, <2>2 DEF Filed, Span
  <2>4. QED
    BY <1>3, <2>1, <2>3
<1>6. QED
  BY <1>4, <1>5 DEF Submission

(* Begin reports the head of the queue.                                    *)
LEMMA BeginRefines ==
    ASSUME TypeOK, IdsDistinct, NEW mode, Begin(mode)
    PROVE  Iface!Next
<1> DEFINE S == {<<sync[i], NoOp>> : i \in 1..Fit}
<1>1. /\ Len(sync) \in Nat /\ DOMAIN sync = 1..Len(sync) /\ Fit \in 0..Len(sync)
      /\ DOMAIN out' = 1..Fit
      /\ \A i \in 1..Fit : out'[i] = sync[i]
      /\ DOMAIN sync' = 1..(Len(sync) - Fit)
      /\ \A i \in 1..(Len(sync) - Fit) : sync'[i] = sync[Fit + i]
      /\ phase = "lua"
  BY BeginFacts
<1>2. pending' = pending /\ open' = open
  BY DEF Begin
<1>3. \A i \in 1..Fit : i \in DOMAIN sync
  BY <1>1
<1>4. S \in SUBSET Filed
  BY <1>3, FiledIs
<1>5. \A op \in pending : op.fd # NoOp
  BY ConstantFacts, OpFacts DEF TypeOK
<1>6. \A i \in DOMAIN sync' : /\ Fit + i \in DOMAIN sync /\ Fit + i \notin 1..Fit
                              /\ sync'[i] = sync[Fit + i]
  BY <1>1
<1>7. ASSUME NEW j \in DOMAIN sync, j \notin 1..Fit
      PROVE  j - Fit \in DOMAIN sync' /\ sync'[j - Fit] = sync[j]
  <2>1. j - Fit \in 1..(Len(sync) - Fit) /\ Fit + (j - Fit) = j
    BY <1>1, <1>7
  <2>2. QED
    BY <1>1, <2>1
<1>8. ASSUME NEW p
      PROVE  p \in Filed' <=> p \in Filed /\ p \notin S
  <2>1. CASE \E op \in pending : p = <<op.id, op.fd>>
    <3>1. p \in Filed /\ p \in Filed'
      BY <1>2, <2>1, FiledIs, FiledIsNext
    <3>2. p \notin S
      BY <1>5, <2>1, PairParts
    <3>3. QED
      BY <3>1, <3>2
  <2>2. CASE ~\E op \in pending : p = <<op.id, op.fd>>
    <3>1. p \in Filed <=> \E i \in DOMAIN sync : p = <<sync[i], NoOp>>
      BY <2>2, FiledIs
    <3>2. p \in Filed' <=> \E i \in DOMAIN sync' : p = <<sync'[i], NoOp>>
      BY <1>2, <2>2, FiledIsNext
    <3>3. ASSUME p \in Filed'
          PROVE  p \in Filed /\ p \notin S
      <4>1. PICK i \in DOMAIN sync' : p = <<sync'[i], NoOp>>
        BY <3>2, <3>3
      <4>2. Fit + i \in DOMAIN sync /\ Fit + i \notin 1..Fit /\ p = <<sync[Fit + i], NoOp>>
        BY <1>6, <4>1
      <4>3. \A k \in 1..Fit : sync[k] # sync[Fit + i]
        BY <1>3, <4>2 DEF IdsDistinct
      <4>4. p \notin S
        BY <4>2, <4>3, PairParts
      <4>5. QED
        BY <3>1, <4>2, <4>4
    <3>4. ASSUME p \in Filed, p \notin S
          PROVE  p \in Filed'
      BY <1>7, <3>1, <3>2, <3>4
    <3>5. QED
      BY <3>3, <3>4
  <2>3. QED
    BY <2>1, <2>2
<1>9. Filed' = Filed \ S
  BY <1>4, <1>8
<1>10. Span(out)' = Iface!Ids(S)
  <2>1. Span(out)' = {sync[i] : i \in 1..Fit}
    BY <1>1 DEF Span
  <2>2. Iface!Ids(S) = {sync[i] : i \in 1..Fit}
    <3>1. \A x : x \in Iface!Ids(S) <=> \E i \in 1..Fit : x = <<sync[i], NoOp>>[1]
      BY DEF Iface!Ids
    <3>2. \A i \in 1..Fit : <<sync[i], NoOp>>[1] = sync[i]
      OBVIOUS
    <3>3. QED
      BY <3>1, <3>2
  <2>3. QED
    BY <2>1, <2>2
<1>11. Iface!Begin
  BY <1>1, <1>2, <1>4, <1>9, <1>10 DEF Iface!Begin
<1>12. QED
  BY <1>11 DEF Iface!Next

LEMMA InCallRefines ==
    ASSUME phase # "lua", NEW S \in SUBSET Filed, Filed' = Filed \ S,
           Span(out)' = Span(out) \cup Iface!Ids(S), open' = open
    PROVE  Iface!Next
BY DEF Iface!Report, Iface!Next

LEMMA QuietRefines ==
    ASSUME phase # "lua", UNCHANGED <<open, pending, sync, out>>
    PROVE  Iface!Next
<1>1. {} \in SUBSET Filed /\ Filed' = Filed \ {}
  BY DEF Filed, Span
<1>2. Span(out)' = Span(out) \cup Iface!Ids({})
  BY DEF Span, Iface!Ids
<1>3. QED
  BY <1>1, <1>2, InCallRefines

(* Report, and a refused rearm, hand out the one request that they end.    *)
LEMMA ReportRefines ==
    ASSUME TypeOK, IdsDistinct, NEW op \in pending, Report(op) \/ rearm_refused(op)
    PROVE  Iface!Next
<1> DEFINE S == {<<op.id, op.fd>>}
<1>1. /\ phase # "lua" /\ open' = open /\ sync' = sync
      /\ pending' = pending \ {op} /\ out' = Append(out, op.id)
  BY DEF Report, rearm_refused
<1>2. op.id \in Id /\ op.fd # NoOp
  BY OpFacts, ConstantFacts DEF TypeOK
<1>3. S \in SUBSET Filed
  BY FiledIs
<1>4. ASSUME NEW p
      PROVE  p \in Filed' <=> p \in Filed /\ p \notin S
  <2>1. \A o \in pending : <<o.id, o.fd>> = <<op.id, op.fd>> <=> o = op
    BY PairParts DEF IdsDistinct
  <2>2. \A i \in DOMAIN sync : <<sync[i], NoOp>> # <<op.id, op.fd>>
    BY <1>2, PairParts
  <2>3. QED
    BY <1>1, <2>1, <2>2, FiledIs, FiledIsNext
<1>5. Filed' = Filed \ S
  BY <1>3, <1>4
<1>6. Span(out)' = Span(out) \cup Iface!Ids(S)
  <2>1. Span(out)' = Span(out) \cup {op.id}
    <3>1. out \in Seq(Id)
      BY DEF TypeOK
    <3>2. Span(Append(out, op.id)) = Span(out) \cup {op.id}
      BY <1>2, <3>1, AppendFacts
    <3>3. QED
      BY <1>1, <3>2 DEF Span
  <2>2. Iface!Ids(S) = {op.id}
    BY PairParts DEF Iface!Ids
  <2>3. QED
    BY <2>1, <2>2
<1>7. QED
  BY <1>1, <1>3, <1>5, <1>6, InCallRefines

LEMMA CancelRefines ==
    ASSUME TypeOK, NEW fd \in Fd, cancel(fd)
    PROVE  Iface!Next
<1> DEFINE S == Filed \ Filed'
           ops == {op \in pending : op.fd = fd}
<1>1. phase = "lua" /\ UNCHANGED <<open, sync, call>> /\ pending' = pending \ ops
  BY DEF cancel, Forget
<1>2. Filed' \subseteq Filed
  BY <1>1, FiledIs, FiledIsNext
<1>3. \A p \in S : p[2] = fd
  BY <1>1, FiledIs, FiledIsNext, PairParts
<1>4. S \in SUBSET {p \in Filed : p[2] = fd} /\ Filed' = Filed \ S
  BY <1>2, <1>3
<1>5. Iface!Cancel(fd)
  BY <1>1, <1>4 DEF Iface!Cancel, call
<1>6. QED
  BY <1>5 DEF Iface!Next

LEMMA StopRefines ==
    ASSUME TypeOK, stop
    PROVE  Iface!Next
<1> DEFINE S == Filed \ Filed'
<1>1. phase = "lua" /\ UNCHANGED <<sync, call>> /\ ~open' /\ pending' = pending \ pending
  BY DEF stop, Forget
<1>2. Filed' \subseteq Filed
  BY <1>1, FiledIs, FiledIsNext
<1>3. S \in SUBSET Filed /\ Filed' = Filed \ S
  BY <1>2
<1>4. Iface!Stop
  BY <1>1, <1>3 DEF Iface!Stop, call
<1>5. QED
  BY <1>4 DEF Iface!Next

LEMMA InitRefines == Init => Iface!Init
<1> SUFFICES ASSUME Init
             PROVE  Iface!Init
  OBVIOUS
<1>1. DOMAIN <<>> = {}
  OBVIOUS
<1>2. Filed = {} /\ Span(out) = {}
  BY <1>1, FiledIs DEF Init, Span
<1>3. QED
  BY <1>2 DEF Init, Iface!Init

LEMMA NextRefines ==
    ASSUME TypeOK, IdsDistinct, [Next]_vars
    PROVE  [Iface!Next]_Iface!vars
<1>1. ASSUME NEW r \in Wanted, Submission(r)
      PROVE  Iface!Next
  BY <1>1, ConstantFacts, SubmissionRefines
<1>2. CASE PollOrWait
  BY <1>2, BeginRefines DEF PollOrWait
<1>3. CASE kevent \/ Return \/ \E op \in pending : kqueue_rearm(op)
  BY <1>3, QuietRefines DEF kevent, Return, kqueue_rearm
<1>4. ASSUME NEW op \in pending, Report(op) \/ rearm_refused(op)
      PROVE  Iface!Next
  BY <1>4, ReportRefines
<1>5. ASSUME NEW fd \in Fd, cancel(fd)
      PROVE  Iface!Next
  BY <1>5, CancelRefines
<1>6. CASE stop
  BY <1>6, StopRefines
<1>7. CASE UNCHANGED <<pending, sync, out, phase, open>>
  BY <1>7 DEF Filed, Span, Iface!vars
<1>8. QED
  BY <1>1, <1>2, <1>3, <1>4, <1>5, <1>6, <1>7
     DEF Next, CloseFd, OpenFd, Arrive, Depart, vars, call

(* ImplementsIface: the kqueue backend, for any sockets, requests, span    *)
(* and batch, reports what was accepted, once, and loses no request inside *)
(* poll or wait.                                                           *)
THEOREM Refinement == Spec => ImplementsIface
<1>1. Init => IdsDistinct
  <2>1. DOMAIN <<>> = {}
    OBVIOUS
  <2>2. QED
    BY <2>1 DEF Init, IdsDistinct
<1>2. TypeOK /\ IdsDistinct /\ [Next]_vars => IdsDistinct'
  BY NextDistinct
<1>3. Spec => [](TypeOK /\ IdsDistinct)
  BY <1>1, <1>2, TypeCorrect, PTL DEF Spec
<1>4. TypeOK /\ IdsDistinct /\ [Next]_vars => [Iface!Next]_Iface!vars
  BY NextRefines
<1>5. QED
  BY <1>3, <1>4, InitRefines, PTL DEF Spec, ImplementsIface, Iface!Spec
===============================================================================
