------------------------------ MODULE EventProofs -----------------------------
(***************************************************************************)
(* Proofs about waiting for events: a channel, whose event makes fd()      *)
(* readable, and bee.epoll, which delivers what the kernel says is ready.  *)
(* Of the channel, for any sets of threads and messages: mutual exclusion  *)
(* of the spinlock, the promise fd() makes to pollers, and FIFO delivery.  *)
(* Of bee.epoll, for any sockets, values, batch sizes and either kernel:   *)
(* what its registrations hold.  What luaref's operations do to a table    *)
(* comes from the lemmas of LuaRefProofs.                                  *)
(***************************************************************************)
EXTENDS Channel, EpollBinding, SequenceTheorems, TLAPS

-------------------------------------------------------------------------------
(* The channel.                                                            *)

(* The event's flag, its byte and the queue agree. *)
Byte == pipe = IF signaled THEN 1 ELSE 0
Quiet == Byte /\ (signaled <=> queue # <<>>)

(* What holds of the queue and the event while thread t is inside the lock *)
(* at label l.                                                             *)
Inside(t, l) ==
    /\ l \in {"push", "pop", "clear", "unlock"} => Quiet
    /\ l = "take" => Quiet /\ queue # <<>> /\ data[t] = Head(queue)
    /\ l = "set" => Byte /\ queue # <<>>
    /\ l = "send" => queue # <<>> /\ signaled /\ pipe = 0
    /\ l = "test" => Byte /\ queue = <<>>
    /\ l = "recv" => queue = <<>> /\ signaled /\ pipe \in {0, 1}

LockInv == /\ MutualExclusion
           /\ locked <=> \E t \in Thread : pc[t] \in Critical

(* A thread on its way to queue.push carries a message. *)
CarryInv == \A t \in Thread :
                /\ pc[t] = "push" => op[t] = "push"
                /\ op[t] = "push" /\ pc[t] \in {"lock", "spin", "push"} => data[t] \in Msg

EventInv == /\ ~locked => Quiet
            /\ \A t \in Thread : Inside(t, pc[t])

ChannelInv == ChannelTypeOK /\ LockInv /\ CarryInv /\ EventInv /\ FirstInFirstOut

LEMMA AppendFacts ==
    ASSUME NEW q \in Seq(Msg), NEW r \in Seq(Msg), NEW m \in Msg
    PROVE  /\ r \o Append(q, m) = Append(r \o q, m)
           /\ Append(q, m) \in Seq(Msg) /\ Append(q, m) # <<>>
<1>1. r \o Append(q, m) = Append(r \o q, m)
  OBVIOUS
<1>2. QED
  BY <1>1, AppendProperties

LEMMA TailFacts ==
    ASSUME NEW q \in Seq(Msg), NEW r \in Seq(Msg), q # <<>>
    PROVE  /\ Head(q) \in Msg /\ Tail(q) \in Seq(Msg)
           /\ Append(r, Head(q)) \in Seq(Msg)
           /\ Append(r, Head(q)) \o Tail(q) = r \o q
           /\ Tail(q) = <<>> <=> Len(q) = 1
<1>1. Head(q) \in Msg /\ Tail(q) \in Seq(Msg) /\ Len(Tail(q)) = Len(q) - 1
  OBVIOUS
<1>2. Append(r, Head(q)) \o Tail(q) = r \o q
  BY <1>1
<1>3. Tail(q) = <<>> => Len(q) = 1
  <2>1. Len(<<>>) = 0 /\ Len(q) \in Nat
    BY EmptySeq
  <2>2. QED
    BY <1>1, <2>1
<1>4. Tail(q) # <<>> => Len(Tail(q)) \in Nat \ {0}
  BY <1>1, EmptySeq, Zenon
<1>5. QED
  BY <1>1, <1>2, <1>3, <1>4

LEMMA InitChannelInv == ChannelInit => ChannelInv
<1> SUFFICES ASSUME ChannelInit
             PROVE  ChannelInv
  OBVIOUS
<1>1. ChannelTypeOK
  <2>1. <<>> \in Seq(Msg)
    BY EmptySeq
  <2>2. QED
    BY <2>1 DEF ChannelInit, ChannelTypeOK, Label
<1>2. LockInv /\ CarryInv
  BY DEF ChannelInit, LockInv, MutualExclusion, CarryInv, Critical
<1>3. EventInv /\ FirstInFirstOut
  <2>1. <<>> \o <<>> = <<>>
    OBVIOUS
  <2>2. Quiet /\ \A t \in Thread : pc[t] \in {"wait", "idle"}
    BY DEF ChannelInit, Quiet, Byte
  <2>3. QED
    BY <2>1, <2>2 DEF ChannelInit, EventInv, Inside, FirstInFirstOut
<1>4. QED
  BY <1>1, <1>2, <1>3 DEF ChannelInv

-------------------------------------------------------------------------------
(* A step of t that stays on its side of the lock keeps the lock's         *)
(* invariant.                                                              *)
LEMMA LockFrame ==
    ASSUME LockInv, ChannelTypeOK, NEW t \in Thread, NEW l, Goto(t, l),
           pc[t] \in Critical <=> l \in Critical, UNCHANGED locked
    PROVE  LockInv'
<1>1. \A u \in Thread : pc'[u] \in Critical <=> pc[u] \in Critical
  BY DEF Goto, ChannelTypeOK
<1>2. MutualExclusion'
  BY <1>1 DEF LockInv, MutualExclusion
<1>3. QED
  BY <1>1, <1>2 DEF LockInv

(* While t is inside, nobody else is.                                      *)
LEMMA Alone ==
    ASSUME LockInv, NEW t \in Thread, pc[t] \in Critical,
           NEW u \in Thread, u # t
    PROVE  pc[u] \notin Critical
BY DEF LockInv, MutualExclusion

(* Outside the lock a thread is bound to nothing.                          *)
LEMMA InsideOutside ==
    ASSUME NEW t, NEW l, l \notin Critical
    PROVE  Inside(t, l)'
BY DEF Inside, Critical

(* A step of the thread inside: the invariant of the event is the one of   *)
(* its new label.                                                          *)
LEMMA EventFrame ==
    ASSUME ChannelInv, NEW t \in Thread, NEW l, Goto(t, l), pc[t] \in Critical,
           l \in Critical, UNCHANGED locked, Inside(t, l)'
    PROVE  EventInv'
<1>1. locked'
  BY DEF ChannelInv, LockInv
<1>2. ASSUME NEW u \in Thread
      PROVE  Inside(u, pc[u])'
  <2>1. CASE u = t
    <3>1. pc'[t] = l
      BY DEF Goto, ChannelInv, ChannelTypeOK
    <3>2. QED
      BY <2>1, <3>1 DEF Inside, Quiet, Byte
  <2>2. CASE u # t
    <3>1. pc'[u] \notin Critical
      BY <2>2, Alone DEF Goto, ChannelInv, ChannelTypeOK
    <3>2. QED
      BY <3>1 DEF Inside, Critical
  <2>3. QED
    BY <2>1, <2>2
<1>3. QED
  BY <1>1, <1>2 DEF EventInv

(* A step outside the lock that touches neither queue nor event.           *)
LEMMA OutsideFrame ==
    ASSUME ChannelInv, NEW t \in Thread, NEW l, Goto(t, l), pc[t] \notin Critical,
           l \notin Critical, l \in Label, UNCHANGED <<locked, chan>>,
           \A u \in Thread \ {t} : data'[u] = data[u]
    PROVE  LockInv' /\ EventInv' /\ FirstInFirstOut'
<1>1. LockInv'
  BY LockFrame DEF ChannelInv
<1>2. ASSUME NEW u \in Thread
      PROVE  Inside(u, pc[u])'
  <2>1. CASE u = t
    <3>1. pc'[u] \notin Critical
      BY <2>1 DEF Goto, ChannelInv, ChannelTypeOK
    <3>2. QED
      BY <3>1 DEF Inside, Critical
  <2>2. CASE u # t
    <3>1. pc'[u] = pc[u] /\ data'[u] = data[u]
      BY <2>2 DEF Goto, ChannelInv, ChannelTypeOK
    <3>2. Inside(u, pc[u])
      BY DEF ChannelInv, EventInv
    <3>3. QED
      BY <3>1, <3>2 DEF Inside, Quiet, Byte, chan
  <2>3. QED
    BY <2>1, <2>2
<1>3. EventInv'
  BY <1>2 DEF ChannelInv, EventInv, Quiet, Byte, chan
<1>4. FirstInFirstOut'
  BY DEF ChannelInv, FirstInFirstOut, chan
<1>5. QED
  BY <1>1, <1>3, <1>4

-------------------------------------------------------------------------------
(* One lemma per kind of step. *)
LEMMA CallStep ==
    ASSUME ChannelInv, NEW t \in Thread,
           CallPush(t) \/ CallPop(t) \/ CallClear(t) \/ Wait(t) \/ Spin(t)
    PROVE  ChannelInv'
<1>1. PICK l \in {"lock", "wait"} :
        /\ Goto(t, l) /\ pc[t] \in {"idle", "wait", "spin"}
        /\ UNCHANGED <<locked, chan>>
        /\ \A u \in Thread \ {t} : data'[u] = data[u] /\ op'[u] = op[u]
  BY DEF CallPush, CallPop, CallClear, Wait, Spin, Call, ChannelInv, ChannelTypeOK
<1>2. LockInv' /\ EventInv' /\ FirstInFirstOut'
  BY <1>1, OutsideFrame DEF Critical, Label
<1>3. ChannelTypeOK'
  <2>1. pc' \in [Thread -> Label]
    BY <1>1 DEF Goto, ChannelInv, ChannelTypeOK, Label
  <2>2. op' \in [Thread -> {"push", "pop", "clear"}] /\ data' \in [Thread -> Msg \cup {NoMsg}]
    BY DEF CallPush, CallPop, CallClear, Wait, Spin, Call, ChannelInv, ChannelTypeOK
  <2>3. QED
    BY <1>1, <2>1, <2>2 DEF ChannelInv, ChannelTypeOK, chan
<1>4. CarryInv'
  <2>1. pc'[t] = l /\ \A u \in Thread \ {t} : pc'[u] = pc[u]
    BY <1>1 DEF Goto, ChannelInv, ChannelTypeOK
  <2>2. op'[t] = "push" /\ l = "lock" => data'[t] \in Msg
    <3>1. CASE CallPush(t)
      BY <3>1 DEF CallPush, Call, ChannelInv, ChannelTypeOK
    <3>2. CASE CallPop(t) \/ CallClear(t)
      BY <3>2 DEF CallPop, CallClear, Call, ChannelInv, ChannelTypeOK
    <3>3. CASE Wait(t)
      <4>1. pc'[t] = "wait"
        BY <3>3 DEF Wait, Goto, ChannelInv, ChannelTypeOK
      <4>2. QED
        BY <2>1, <4>1
    <3>4. CASE Spin(t)
      BY <3>4 DEF Spin, ChannelInv, CarryInv
    <3>5. QED
      BY <3>1, <3>2, <3>3, <3>4
  <2>3. QED
    BY <1>1, <2>1, <2>2 DEF ChannelInv, CarryInv
<1>5. QED
  BY <1>2, <1>3, <1>4 DEF ChannelInv

LEMMA TestAndSetStep ==
    ASSUME ChannelInv, NEW t \in Thread, TestAndSet(t)
    PROVE  ChannelInv'
<1> USE DEF TestAndSet
<1>t. ChannelTypeOK' /\ CarryInv'
  <2>1. op[t] \in {"push", "pop", "clear"}
    BY DEF ChannelInv, ChannelTypeOK
  <2>2. ChannelTypeOK'
    BY <2>1 DEF Goto, ChannelInv, ChannelTypeOK, Label, Critical, chan
  <2>3. CarryInv'
    BY DEF Goto, ChannelInv, ChannelTypeOK, CarryInv
  <2>4. QED
    BY <2>2, <2>3
<1>1. CASE locked
  <2>1. Goto(t, "spin") /\ UNCHANGED <<locked, chan, data>>
    BY <1>1 DEF ChannelInv, ChannelTypeOK
  <2>2. LockInv' /\ EventInv' /\ FirstInFirstOut'
    BY <2>1, OutsideFrame DEF Critical, Label
  <2>3. QED
    BY <1>t, <2>2 DEF ChannelInv
<1>2. CASE ~locked
  <2>1. /\ Goto(t, op[t]) /\ op[t] \in {"push", "pop", "clear"} /\ locked'
        /\ \A u \in Thread : pc[u] \notin Critical
    BY <1>2 DEF ChannelInv, ChannelTypeOK, LockInv
  <2>2. pc'[t] = op[t] /\ \A u \in Thread \ {t} : pc'[u] \notin Critical
    BY <2>1 DEF Goto, ChannelInv, ChannelTypeOK
  <2>3. LockInv'
    <3>1. MutualExclusion'
      BY <2>2 DEF MutualExclusion
    <3>2. pc'[t] \in Critical
      BY <2>1, <2>2 DEF Critical
    <3>3. QED
      BY <2>1, <3>1, <3>2 DEF LockInv
  <2>4. Quiet /\ UNCHANGED chan
    BY <1>2 DEF ChannelInv, EventInv
  <2>5. \A u \in Thread : Inside(u, pc[u])'
    BY <2>1, <2>2, <2>4 DEF Inside, Quiet, Byte, chan, Critical
  <2>6. EventInv' /\ FirstInFirstOut'
    BY <2>1, <2>4, <2>5 DEF EventInv, ChannelInv, FirstInFirstOut, chan
  <2>7. QED
    BY <1>t, <2>3, <2>6 DEF ChannelInv
<1>3. QED
  BY <1>1, <1>2

LEMMA UnlockStep ==
    ASSUME ChannelInv, NEW t \in Thread, Unlock(t)
    PROVE  ChannelInv'
<1> USE DEF Unlock
<1>1. ChannelTypeOK' /\ CarryInv'
  <2>1. ChannelTypeOK'
    BY DEF Goto, ChannelInv, ChannelTypeOK, Label, chan
  <2>2. CarryInv'
    BY DEF Goto, ChannelInv, ChannelTypeOK, CarryInv
  <2>3. QED
    BY <2>1, <2>2
<1>2. pc[t] \in Critical /\ ~locked' /\ UNCHANGED chan
  BY DEF Critical
<1>3. \A u \in Thread : pc'[u] \notin Critical
  <2>1. pc'[t] = "idle" /\ \A u \in Thread \ {t} : pc'[u] = pc[u]
    BY DEF Goto, ChannelInv, ChannelTypeOK
  <2>2. \A u \in Thread \ {t} : pc[u] \notin Critical
    BY <1>2, Alone DEF ChannelInv
  <2>3. QED
    BY <2>1, <2>2 DEF Critical
<1>4. LockInv'
  BY <1>2, <1>3 DEF LockInv, MutualExclusion
<1>5. Quiet'
  BY <1>2 DEF ChannelInv, EventInv, Inside, Quiet, Byte, chan
<1>6. EventInv' /\ FirstInFirstOut'
  <2>1. \A u \in Thread : Inside(u, pc[u])'
    BY <1>3, InsideOutside DEF Inside, Critical
  <2>2. QED
    BY <1>2, <1>5, <2>1 DEF EventInv, ChannelInv, FirstInFirstOut, chan
<1>7. QED
  BY <1>1, <1>4, <1>6 DEF ChannelInv

(* A step of the thread inside the lock. *)
LEMMA HolderStep ==
    ASSUME ChannelInv, NEW t \in Thread, pc[t] \in Critical,
           NEW l \in Critical, l # "push", Goto(t, l),
           UNCHANGED <<op, locked>>, data' \in [Thread -> Msg \cup {NoMsg}],
           \A u \in Thread \ {t} : data'[u] = data[u],
           queue' \in Seq(Msg), pushed' \in Seq(Msg), removed' \in Seq(Msg),
           signaled' \in BOOLEAN, pipe' \in Nat,
           Inside(t, l)', FirstInFirstOut'
    PROVE  ChannelInv'
<1>1. ChannelTypeOK'
  BY DEF ChannelInv, ChannelTypeOK, Goto, Label
<1>2. LockInv'
  BY LockFrame DEF ChannelInv
<1>3. EventInv'
  BY EventFrame
<1>4. CarryInv'
  BY DEF Goto, ChannelInv, ChannelTypeOK, CarryInv, Critical
<1>5. QED
  BY <1>1, <1>2, <1>3, <1>4 DEF ChannelInv

LEMMA BodyStep ==
    ASSUME ChannelInv, NEW t \in Thread, Body(t)
    PROVE  ChannelInv'
<1>0. ChannelTypeOK /\ Inside(t, pc[t]) /\ FirstInFirstOut
  BY DEF ChannelInv, EventInv
<1>1. CASE Push(t)
  <2>1. data[t] \in Msg
    BY <1>1 DEF Push, ChannelInv, CarryInv
  <2>2. /\ queue' \in Seq(Msg) /\ queue' # <<>> /\ pushed' \in Seq(Msg)
        /\ removed' \o queue' = pushed'
    <3>1. queue \in Seq(Msg) /\ removed \in Seq(Msg) /\ pushed = removed \o queue
      BY <1>0 DEF ChannelTypeOK, FirstInFirstOut
    <3>2. /\ removed \o Append(queue, data[t]) = Append(pushed, data[t])
          /\ Append(queue, data[t]) \in Seq(Msg) /\ Append(queue, data[t]) # <<>>
      BY <2>1, <3>1, AppendFacts
    <3>3. Append(pushed, data[t]) \in Seq(Msg)
      BY <1>0, <2>1, AppendProperties DEF ChannelTypeOK
    <3>4. QED
      BY <1>1, <3>2, <3>3 DEF Push
  <2>3. Inside(t, "set")'
    BY <1>0, <1>1, <2>2 DEF Push, Inside, Quiet, Byte
  <2>4. QED
    BY <1>0, <1>1, <2>2, <2>3, HolderStep DEF Push, ChannelTypeOK, Critical, FirstInFirstOut
<1>2. CASE Front(t)
  <2>1. CASE queue = <<>>
    <3>1. Inside(t, "test")'
      BY <1>0, <1>2, <2>1 DEF Front, Inside, Quiet, Byte, chan
    <3>2. QED
      BY <1>0, <1>2, <2>1, <3>1, HolderStep
      DEF Front, ChannelTypeOK, Critical, FirstInFirstOut, chan
  <2>2. CASE queue # <<>>
    <3>1. Head(queue) \in Msg
      BY <1>0, <2>2, TailFacts DEF ChannelTypeOK
    <3>2. Inside(t, "take")'
      BY <1>0, <1>2, <2>2 DEF Front, Inside, Quiet, Byte, chan, ChannelTypeOK
    <3>3. data' \in [Thread -> Msg \cup {NoMsg}] /\ \A u \in Thread \ {t} : data'[u] = data[u]
      BY <1>0, <1>2, <2>2, <3>1 DEF Front, ChannelTypeOK
    <3>4. QED
      BY <1>0, <1>2, <2>2, <3>2, <3>3, HolderStep
      DEF Front, ChannelTypeOK, Critical, FirstInFirstOut, chan
  <2>3. QED
    BY <2>1, <2>2
<1>3. CASE Take(t)
  <2>1. queue # <<>> /\ data[t] = Head(queue) /\ Quiet
    BY <1>0, <1>3 DEF Take, Inside
  <2>2. /\ queue' \in Seq(Msg) /\ removed' \in Seq(Msg)
        /\ removed' \o queue' = pushed' /\ (queue' = <<>> <=> Len(queue) = 1)
    BY <1>0, <1>3, <2>1, TailFacts DEF Take, ChannelTypeOK, FirstInFirstOut
  <2>3. CASE Len(queue) = 1
    <3>1. Inside(t, "test")'
      BY <1>3, <2>1, <2>2, <2>3 DEF Take, Inside, Quiet, Byte
    <3>2. QED
      BY <1>0, <1>3, <2>2, <2>3, <3>1, HolderStep DEF Take, ChannelTypeOK, Critical, FirstInFirstOut
  <2>4. CASE Len(queue) # 1
    <3>1. Inside(t, "unlock")'
      BY <1>3, <2>1, <2>2, <2>4 DEF Take, Inside, Quiet, Byte
    <3>2. QED
      BY <1>0, <1>3, <2>2, <2>4, <3>1, HolderStep DEF Take, ChannelTypeOK, Critical, FirstInFirstOut
  <2>5. QED
    BY <2>3, <2>4
<1>4. CASE Clear(t)
  <2>1. <<>> \in Seq(Msg) /\ removed \o queue \in Seq(Msg)
    BY <1>0, EmptySeq, ConcatProperties DEF ChannelTypeOK
  <2>2. removed' \o queue' = pushed'
    BY <1>0, <1>4, <2>1, ConcatEmptySeq DEF Clear, FirstInFirstOut
  <2>3. Inside(t, "test")'
    BY <1>0, <1>4 DEF Clear, Inside, Quiet, Byte
  <2>4. QED
    BY <1>0, <1>4, <2>1, <2>2, <2>3, HolderStep DEF Clear, ChannelTypeOK, Critical, FirstInFirstOut
<1>5. QED
  BY <1>1, <1>2, <1>3, <1>4 DEF Body

(* The same for the event's steps, which leave the queue alone.            *)
LEMMA EventHolderStep ==
    ASSUME ChannelInv, NEW t \in Thread, pc[t] \in Critical,
           NEW l \in Critical, l # "push", Goto(t, l),
           UNCHANGED <<op, data, locked, queue, pushed, removed>>,
           signaled' \in BOOLEAN, pipe' \in Nat, Inside(t, l)'
    PROVE  ChannelInv'
<1>1. /\ data' \in [Thread -> Msg \cup {NoMsg}] /\ \A u \in Thread \ {t} : data'[u] = data[u]
      /\ queue' \in Seq(Msg) /\ pushed' \in Seq(Msg) /\ removed' \in Seq(Msg)
  BY DEF ChannelInv, ChannelTypeOK
<1>2. FirstInFirstOut'
  BY DEF ChannelInv, FirstInFirstOut
<1>3. QED
  BY <1>1, <1>2, HolderStep

LEMMA EventStep ==
    ASSUME ChannelInv, NEW t \in Thread, Event(t)
    PROVE  ChannelInv'
<1>0. ChannelTypeOK /\ Inside(t, pc[t]) /\ FirstInFirstOut
  BY DEF ChannelInv, EventInv
<1>1. CASE SetFlag(t)
  <2>1. CASE signaled
    <3>1. Inside(t, "unlock")'
      BY <1>0, <1>1, <2>1 DEF SetFlag, Inside, Quiet, Byte
    <3>2. QED
      BY <1>0, <1>1, <2>1, <3>1, EventHolderStep DEF SetFlag, ChannelTypeOK, Critical
  <2>2. CASE ~signaled
    <3>1. Inside(t, "send")'
      BY <1>0, <1>1, <2>2 DEF SetFlag, Inside, Quiet, Byte
    <3>2. QED
      BY <1>0, <1>1, <2>2, <3>1, EventHolderStep DEF SetFlag, ChannelTypeOK, Critical
  <2>3. QED
    BY <2>1, <2>2
<1>2. CASE Send(t)
  <2>1. Inside(t, "unlock")'
    BY <1>0, <1>2 DEF Send, Inside, Quiet, Byte
  <2>2. pipe' \in Nat /\ signaled' \in BOOLEAN
    BY <1>0, <1>2 DEF Send, ChannelTypeOK
  <2>3. pc[t] \in Critical /\ "unlock" \in Critical /\ Goto(t, "unlock")
    BY <1>2 DEF Send, Critical
  <2>4. UNCHANGED <<op, data, locked, queue, pushed, removed>>
    BY <1>2 DEF Send
  <2>5. QED
    BY <2>1, <2>2, <2>3, <2>4, EventHolderStep
<1>3. CASE TestFlag(t)
  <2>1. CASE signaled
    <3>1. Inside(t, "recv")'
      BY <1>0, <1>3, <2>1 DEF TestFlag, Inside, Quiet, Byte, chan
    <3>2. QED
      BY <1>0, <1>3, <2>1, <3>1, EventHolderStep DEF TestFlag, ChannelTypeOK, Critical, chan
  <2>2. CASE ~signaled
    <3>1. Inside(t, "unlock")'
      BY <1>0, <1>3, <2>2 DEF TestFlag, Inside, Quiet, Byte, chan
    <3>2. QED
      BY <1>0, <1>3, <2>2, <3>1, EventHolderStep DEF TestFlag, ChannelTypeOK, Critical, chan
  <2>3. QED
    BY <2>1, <2>2
<1>4. CASE Recv(t)
  <2>1. CASE pipe > 0
    <3>1. Inside(t, "recv")'
      BY <1>0, <1>4, <2>1 DEF Recv, Inside
    <3>2. Goto(t, "recv")
      BY <1>0, <1>4, <2>1 DEF Recv, Goto, ChannelTypeOK
    <3>3. QED
      BY <1>0, <1>4, <2>1, <3>1, <3>2, EventHolderStep DEF Recv, ChannelTypeOK, Critical
  <2>2. CASE ~(pipe > 0)
    <3>1. Inside(t, "unlock")'
      BY <1>0, <1>4, <2>2 DEF Recv, Inside, Quiet, Byte
    <3>2. QED
      BY <1>0, <1>4, <2>2, <3>1, EventHolderStep DEF Recv, ChannelTypeOK, Critical
  <2>3. QED
    BY <2>1, <2>2
<1>5. QED
  BY <1>1, <1>2, <1>3, <1>4 DEF Event

LEMMA NextChannelInv == ChannelInv /\ [ChannelNext]_cvars => ChannelInv'
<1>1. ASSUME ChannelInv, NEW t \in Thread,
             CallPush(t) \/ CallPop(t) \/ CallClear(t) \/ Wait(t) \/ Run(t)
      PROVE  ChannelInv'
  BY <1>1, CallStep, TestAndSetStep, BodyStep, EventStep, UnlockStep DEF Run, Lock
<1>2. ASSUME ChannelInv, UNCHANGED cvars
      PROVE  ChannelInv'
  <2>1. ChannelTypeOK' /\ LockInv' /\ CarryInv' /\ FirstInFirstOut'
    BY <1>2
    DEF ChannelInv, cvars, chan, ChannelTypeOK, LockInv, MutualExclusion, CarryInv, FirstInFirstOut
  <2>2. EventInv'
    BY <1>2 DEF ChannelInv, cvars, chan, EventInv, Inside, Quiet, Byte
  <2>3. QED
    BY <2>1, <2>2 DEF ChannelInv
<1>3. QED
  BY <1>1, <1>2 DEF ChannelNext

LEMMA ChannelInvariant == ChannelSpec => []ChannelInv
BY InitChannelInv, NextChannelInv, PTL DEF ChannelSpec

(* The channel's state keeps its types, whatever the threads do.           *)
THEOREM ChannelTypeCorrect == ChannelSpec => []ChannelTypeOK
<1>1. ChannelInv => ChannelTypeOK
  BY DEF ChannelInv
<1>2. QED
  BY <1>1, ChannelInvariant, PTL

(* Two threads are never inside push, pop or clear of one channel at once. *)
THEOREM LockExcludes == ChannelSpec => []MutualExclusion
<1>1. ChannelInv => MutualExclusion
  BY DEF ChannelInv, LockInv
<1>2. QED
  BY <1>1, ChannelInvariant, PTL

(* Whenever no call is in progress, fd() is readable exactly when a pop    *)
(* would return a message, and the pipe never holds a second byte.         *)
THEOREM PollersSeeTheTruth == ChannelSpec => []ReadableIffNonempty
<1>1. ChannelInv => (~locked => (pipe > 0 <=> queue # <<>>))
  BY DEF ChannelInv, EventInv, Quiet, Byte
<1>2. ChannelInv => pipe <= 1
  <2> SUFFICES ASSUME ChannelInv
               PROVE  pipe <= 1
    OBVIOUS
  <2>1. CASE ~locked
    BY <2>1 DEF ChannelInv, EventInv, Quiet, Byte
  <2>2. CASE locked
    <3>1. PICK t \in Thread : pc[t] \in Critical
      BY <2>2 DEF ChannelInv, LockInv
    <3>2. Inside(t, pc[t])
      BY DEF ChannelInv, EventInv
    <3>3. QED
      BY <3>1, <3>2 DEF Inside, Quiet, Byte, Critical
  <2>3. QED
    BY <2>1, <2>2
<1>3. ChannelInv => ReadableIffNonempty
  BY <1>1, <1>2 DEF ReadableIffNonempty
<1>4. QED
  BY <1>3, ChannelInvariant, PTL

(* Messages leave the queue exactly once and in the order they entered.    *)
THEOREM DeliveryOrder == ChannelSpec => []FirstInFirstOut
<1>1. ChannelInv => FirstInFirstOut
  BY DEF ChannelInv
<1>2. QED
  BY <1>1, ChannelInvariant, PTL

-------------------------------------------------------------------------------
(* bee.epoll.                                                              *)

L == INSTANCE LuaRefProofs WITH
         Value <- Values, tbl <- refs, given <- -2, peak <- 0

(* The instance of the proofs defines the operations as EpollBinding does.*)
LEMMA Same ==
    ASSUME NEW t, NEW r, NEW v
    PROVE  /\ R!RefSlots(t) = L!RefSlots(t) /\ R!Live(t) = L!Live(t)
           /\ R!AfterRef(t, r, v) = L!AfterRef(t, r, v)
           /\ R!AfterUnref(t, r) = L!AfterUnref(t, r)
           /\ R!AfterSet(t, r, v) = L!AfterSet(t, r, v)
           /\ R!EmptyTable = L!EmptyTable
<1>1. R!ShrunkTop(t) = L!ShrunkTop(t)
  BY DEF R!ShrunkTop, L!ShrunkTop, R!FREELIST, L!FREELIST
<1>2. QED
  BY <1>1 DEF R!RefSlots, L!RefSlots, R!Live, L!Live, R!AfterRef, L!AfterRef,
     R!AfterUnref, L!AfterUnref, R!AfterSet, L!AfterSet, R!EmptyTable, L!EmptyTable,
     R!FREELIST, L!FREELIST, R!AfterFree, L!AfterFree, R!AfterShrink, L!AfterShrink

(* LuaRef's assumption about its values.                                   *)
LEMMA NilIsOne == NIL \in Values
BY DEF Values

(* What a reference, a release and an overwrite do to a table.             *)
LEMMA AfterRefOK ==
    ASSUME NEW t, L!TableOK(t), NEW v \in Values, NEW r \in R!RefSlots(t)
    PROVE  /\ L!TableOK(R!AfterRef(t, r, v))
           /\ r \notin R!Live(t)
           /\ R!Live(R!AfterRef(t, r, v)) = R!Live(t) \cup {r}
           /\ R!AfterRef(t, r, v).slot[r] = v
           /\ \A x \in R!Live(t) : R!AfterRef(t, r, v).slot[x] = t.slot[x]
<1>1. r \in L!RefSlots(t)
  BY Same
<1>2. /\ L!TableOK(L!AfterRef(t, r, v))
      /\ r \notin L!Live(t)
      /\ L!Live(L!AfterRef(t, r, v)) = L!Live(t) \cup {r}
      /\ L!AfterRef(t, r, v).slot[r] = v
      /\ \A x \in L!Live(t) : L!AfterRef(t, r, v).slot[x] = t.slot[x]
  BY <1>1, L!AfterRefOK, NilIsOne, MaxStackIsNat
<1>3. QED
  BY <1>2, Same

(* A release ends one reference, if it was one.                            *)
LEMMA AfterUnrefOK ==
    ASSUME NEW t, L!TableOK(t), NEW r \in Int
    PROVE  /\ L!TableOK(R!AfterUnref(t, r))
           /\ R!Live(R!AfterUnref(t, r)) = R!Live(t) \ {r}
           /\ \A x \in R!Live(t) \ {r} : R!AfterUnref(t, r).slot[x] = t.slot[x]
<1>1. /\ L!TableOK(L!AfterUnref(t, r))
      /\ L!Live(L!AfterUnref(t, r)) = L!Live(t) \ {r}
      /\ \A x \in L!Live(t) \ {r} : L!AfterUnref(t, r).slot[x] = t.slot[x]
  BY L!AfterUnrefOK, NilIsOne, MaxStackIsNat
<1>2. QED
  BY <1>1, Same

(* An overwrite is seen under its own reference only.                      *)
LEMMA AfterSetOK ==
    ASSUME NEW t, L!TableOK(t), NEW v \in Values, NEW r \in R!Live(t)
    PROVE  /\ L!TableOK(R!AfterSet(t, r, v))
           /\ R!Live(R!AfterSet(t, r, v)) = R!Live(t)
           /\ \A x \in R!Live(t) : R!AfterSet(t, r, v).slot[x] = IF x = r THEN v ELSE t.slot[x]
<1>1. r \in L!Live(t)
  BY Same
<1>2. /\ L!TableOK(L!AfterSet(t, r, v))
      /\ L!Live(L!AfterSet(t, r, v)) = L!Live(t)
      /\ \A x \in L!Live(t) : L!AfterSet(t, r, v).slot[x] = IF x = r THEN v ELSE t.slot[x]
  BY <1>1, L!AfterSetOK, NilIsOne, MaxStackIsNat
<1>3. QED
  BY <1>2, Same

-------------------------------------------------------------------------------
Fetched == [ref : Nat, key : Key \cup {Gone}]

HalfOK == half \in [DOMAIN half -> Nat] /\ DOMAIN half \subseteq Fd

TypeInv ==
    /\ L!TableOK(refs)
    /\ open \in BOOLEAN /\ strayed \in BOOLEAN /\ platform \in Platforms
    /\ refOf \in [DOMAIN refOf -> Nat] /\ DOMAIN refOf \subseteq Key
    /\ said \in [DOMAIN refOf -> Values]
    /\ rest \in Seq(Fetched) /\ Len(rest) <= Room
    /\ fdOf \in [Sock -> Fd \cup {NoFd}]
    /\ kernel \in [DOMAIN kernel -> Registration] /\ DOMAIN kernel \subseteq Fd
    /\ state \subseteq Fd /\ HalfOK

(* Every key has a reference of its own, which holds what was said of it.  *)
KeysInv ==
    /\ \A k \in DOMAIN refOf : refOf[k] \in Live /\ refs.slot[refOf[k]] = said[k]
    /\ \A k, l \in DOMAIN refOf : refOf[k] = refOf[l] => k = l

(* What the kernel holds for a socket is the reference of the key that put *)
(* it there, and that key still names the socket.                          *)
KernelInv ==
    \A fd \in DOMAIN kernel :
        /\ kernel[fd].key \in DOMAIN refOf
        /\ ToFd(kernel[fd].key) = fd
        /\ kernel[fd].ref = refOf[kernel[fd].key]

(* So does an event that was fetched, unless its registration has ended.   *)
BatchInv ==
    \A j \in DOMAIN rest : rest[j].key # Gone =>
        rest[j].key \in DOMAIN refOf /\ rest[j].ref = refOf[rest[j].key]

EpollInv == TypeInv /\ KeysInv /\ KernelInv /\ BatchInv /\ NothingLeaks /\ StateAgrees

(* Changing a function at one point, and leaving one out.                  *)
LEMMA WithOK ==
    ASSUME NEW f, NEW x, NEW y
    PROVE  /\ DOMAIN With(f, x, y) = DOMAIN f \cup {x}
           /\ With(f, x, y)[x] = y
           /\ \A z \in DOMAIN f \ {x} : With(f, x, y)[z] = f[z]
           /\ With(f, x, y) \in [DOMAIN f \cup {x} -> {With(f, x, y)[z] : z \in DOMAIN f \cup {x}}]
BY DEF With

LEMMA WithoutOK ==
    ASSUME NEW f, NEW x
    PROVE  /\ DOMAIN Without(f, x) = DOMAIN f \ {x}
           /\ \A z \in DOMAIN f \ {x} : Without(f, x)[z] = f[z]
           /\ Without(f, x) = [z \in DOMAIN f \ {x} |-> f[z]]
BY DEF Without, Restrict

LEMMA HalfStepOK ==
    ASSUME HalfOK, NEW fd
    PROVE  /\ half' = half \/ half' = Without(half, fd) => HalfOK'
           /\ \A r \in Nat : fd \in Fd /\ half' = With(half, fd, r) => HalfOK'
<1>1. half' = half => HalfOK'
  BY DEF HalfOK
<1>2. ASSUME half' = Without(half, fd)
      PROVE  HalfOK'
  <2>1. half' = [z \in DOMAIN half \ {fd} |-> half[z]]
    BY <1>2, WithoutOK
  <2>2. QED
    BY <2>1 DEF HalfOK
<1>3. ASSUME NEW r \in Nat, fd \in Fd, half' = With(half, fd, r)
      PROVE  HalfOK'
  <2>1. half' = [z \in DOMAIN half \cup {fd} |-> IF z = fd THEN r ELSE half[z]]
    BY <1>3 DEF With
  <2>2. QED
    BY <1>3, <2>1 DEF HalfOK
<1>4. QED
  BY <1>1, <1>2, <1>3

LEMMA EndedOK ==
    ASSUME rest \in Seq(Fetched), NEW k
    PROVE  /\ Ended(k) \in Seq(Fetched) /\ Len(Ended(k)) = Len(rest)
           /\ DOMAIN Ended(k) = DOMAIN rest
           /\ \A j \in DOMAIN rest : Ended(k)[j].key # Gone =>
                Ended(k)[j] = rest[j] /\ rest[j].key # k
<1>1. DOMAIN Ended(k) = DOMAIN rest /\ DOMAIN rest = 1..Len(rest) /\ Len(rest) \in Nat
  BY DEF Ended
<1>2. ASSUME NEW j \in DOMAIN rest
      PROVE  /\ Ended(k)[j] \in Fetched
             /\ Ended(k)[j].key # Gone => Ended(k)[j] = rest[j] /\ rest[j].key # k
  <2>1. rest[j] \in Fetched
    OBVIOUS
  <2>2. Ended(k)[j] = IF rest[j].key = k THEN [rest[j] EXCEPT !.key = Gone] ELSE rest[j]
    BY DEF Ended
  <2>3. QED
    BY <2>1, <2>2 DEF Fetched
<1>3. Ended(k) \in [1..Len(rest) -> Fetched]
  BY <1>1, <1>2 DEF Ended
<1>4. QED
  BY <1>1, <1>2, <1>3

LEMMA InitEpollInv == Init => EpollInv
<1> SUFFICES ASSUME Init
             PROVE  EpollInv
  OBVIOUS
<1>1. L!TableOK(refs) /\ Live = {}
  BY DEF Init, Live, L!TableOK, R!EmptyTable, R!Live, R!FREELIST
<1>2. /\ DOMAIN refOf = {} /\ DOMAIN kernel = {} /\ DOMAIN rest = {} /\ state = {}
      /\ half = <<>> /\ DOMAIN half = {}
  BY DEF Init
<1>3. TypeInv
  <2>1. \A S : <<>> \in [{} -> S]
    OBVIOUS
  <2>2. <<>> \in Seq(Fetched) /\ Len(<<>>) <= Room
    BY RoomIsPositive
  <2>3. QED
    BY <1>1, <1>2, <2>1, <2>2 DEF Init, TypeInv, HalfOK
<1>4. KeysInv /\ KernelInv /\ BatchInv /\ StateAgrees
  BY <1>2 DEF KeysInv, KernelInv, BatchInv, StateAgrees
<1>5. NothingLeaks
  BY <1>1, <1>2 DEF NothingLeaks
<1>6. QED
  BY <1>3, <1>4, <1>5 DEF EpollInv

(* What the table does for an operation is known from its lemmas; the rest *)
(* of the state is compared key by key.                                    *)
LEMMA KeyOfKernel ==
    ASSUME EpollInv, NEW fd \in DOMAIN kernel
    PROVE  /\ kernel[fd].key \in DOMAIN refOf /\ ToFd(kernel[fd].key) = fd
           /\ kernel[fd].ref = refOf[kernel[fd].key]
           /\ kernel[fd] \in Registration
BY DEF EpollInv, KernelInv, TypeInv

(* Without a stray, a key of an open object is the key of a registration.  *)
LEMMA KeyIsRegistered ==
    ASSUME EpollInv, open, ~strayed, NEW k \in DOMAIN refOf
    PROVE  ToFd(k) \in DOMAIN kernel /\ kernel[ToFd(k)].key = k
<1>1. refOf[k] \in {kernel[fd].ref : fd \in DOMAIN kernel}
  BY DEF EpollInv, NothingLeaks, KeysInv
<1>2. PICK fd \in DOMAIN kernel : kernel[fd].ref = refOf[k]
  BY <1>1
<1>3. kernel[fd].key = k
  BY <1>2, KeyOfKernel DEF EpollInv, KeysInv
<1>4. QED
  BY <1>3, KeyOfKernel

LEMMA AddIInv ==
    ASSUME EpollInv, NEW k \in Key, NEW v \in Value \cup {k}, event_add(k, v)
    PROVE  EpollInv'
<1> DEFINE fd == ToFd(k)
<1>1. PICK r \in R!RefSlots(refs) :
        /\ CtlAdd(fd, r, k)
        /\ refs' = R!AfterRef(refs, r, v)
        /\ refOf' = With(refOf, k, r)
  BY DEF event_add
<1>2. /\ said' = With(said, k, v) /\ rest' = Ended(k)
      /\ open' = open /\ fdOf' = fdOf /\ platform' = platform /\ strayed' = strayed /\ open
  BY DEF event_add
<1>3. /\ fd \in Fd /\ fd \notin DOMAIN kernel
      /\ kernel' = With(kernel, fd, [ref |-> r, key |-> k])
      /\ half' = Without(half, fd)
      /\ state' = IF platform = "osx" THEN state \cup {fd} ELSE state
  BY <1>1 DEF CtlAdd, IsOpen
<1>4. L!TableOK(refs) /\ v \in Values
  BY DEF EpollInv, TypeInv, Values
<1>5. /\ L!TableOK(refs') /\ r \notin Live /\ Live' = Live \cup {r}
      /\ refs'.slot[r] = v /\ \A x \in Live : refs'.slot[x] = refs.slot[x]
  BY <1>1, <1>4, AfterRefOK DEF Live
<1>6. r \in Nat
  BY <1>4 DEF L!TableOK, R!RefSlots
<1>7. /\ DOMAIN refOf' = DOMAIN refOf \cup {k} /\ refOf'[k] = r
      /\ \A z \in DOMAIN refOf \ {k} : refOf'[z] = refOf[z]
  BY <1>1 DEF With
<1>8. /\ DOMAIN said = DOMAIN refOf /\ DOMAIN said' = DOMAIN refOf \cup {k} /\ said'[k] = v
      /\ \A z \in DOMAIN refOf \ {k} : said'[z] = said[z]
  BY <1>2 DEF With, EpollInv, TypeInv
<1>9. /\ DOMAIN kernel' = DOMAIN kernel \cup {fd} /\ kernel'[fd] = [ref |-> r, key |-> k]
      /\ \A z \in DOMAIN kernel : kernel'[z] = kernel[z]
  BY <1>3 DEF With
<1>10. TypeInv'
  <2>1. refOf' \in [DOMAIN refOf' -> Nat] /\ DOMAIN refOf' \subseteq Key
    BY <1>1, <1>6, <1>7 DEF With, EpollInv, TypeInv
  <2>2. said' \in [DOMAIN refOf' -> Values]
    BY <1>2, <1>4, <1>7, <1>8 DEF With, EpollInv, TypeInv
  <2>3. kernel' \in [DOMAIN kernel' -> Registration] /\ DOMAIN kernel' \subseteq Fd
    <3>1. \A z \in DOMAIN kernel' : kernel'[z] \in Registration
      BY <1>6, <1>9 DEF EpollInv, TypeInv, Registration
    <3>2. kernel' = [z \in DOMAIN kernel' |-> kernel'[z]]
      BY <1>3 DEF With
    <3>3. QED
      BY <1>3, <1>9, <3>1, <3>2 DEF EpollInv, TypeInv
  <2>4. rest' \in Seq(Fetched) /\ Len(rest') <= Room
    BY <1>2, EndedOK DEF EpollInv, TypeInv
  <2>5. state' \subseteq Fd /\ HalfOK'
    BY <1>3, HalfStepOK DEF EpollInv, TypeInv
  <2>6. QED
    BY <1>2, <1>5, <2>1, <2>2, <2>3, <2>4, <2>5 DEF EpollInv, TypeInv
<1>11. KeysInv'
  BY <1>5, <1>7, <1>8 DEF EpollInv, KeysInv
<1>12. KernelInv'
  <2>1. ASSUME NEW z \in DOMAIN kernel
        PROVE  kernel[z].key # k
    BY <1>3, KeyOfKernel
  <2>2. \A z : ToFd(z)' = ToFd(z)
    BY <1>2 DEF ToFd
  <2>3. QED
    BY <1>7, <1>9, <2>1, <2>2, KeyOfKernel DEF KernelInv
<1>13. BatchInv'
  <2> SUFFICES ASSUME NEW j \in DOMAIN rest', rest'[j].key # Gone
               PROVE  rest'[j].key \in DOMAIN refOf' /\ rest'[j].ref = refOf'[rest'[j].key]
    BY DEF BatchInv
  <2>1. j \in DOMAIN rest /\ rest'[j] = rest[j] /\ rest[j].key # k
    BY <1>2, EndedOK DEF EpollInv, TypeInv
  <2>2. QED
    BY <1>7, <2>1 DEF EpollInv, BatchInv
<1>14. NothingLeaks'
  <2> SUFFICES ASSUME ~strayed
               PROVE  /\ Live' = {refOf'[l] : l \in DOMAIN refOf'}
                      /\ Live' = {kernel'[z].ref : z \in DOMAIN kernel'}
    BY <1>2 DEF NothingLeaks
  <2>1. Live = {refOf[l] : l \in DOMAIN refOf} /\ Live = {kernel[z].ref : z \in DOMAIN kernel}
    BY <1>2 DEF EpollInv, NothingLeaks
  <2>2. k \notin DOMAIN refOf
    BY <1>2, <1>3, KeyIsRegistered
  <2>3. Live' = {refOf'[l] : l \in DOMAIN refOf'}
    BY <1>5, <1>7, <2>1, <2>2
  <2>4. Live' = {kernel'[z].ref : z \in DOMAIN kernel'}
    BY <1>3, <1>5, <1>9, <2>1
  <2>5. QED
    BY <2>3, <2>4
<1>15. StateAgrees'
  BY <1>2, <1>3, <1>9 DEF EpollInv, StateAgrees
<1>16. QED
  BY <1>10, <1>11, <1>12, <1>13, <1>14, <1>15 DEF EpollInv

(* A call that reaches the table and half registrations only: the          *)
(* reference is given back, or is what the script left behind.             *)
LEMMA TableOnly ==
    ASSUME EpollInv, L!TableOK(refs'),
           \A r \in Live : r \in Live' /\ refs'.slot[r] = refs.slot[r],
           strayed' \in BOOLEAN, ~strayed' => ~strayed /\ Live' = Live, HalfOK',
           UNCHANGED <<open, refOf, rest, fdOf, kernel, state, platform, said>>
    PROVE  EpollInv'
<1>1. TypeInv'
  BY DEF EpollInv, TypeInv
<1>2. KeysInv'
  BY DEF EpollInv, KeysInv
<1>3. KernelInv' /\ BatchInv'
  BY DEF EpollInv, KernelInv, BatchInv, ToFd
<1>4. NothingLeaks' /\ StateAgrees'
  BY DEF EpollInv, NothingLeaks, StateAgrees
<1>5. QED
  BY <1>1, <1>2, <1>3, <1>4 DEF EpollInv

LEMMA AddFailsIInv ==
    ASSUME EpollInv, NEW k \in Key, NEW v \in Value \cup {k},
           event_add_refused(k, v) \/ event_add_throws(k, v)
    PROVE  EpollInv'
<1>1. L!TableOK(refs) /\ v \in Values /\ strayed \in BOOLEAN /\ HalfOK
  BY DEF EpollInv, TypeInv, Values
<1>2. ASSUME event_add_refused(k, v)
      PROVE  EpollInv'
  <2>1. PICK r \in R!RefSlots(refs) : /\ refs' = R!AfterUnref(R!AfterRef(refs, r, v), r)
                                      /\ CtlAddHalf(ToFd(k), r) \/ UNCHANGED bpoll
    BY <1>2 DEF event_add_refused
  <2> DEFINE t == R!AfterRef(refs, r, v)
  <2>2. /\ L!TableOK(t) /\ r \notin Live /\ R!Live(t) = Live \cup {r}
        /\ \A x \in Live : t.slot[x] = refs.slot[x]
    BY <1>1, AfterRefOK DEF Live
  <2>3. r \in Nat
    BY <1>1 DEF L!TableOK, R!RefSlots
  <2>4. /\ L!TableOK(refs') /\ Live' = R!Live(t) \ {r}
        /\ \A x \in R!Live(t) \ {r} : refs'.slot[x] = t.slot[x]
    <3> HIDE DEF t
    <3>1. refs' = R!AfterUnref(t, r)
      BY <2>1 DEF t
    <3>2. /\ L!TableOK(R!AfterUnref(t, r)) /\ R!Live(R!AfterUnref(t, r)) = R!Live(t) \ {r}
          /\ \A x \in R!Live(t) \ {r} : R!AfterUnref(t, r).slot[x] = t.slot[x]
      BY <2>2, <2>3, AfterUnrefOK
    <3>3. QED
      BY <3>1, <3>2 DEF Live
  <2>5. Live' = Live /\ \A x \in Live : refs'.slot[x] = refs.slot[x]
    BY <2>2, <2>4
  <2>6. UNCHANGED <<open, refOf, rest, fdOf, kernel, state, platform, said, strayed>>
    BY <1>2, <2>1 DEF event_add_refused, CtlAddHalf, bpoll
  <2>7. HalfOK'
    BY <1>1, <2>1, <2>3, HalfStepOK DEF CtlAddHalf, IsOpen, bpoll
  <2>8. QED
    BY <1>1, <2>4, <2>5, <2>6, <2>7, TableOnly
<1>3. ASSUME event_add_throws(k, v)
      PROVE  EpollInv'
  <2>1. PICK r \in R!RefSlots(refs) : refs' = R!AfterRef(refs, r, v)
    BY <1>3 DEF event_add_throws
  <2>2. /\ L!TableOK(refs') /\ Live' = Live \cup {r}
        /\ \A x \in Live : refs'.slot[x] = refs.slot[x]
    BY <1>1, <2>1, AfterRefOK DEF Live
  <2>3. /\ strayed' = TRUE /\ HalfOK'
        /\ UNCHANGED <<open, refOf, rest, fdOf, kernel, state, platform, said>>
    BY <1>1, <1>3, HalfStepOK DEF event_add_throws, bpoll
  <2>4. QED
    BY <2>2, <2>3, TableOnly
<1>4. QED
  BY <1>2, <1>3

(* A half registration modified or deleted is nothing that anybody counts. *)
LEMMA HalfIInv ==
    ASSUME EpollInv, NEW k \in Key, event_mod_refused(k) \/ event_del_refused(k)
    PROVE  EpollInv'
<1>1. UNCHANGED <<open, refs, refOf, rest, fdOf, kernel, state, platform, said, strayed>>
  BY DEF event_mod_refused, event_del_refused, CtlModHalf, CtlDelHalf
<1>2. L!TableOK(refs') /\ Live' = Live /\ strayed' \in BOOLEAN /\ HalfOK
  BY <1>1 DEF EpollInv, TypeInv, Live
<1>3. HalfOK'
  <2>1. CASE event_mod_refused(k)
    <3>1. refOf[k] \in Nat /\ ToFd(k) \in Fd /\ half' = With(half, ToFd(k), refOf[k])
      BY <1>2, <2>1 DEF event_mod_refused, CtlModHalf, EpollInv, TypeInv, HalfOK
    <3>2. QED
      BY <1>2, <3>1, HalfStepOK
  <2>2. CASE event_del_refused(k)
    BY <1>2, <2>2, HalfStepOK DEF event_del_refused, CtlDelHalf
  <2>3. QED
    BY <2>1, <2>2
<1>4. QED
  BY <1>1, <1>2, <1>3, TableOnly

LEMMA ModIInv ==
    ASSUME EpollInv, NEW k \in Key,
           NEW vs \in {<<>>} \cup {<<v>> : v \in Value \cup {NIL}}, event_mod(k, vs)
    PROVE  EpollInv'
<1> DEFINE fd == ToFd(k)
<1>1. /\ k \in DOMAIN refOf /\ fd \in DOMAIN kernel
      /\ kernel' = With(kernel, fd, [ref |-> refOf[k], key |-> k])
      /\ refs' = NewValue(k, vs)
      /\ said' = IF vs = <<>> THEN said ELSE With(said, k, vs[1])
      /\ strayed' = (strayed \/ ~SameKey(k))
      /\ UNCHANGED <<open, refOf, rest, fdOf, platform, state>> /\ HalfOK'
  BY HalfStepOK DEF event_mod, CtlMod, EpollInv, TypeInv
<1>2. /\ DOMAIN kernel' = DOMAIN kernel /\ kernel'[fd] = [ref |-> refOf[k], key |-> k]
      /\ \A z \in DOMAIN kernel \ {fd} : kernel'[z] = kernel[z]
  BY <1>1 DEF With
<1>3. L!TableOK(refs) /\ refOf[k] \in Live /\ refOf[k] \in Nat /\ said \in [DOMAIN refOf -> Values]
  BY <1>1 DEF EpollInv, TypeInv, KeysInv
<1>4. /\ L!TableOK(refs') /\ Live' = Live
      /\ said' \in [DOMAIN refOf -> Values]
      /\ \A l \in DOMAIN refOf : refs'.slot[refOf[l]] = said'[l]
  <2>1. CASE vs = <<>>
    BY <1>1, <1>3, <2>1 DEF NewValue, EpollInv, KeysInv, Live
  <2>2. CASE vs # <<>>
    <3>1. PICK v \in Value \cup {NIL} : vs = <<v>>
      BY <2>2
    <3>2. vs[1] = v /\ v \in Values
      BY <3>1 DEF Values
    <3>3. refs' = R!AfterSet(refs, refOf[k], v) /\ said' = With(said, k, v)
      BY <1>1, <2>2, <3>2 DEF NewValue
    <3>4. /\ L!TableOK(refs') /\ Live' = Live
          /\ \A x \in Live : refs'.slot[x] = IF x = refOf[k] THEN v ELSE refs.slot[x]
      BY <1>3, <3>2, <3>3, AfterSetOK DEF Live
    <3>5. /\ said' \in [DOMAIN refOf -> Values]
          /\ \A l \in DOMAIN refOf : said'[l] = IF l = k THEN v ELSE said[l]
      BY <1>1, <1>3, <3>2, <3>3 DEF With
    <3>6. QED
      BY <1>1, <3>4, <3>5 DEF EpollInv, KeysInv
  <2>3. QED
    BY <2>1, <2>2
<1>5. TypeInv'
  <2>1. kernel' \in [DOMAIN kernel' -> Registration]
    <3>1. \A z \in DOMAIN kernel' : kernel'[z] \in Registration
      <4>1. [ref |-> refOf[k], key |-> k] \in Registration
        BY <1>3 DEF Registration
      <4>2. \A z \in DOMAIN kernel : kernel[z] \in Registration
        BY KeyOfKernel
      <4>3. QED
        BY <1>2, <4>1, <4>2
    <3>2. kernel' = [z \in DOMAIN kernel' |-> kernel'[z]]
      BY <1>1 DEF With
    <3>3. QED
      BY <3>1, <3>2
  <2>2. QED
    BY <1>1, <1>2, <1>4, <2>1 DEF EpollInv, TypeInv
<1>6. KeysInv'
  BY <1>1, <1>4 DEF EpollInv, KeysInv
<1>7. KernelInv' /\ BatchInv'
  <2>1. \A z : ToFd(z)' = ToFd(z)
    BY <1>1 DEF ToFd
  <2>2. KernelInv'
    BY <1>1, <1>2, <2>1, KeyOfKernel DEF KernelInv
  <2>3. BatchInv'
    BY <1>1 DEF EpollInv, BatchInv
  <2>4. QED
    BY <2>2, <2>3
<1>8. NothingLeaks'
  <2> SUFFICES ASSUME ~strayed'
               PROVE  /\ Live' = {refOf'[l] : l \in DOMAIN refOf'}
                      /\ open' => Live' = {kernel'[z].ref : z \in DOMAIN kernel'}
    BY DEF NothingLeaks
  <2>1. ~strayed /\ kernel[fd].ref = refOf[k]
    BY <1>1 DEF SameKey, EpollInv, TypeInv
  <2>2. \A z \in DOMAIN kernel : kernel'[z].ref = kernel[z].ref
    BY <1>1, <1>2, <2>1
  <2>3. QED
    BY <1>1, <1>2, <1>4, <2>1, <2>2 DEF EpollInv, NothingLeaks
<1>9. StateAgrees'
  BY <1>1, <1>2 DEF EpollInv, StateAgrees, TypeInv
<1>10. QED
  BY <1>5, <1>6, <1>7, <1>8, <1>9 DEF EpollInv

LEMMA DelIInv ==
    ASSUME EpollInv, NEW k \in Key, event_del(k)
    PROVE  EpollInv'
<1> DEFINE fd == ToFd(k)
<1>1. /\ fd \in DOMAIN kernel
      /\ kernel' = Without(kernel, fd) /\ state' = state \ {fd}
      /\ said' = Without(said, k) /\ rest' = Ended(k)
      /\ strayed' = (strayed \/ ~SameKey(k))
      /\ UNCHANGED <<open, fdOf, platform>> /\ HalfOK'
  BY HalfStepOK DEF event_del, CtlDel, EpollInv, TypeInv
<1>2. /\ DOMAIN kernel' = DOMAIN kernel \ {fd}
      /\ \A z \in DOMAIN kernel \ {fd} : kernel'[z] = kernel[z]
      /\ kernel' \in [DOMAIN kernel' -> Registration]
  <2>1. kernel' = [z \in DOMAIN kernel \ {fd} |-> kernel[z]]
    BY <1>1 DEF Without, Restrict
  <2>2. \A z \in DOMAIN kernel : kernel[z] \in Registration
    BY KeyOfKernel
  <2>3. QED
    BY <2>1, <2>2
<1>3. L!TableOK(refs) /\ DOMAIN said = DOMAIN refOf
  BY DEF EpollInv, TypeInv
<1>4. /\ DOMAIN refOf' = DOMAIN refOf \ {k}
      /\ \A z \in DOMAIN refOf \ {k} : refOf'[z] = refOf[z]
      /\ refOf' \in [DOMAIN refOf' -> Nat]
  <2>1. CASE k \in DOMAIN refOf
    <3>1. refOf' = [z \in DOMAIN refOf \ {k} |-> refOf[z]]
      BY <2>1 DEF event_del, Without, Restrict
    <3>2. QED
      BY <3>1 DEF EpollInv, TypeInv
  <2>2. CASE k \notin DOMAIN refOf
    BY <2>2 DEF event_del, EpollInv, TypeInv
  <2>3. QED
    BY <2>1, <2>2
<1>5. /\ DOMAIN said' = DOMAIN refOf'
      /\ \A z \in DOMAIN refOf \ {k} : said'[z] = said[z]
      /\ said' \in [DOMAIN refOf' -> Values]
  <2>1. said' = [z \in DOMAIN refOf \ {k} |-> said[z]]
    BY <1>1, <1>3 DEF Without, Restrict
  <2>2. QED
    BY <1>4, <2>1 DEF EpollInv, TypeInv
<1>6. /\ L!TableOK(refs')
      /\ \A z \in DOMAIN refOf \ {k} :
            refOf[z] \in Live' /\ refs'.slot[refOf[z]] = refs.slot[refOf[z]]
      /\ k \in DOMAIN refOf => Live' = Live \ {refOf[k]}
  <2>1. CASE k \in DOMAIN refOf
    <3>1. refs' = R!AfterUnref(refs, refOf[k]) /\ refOf[k] \in Int
      BY <2>1 DEF event_del, EpollInv, TypeInv
    <3>2. /\ L!TableOK(refs') /\ Live' = Live \ {refOf[k]}
          /\ \A x \in Live \ {refOf[k]} : refs'.slot[x] = refs.slot[x]
      BY <1>3, <3>1, AfterUnrefOK DEF Live
    <3>3. \A z \in DOMAIN refOf \ {k} : refOf[z] \in Live \ {refOf[k]}
      BY <2>1 DEF EpollInv, KeysInv
    <3>4. QED
      BY <3>2, <3>3
  <2>2. CASE k \notin DOMAIN refOf
    <3>1. refs' = refs
      BY <2>2 DEF event_del
    <3>2. QED
      BY <1>3, <2>2, <3>1 DEF EpollInv, KeysInv, Live
  <2>3. QED
    BY <2>1, <2>2
<1>7. TypeInv'
  <2>1. rest' \in Seq(Fetched) /\ Len(rest') <= Room
    BY <1>1, EndedOK DEF EpollInv, TypeInv
  <2>2. strayed' \in BOOLEAN /\ state' \subseteq Fd /\ DOMAIN kernel' \subseteq Fd
    BY <1>1, <1>2 DEF EpollInv, TypeInv
  <2>3. QED
    BY <1>1, <1>2, <1>4, <1>5, <1>6, <2>1, <2>2 DEF EpollInv, TypeInv
<1>8. KeysInv'
  BY <1>4, <1>5, <1>6 DEF EpollInv, KeysInv
<1>9. \A z \in DOMAIN kernel' : kernel[z].key # k
  BY <1>2, KeyOfKernel
<1>10. KernelInv'
  <2>1. \A z : ToFd(z)' = ToFd(z)
    BY <1>1 DEF ToFd
  <2>2. QED
    BY <1>2, <1>4, <1>9, <2>1, KeyOfKernel DEF KernelInv
<1>11. BatchInv'
  <2> SUFFICES ASSUME NEW j \in DOMAIN rest', rest'[j].key # Gone
               PROVE  rest'[j].key \in DOMAIN refOf' /\ rest'[j].ref = refOf'[rest'[j].key]
    BY DEF BatchInv
  <2>1. j \in DOMAIN rest /\ rest'[j] = rest[j] /\ rest[j].key # k
    BY <1>1, EndedOK DEF EpollInv, TypeInv
  <2>2. QED
    BY <1>4, <2>1 DEF EpollInv, BatchInv
<1>12. NothingLeaks'
  <2> SUFFICES ASSUME ~strayed'
               PROVE  /\ Live' = {refOf'[l] : l \in DOMAIN refOf'}
                      /\ open' => Live' = {kernel'[z].ref : z \in DOMAIN kernel'}
    BY DEF NothingLeaks
  <2>1. ~strayed /\ k \in DOMAIN refOf /\ kernel[fd].ref = refOf[k]
    BY <1>1 DEF SameKey, EpollInv, TypeInv
  <2>2. Live' = Live \ {refOf[k]}
    BY <1>6, <2>1
  <2>3. Live = {refOf[l] : l \in DOMAIN refOf}
    BY <2>1 DEF EpollInv, NothingLeaks
  <2>4. \A l \in DOMAIN refOf \ {k} : refOf[l] # refOf[k]
    BY <2>1 DEF EpollInv, KeysInv
  <2>5. Live' = {refOf'[l] : l \in DOMAIN refOf'}
    BY <1>4, <2>2, <2>3, <2>4
  <2>6. ASSUME open
        PROVE  Live' = {kernel'[z].ref : z \in DOMAIN kernel'}
    <3>1. Live = {kernel[z].ref : z \in DOMAIN kernel}
      BY <2>1, <2>6 DEF EpollInv, NothingLeaks
    <3>2. \A z \in DOMAIN kernel \ {fd} : kernel[z].ref # refOf[k]
      BY <1>2, <1>9, <2>4, KeyOfKernel
    <3>3. QED
      BY <1>1, <1>2, <2>1, <2>2, <3>1, <3>2
  <2>7. QED
    BY <1>1, <2>5, <2>6
<1>13. StateAgrees'
  BY <1>1, <1>2 DEF EpollInv, StateAgrees, TypeInv
<1>14. QED
  BY <1>7, <1>8, <1>10, <1>11, <1>12, <1>13 DEF EpollInv

(* What the kernel reports is in place when it is fetched.                 *)
LEMMA WaitIInv ==
    ASSUME EpollInv, wait
    PROVE  EpollInv'
<1>1. PICK b \in Batches : rest' = [j \in DOMAIN b |-> DataOf(b[j])]
  BY DEF wait
<1>2. UNCHANGED <<open, refs, refOf, fdOf, kernel, state, platform, said, strayed>> /\ HalfOK'
  BY HalfStepOK DEF wait, bpoll, EpollInv, TypeInv
<1>3. PICK n \in 0..Room : b \in [1..n -> Registered]
  BY DEF Batches
<1>4. /\ DOMAIN rest' = 1..n
      /\ \A j \in 1..n : b[j] \in Registered /\ rest'[j] = DataOf(b[j])
  BY <1>1, <1>3
<1>5. rest' \in Seq(Fetched) /\ Len(rest') <= Room
  <2>1. ASSUME NEW j \in 1..n
        PROVE  rest'[j] \in Fetched
    <3>1. CASE b[j] \in DOMAIN kernel
      BY <1>4, <3>1, KeyOfKernel DEF DataOf, Registration, Fetched
    <3>2. CASE b[j] \notin DOMAIN kernel
      <4>1. b[j] \in DOMAIN half /\ half[b[j]] \in Nat
        BY <1>4, <3>2 DEF Registered, EpollInv, TypeInv, HalfOK
      <4>2. QED
        BY <1>4, <3>2, <4>1 DEF DataOf, Fetched
    <3>3. QED
      BY <3>1, <3>2
  <2>2. rest' \in [1..n -> Fetched]
    BY <1>1, <1>3, <2>1
  <2>3. QED
    BY <1>3, <2>2, RoomIsPositive
<1>6. TypeInv'
  BY <1>2, <1>5 DEF EpollInv, TypeInv
<1>7. BatchInv'
  <2>1. ASSUME NEW j \in 1..n, rest'[j].key # Gone
        PROVE  b[j] \in DOMAIN kernel /\ rest'[j] = kernel[b[j]]
    BY <1>4, <2>1 DEF DataOf
  <2>2. QED
    BY <1>2, <1>4, <2>1, KeyOfKernel DEF BatchInv
<1>8. KeysInv' /\ KernelInv' /\ NothingLeaks' /\ StateAgrees'
  BY <1>2 DEF EpollInv, KeysInv, KernelInv, NothingLeaks, StateAgrees, Live, ToFd
<1>9. QED
  BY <1>6, <1>7, <1>8 DEF EpollInv

LEMMA EventsIInv ==
    ASSUME EpollInv, ep_events
    PROVE  EpollInv'
<1>1. /\ rest # <<>> /\ rest' = Tail(rest)
      /\ UNCHANGED <<open, refs, refOf, fdOf, kernel, state, platform, said, strayed>> /\ HalfOK'
  BY HalfStepOK DEF ep_events, bpoll, EpollInv, TypeInv
<1>2. rest \in Seq(Fetched) /\ Len(rest) <= Room
  BY DEF EpollInv, TypeInv
<1>3. /\ rest' \in Seq(Fetched) /\ Len(rest') <= Room
      /\ \A j \in DOMAIN rest' : j + 1 \in DOMAIN rest /\ rest'[j] = rest[j + 1]
  BY <1>1, <1>2, RoomIsPositive
<1>4. TypeInv'
  BY <1>1, <1>3 DEF EpollInv, TypeInv
<1>5. BatchInv'
  BY <1>1, <1>3 DEF EpollInv, BatchInv
<1>6. KeysInv' /\ KernelInv' /\ NothingLeaks' /\ StateAgrees'
  BY <1>1 DEF EpollInv, KeysInv, KernelInv, NothingLeaks, StateAgrees, Live, ToFd
<1>7. QED
  BY <1>4, <1>5, <1>6 DEF EpollInv

LEMMA CloseIInv ==
    ASSUME EpollInv, ep_close
    PROVE  EpollInv'
<1>1. /\ open' = FALSE /\ kernel' = <<>> /\ state' = {}
      /\ UNCHANGED <<refs, refOf, rest, fdOf, platform, said, strayed>> /\ HalfOK'
  BY DEF ep_close, HalfOK
<1>2. DOMAIN kernel' = {} /\ kernel' \in [{} -> Registration]
  BY <1>1
<1>3. TypeInv'
  BY <1>1, <1>2 DEF EpollInv, TypeInv
<1>4. KeysInv' /\ KernelInv' /\ BatchInv'
  BY <1>1, <1>2 DEF EpollInv, KeysInv, KernelInv, BatchInv, Live
<1>5. NothingLeaks' /\ StateAgrees'
  BY <1>1, <1>2 DEF EpollInv, NothingLeaks, StateAgrees, Live
<1>6. QED
  BY <1>3, <1>4, <1>5 DEF EpollInv

(* A new socket's object is no key yet, so no key changes its number.      *)
LEMMA CreateIInv ==
    ASSUME EpollInv, NEW s \in Sock, NEW fd \in Fd, socket_create(s, fd)
    PROVE  EpollInv'
<1>1. /\ s \notin DOMAIN refOf /\ fdOf' = [fdOf EXCEPT ![s] = fd]
      /\ UNCHANGED <<open, refs, refOf, rest, kernel, state, platform, said, strayed>> /\ HalfOK'
  BY HalfStepOK DEF socket_create, bpoll, EpollInv, TypeInv
<1>2. TypeInv'
  BY <1>1 DEF EpollInv, TypeInv
<1>3. \A k \in DOMAIN refOf : ToFd(k)' = ToFd(k)
  BY <1>1, KeysAreApart DEF ToFd, EpollInv, TypeInv, Key
<1>4. KernelInv'
  BY <1>1, <1>3, KeyOfKernel DEF KernelInv
<1>5. KeysInv' /\ BatchInv' /\ NothingLeaks' /\ StateAgrees'
  BY <1>1 DEF EpollInv, KeysInv, BatchInv, NothingLeaks, StateAgrees, Live
<1>6. QED
  BY <1>2, <1>4, <1>5 DEF EpollInv

(* A closed socket takes its registration with it.                         *)
LEMMA SocketCloseIInv ==
    ASSUME EpollInv, NEW s \in Sock, socket_close(s)
    PROVE  EpollInv'
<1> DEFINE fd == fdOf[s]
<1>1. /\ fdOf' = [fdOf EXCEPT ![s] = NoFd]
      /\ kernel' = Without(kernel, fd)
      /\ strayed' = (strayed \/ fd \in DOMAIN kernel)
      /\ UNCHANGED <<open, refs, refOf, rest, state, platform, said>> /\ HalfOK'
  BY HalfStepOK DEF socket_close, EpollInv, TypeInv
<1>2. /\ DOMAIN kernel' = DOMAIN kernel \ {fd}
      /\ \A z \in DOMAIN kernel \ {fd} : kernel'[z] = kernel[z]
      /\ kernel' \in [DOMAIN kernel' -> Registration]
  <2>1. kernel' = [z \in DOMAIN kernel \ {fd} |-> kernel[z]]
    BY <1>1 DEF Without, Restrict
  <2>2. \A z \in DOMAIN kernel : kernel[z] \in Registration
    BY KeyOfKernel
  <2>3. QED
    BY <2>1, <2>2
<1>3. TypeInv'
  BY <1>1, <1>2 DEF EpollInv, TypeInv
<1>4. \A k \in DOMAIN refOf : k # s => ToFd(k)' = ToFd(k)
  BY <1>1 DEF ToFd, EpollInv, TypeInv, Key
<1>5. \A z \in DOMAIN kernel : kernel[z].key = s => z = fd
  BY KeyOfKernel, KeysAreApart DEF ToFd
<1>6. KernelInv'
  BY <1>1, <1>2, <1>4, <1>5, KeyOfKernel DEF KernelInv
<1>7. KeysInv' /\ BatchInv'
  BY <1>1 DEF EpollInv, KeysInv, BatchInv, Live
<1>8. NothingLeaks' /\ StateAgrees'
  <2> SUFFICES ASSUME ~strayed'
               PROVE  NothingLeaks' /\ StateAgrees'
    BY DEF NothingLeaks, StateAgrees
  <2>1. ~strayed /\ fd \notin DOMAIN kernel
    BY <1>1 DEF EpollInv, TypeInv
  <2>2. DOMAIN kernel' = DOMAIN kernel /\ \A z \in DOMAIN kernel : kernel'[z] = kernel[z]
    BY <1>2, <2>1
  <2>3. StateAgrees'
    BY <1>1, <2>1, <2>2 DEF EpollInv, StateAgrees
  <2>4. {kernel'[z].ref : z \in DOMAIN kernel'} = {kernel[z].ref : z \in DOMAIN kernel}
    BY <2>2
  <2>5. NothingLeaks'
    BY <1>1, <2>1, <2>4 DEF EpollInv, NothingLeaks, Live
  <2>6. QED
    BY <2>3, <2>5
<1>9. QED
  BY <1>3, <1>6, <1>7, <1>8 DEF EpollInv

-------------------------------------------------------------------------------
LEMMA NextEpollInv == EpollInv /\ [Next]_vars => EpollInv'
<1> SUFFICES ASSUME EpollInv, [Next]_vars
             PROVE  EpollInv'
  OBVIOUS
<1>1. CASE UNCHANGED vars
  BY <1>1 DEF vars, bpoll, EpollInv, TypeInv, KeysInv, KernelInv, BatchInv, NothingLeaks,
              StateAgrees, Live, ToFd, HalfOK
<1>2. ASSUME NEW k \in Key, NEW v \in Value \cup {k},
             event_add(k, v) \/ event_add_refused(k, v) \/ event_add_throws(k, v)
      PROVE  EpollInv'
  BY <1>2, AddIInv, AddFailsIInv
<1>3. ASSUME NEW k \in Key,
             NEW vs \in {<<>>} \cup {<<v>> : v \in Value \cup {NIL}}, event_mod(k, vs)
      PROVE  EpollInv'
  BY <1>3, ModIInv
<1>4. ASSUME NEW k \in Key, event_del(k) \/ event_mod_refused(k) \/ event_del_refused(k)
      PROVE  EpollInv'
  BY <1>4, DelIInv, HalfIInv
<1>5. CASE wait \/ ep_events \/ ep_close
  BY <1>5, WaitIInv, EventsIInv, CloseIInv
<1>6. ASSUME NEW s \in Sock, socket_close(s) \/ \E fd \in Fd : socket_create(s, fd)
      PROVE  EpollInv'
  BY <1>6, SocketCloseIInv, CreateIInv
<1>7. QED
  BY <1>1, <1>2, <1>3, <1>4, <1>5, <1>6 DEF Next

LEMMA EpollInvariant == Spec => []EpollInv
BY InitEpollInv, NextEpollInv, PTL DEF Spec

(* Every reference, number and batch has its type, for any socket numbers, *)
(* values and room: lua_epoll's events array is never overrun.             *)
THEOREM EpollTypeCorrect == Spec => []TypeOK
<1>1. EpollInv => TypeOK
  BY DEF EpollInv, TypeInv, TypeOK, L!TableOK, Fetched, HalfOK
<1>2. QED
  BY <1>1, EpollInvariant, PTL

(* Whatever a script registers, modifies, deletes and closes, in any order *)
(* and through whichever key, a registration that the kernel accepted has  *)
(* a live reference, kept under one key of that socket.                    *)
THEOREM Registrations == Spec => []RegistrationsHeld
<1>1. EpollInv => RegistrationsHeld
  BY KeyOfKernel DEF EpollInv, KeysInv, RegistrationsHeld
<1>2. QED
  BY <1>1, EpollInvariant, PTL

(* An event whose registration is in place delivers the value last given   *)
(* for it, however references were released and reused since it was        *)
(* fetched.                                                                *)
THEOREM OwnValues == Spec => []OwnValue
<1>1. EpollInv => OwnValue
  BY DEF EpollInv, KeysInv, BatchInv, OwnValue
<1>2. QED
  BY <1>1, EpollInvariant, PTL

(* A script that deletes before it closes, under the key it added with,    *)
(* leaks no reference, though the kernel refuses adds, some of them after  *)
(* it took up one direction, and changes and deletes of what is left of    *)
(* those.                                                                  *)
THEOREM NoLeaks == Spec => []NothingLeaks
<1>1. EpollInv => NothingLeaks
  BY DEF EpollInv
<1>2. QED
  BY <1>1, EpollInvariant, PTL

(* For such a script the map that bpoll keeps beside kqueue is exact about *)
(* the registrations that kqueue accepted, through adds that it took up by *)
(* half: event_add does not refuse a socket whose add had failed.          *)
THEOREM StateIsExact == Spec => []StateAgrees
<1>1. EpollInv => StateAgrees
  BY DEF EpollInv
<1>2. QED
  BY <1>1, EpollInvariant, PTL
===============================================================================
