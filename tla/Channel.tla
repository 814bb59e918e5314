------------------------------- MODULE Channel --------------------------------
(***************************************************************************)
(* One bee.channel object shared by threads: a queue of serialized         *)
(* messages under a spinlock, and an event (a flag and a non-blocking      *)
(* socket pair) whose read end consumers wait on with epoll or select.     *)
(* binding/lua_channel.cpp, bee/net/event.cpp, bee/thread/spinlock.cpp.    *)
(*                                                                         *)
(* The lock protects the queue and the event, but a consumer's wait reads  *)
(* the pipe without it: every step that another thread can observe is an   *)
(* action of its own.                                                      *)
(***************************************************************************)
EXTENDS Integers, Sequences

CONSTANTS Producers,   (* threads that push                                 *)
          Consumers,   (* threads that wait on fd() and pop                 *)
          Destroyers,  (* threads that may clear (channel.destroy)          *)
          Msg,         (* the messages, each pushed at most once            *)
          NoMsg        (* the null pointer pop() returns when empty         *)

Thread == Producers \cup Consumers \cup Destroyers

ASSUME NoMsgIsNoMessage == NoMsg \notin Msg

VARIABLES pc,        (* where each thread stands in its call                *)
          op,        (* the call it is in: "push", "pop" or "clear"         *)
          data,      (* its local: the message pushed, or the one popped    *)
          locked,    (* the spinlock's atomic_flag                          *)
          queue,     (* channel::queue                                      *)
          signaled,  (* event::e                                            *)
          pipe,      (* bytes readable on event::pipe[0]                    *)
          pushed,    (* history: messages in the order queue.push saw them  *)
          removed    (* history: messages in the order they left the queue  *)

chan == <<queue, signaled, pipe, pushed, removed>>
cvars == <<pc, op, data, locked, chan>>

ChannelInit ==
    /\ pc = [t \in Thread |-> IF t \in Consumers THEN "wait" ELSE "idle"]
    /\ op = [t \in Thread |-> "pop"]
    /\ data = [t \in Thread |-> NoMsg]
    /\ locked = FALSE
    /\ queue = <<>> /\ signaled = FALSE /\ pipe = 0
    /\ pushed = <<>> /\ removed = <<>>

Goto(t, l) == pc' = [pc EXCEPT ![t] = l]

(* A message that no thread has pushed or is pushing. *)
Fresh(m) == /\ \A t \in Thread : data[t] # m
            /\ \A i \in DOMAIN pushed : pushed[i] # m

Call(t, name, m) ==
    /\ op' = [op EXCEPT ![t] = name]
    /\ data' = [data EXCEPT ![t] = m]
    /\ Goto(t, "lock")
    /\ UNCHANGED <<locked, chan>>

CallPush(t) == /\ t \in Producers /\ pc[t] = "idle"
               /\ \E m \in Msg : Fresh(m) /\ Call(t, "push", m)

CallClear(t) == t \in Destroyers /\ pc[t] = "idle" /\ Call(t, "clear", NoMsg)

(* A consumer pops when its wait says readable, or again right after a pop *)
(* that returned a message; it goes back to waiting when it chooses, and   *)
(* always does after an empty pop.                                         *)
CallPop(t) == /\ t \in Consumers
              /\ \/ pc[t] = "wait" /\ pipe > 0
                 \/ pc[t] = "idle" /\ data[t] # NoMsg
              /\ Call(t, "pop", NoMsg)

Wait(t) == /\ t \in Consumers /\ pc[t] = "idle"
           /\ Goto(t, "wait")
           /\ data' = [data EXCEPT ![t] = NoMsg]
           /\ UNCHANGED <<op, locked, chan>>

-------------------------------------------------------------------------------
(* spinlock::lock: test_and_set, and on failure spin on a plain load.      *)

TestAndSet(t) ==
    /\ pc[t] = "lock"
    /\ locked' = TRUE
    /\ Goto(t, IF locked THEN "spin" ELSE op[t])
    /\ UNCHANGED <<op, data, chan>>

Spin(t) == /\ pc[t] = "spin" /\ ~locked
           /\ Goto(t, "lock")
           /\ UNCHANGED <<op, data, locked, chan>>

(* The unique_lock's destructor, then the return to Lua. *)
Unlock(t) ==
    /\ pc[t] = "unlock"
    /\ locked' = FALSE
    /\ Goto(t, "idle")
    /\ data' = [data EXCEPT ![t] = IF op[t] = "push" THEN NoMsg ELSE @]
    /\ UNCHANGED <<op, chan>>

-------------------------------------------------------------------------------
(* The bodies of push, pop and clear, up to their calls on the event. *)

Push(t) ==
    /\ pc[t] = "push"
    /\ queue' = Append(queue, data[t])
    /\ pushed' = Append(pushed, data[t])
    /\ Goto(t, "set")
    /\ UNCHANGED <<op, data, locked, signaled, pipe, removed>>

(* pop() on an empty queue clears the event; otherwise front() is read.    *)
Front(t) ==
    /\ pc[t] = "pop"
    /\ IF queue = <<>>
       THEN Goto(t, "test") /\ UNCHANGED data
       ELSE Goto(t, "take") /\ data' = [data EXCEPT ![t] = Head(queue)]
    /\ UNCHANGED <<op, locked, chan>>

(* Mutant of Take: the event is cleared after every pop. *)
TakeAndClear(t) ==
    /\ pc[t] = "take"
    /\ queue' = Tail(queue)
    /\ removed' = Append(removed, data[t])
    /\ Goto(t, "test")
    /\ UNCHANGED <<op, data, locked, signaled, pipe, pushed>>

(* Mutant of Take: the newest message is removed instead of the oldest. *)
TakeLast(t) ==
    /\ pc[t] = "take"
    /\ queue' = SubSeq(queue, 1, Len(queue) - 1)
    /\ removed' = Append(removed, data[t])
    /\ Goto(t, IF Len(queue) = 1 THEN "test" ELSE "unlock")
    /\ UNCHANGED <<op, data, locked, signaled, pipe, pushed>>

(* queue.pop(), and ev.clear() when that emptied the queue. *)
Take(t) ==
    /\ pc[t] = "take"
    /\ queue' = Tail(queue)
    /\ removed' = Append(removed, data[t])
    /\ Goto(t, IF Len(queue) = 1 THEN "test" ELSE "unlock")
    /\ UNCHANGED <<op, data, locked, signaled, pipe, pushed>>

Clear(t) ==
    /\ pc[t] = "clear"
    /\ queue' = <<>>
    /\ removed' = removed \o queue
    /\ Goto(t, "test")
    /\ UNCHANGED <<op, data, locked, signaled, pipe, pushed>>

-------------------------------------------------------------------------------
(* event::set: the flag's test_and_set decides who sends the byte. *)

SetFlag(t) ==
    /\ pc[t] = "set"
    /\ signaled' = TRUE
    /\ Goto(t, IF signaled THEN "unlock" ELSE "send")
    /\ UNCHANGED <<op, data, locked, queue, pipe, pushed, removed>>

Send(t) ==
    /\ pc[t] = "send"
    /\ pipe' = pipe + 1
    /\ Goto(t, "unlock")
    /\ UNCHANGED <<op, data, locked, queue, signaled, pushed, removed>>

(* event::clear: nothing when the flag is down; otherwise recv until the   *)
(* socket would block, then the flag goes down.                            *)
TestFlag(t) ==
    /\ pc[t] = "test"
    /\ Goto(t, IF signaled THEN "recv" ELSE "unlock")
    /\ UNCHANGED <<op, data, locked, chan>>

(* Mutant of Recv: the flag goes down but the byte stays in the pipe. *)
RecvNothing(t) ==
    /\ pc[t] = "recv"
    /\ signaled' = FALSE
    /\ Goto(t, "unlock")
    /\ UNCHANGED <<op, data, locked, queue, pipe, pushed, removed>>

Recv(t) ==
    /\ pc[t] = "recv"
    /\ IF pipe > 0
       THEN pipe' = 0 /\ UNCHANGED <<pc, signaled>>
       ELSE signaled' = FALSE /\ Goto(t, "unlock") /\ UNCHANGED pipe
    /\ UNCHANGED <<op, data, locked, queue, pushed, removed>>

-------------------------------------------------------------------------------
Lock(t) == TestAndSet(t) \/ Spin(t)
Body(t) == Push(t) \/ Front(t) \/ Take(t) \/ Clear(t)
Event(t) == SetFlag(t) \/ Send(t) \/ TestFlag(t) \/ Recv(t)

(* What a thread inside a call does without deciding anything. *)
Run(t) == Lock(t) \/ Body(t) \/ Event(t) \/ Unlock(t)

ChannelNext == \E t \in Thread : CallPush(t) \/ CallPop(t) \/ CallClear(t) \/ Wait(t) \/ Run(t)

ChannelSpec == ChannelInit /\ [][ChannelNext]_cvars

(* A thread inside a call is scheduled; a consumer keeps consuming.  No    *)
(* thread is obliged to push or to destroy.                                *)
FairSpec == /\ ChannelSpec
            /\ \A t \in Thread : WF_cvars(Run(t))
            /\ \A t \in Consumers : WF_cvars(CallPop(t) \/ Wait(t))
-------------------------------------------------------------------------------
Critical == {"push", "pop", "clear", "take", "set", "send", "test", "recv", "unlock"}

Label == {"idle", "wait", "lock", "spin"} \cup Critical

ChannelTypeOK == /\ pc \in [Thread -> Label]
          /\ op \in [Thread -> {"push", "pop", "clear"}]
          /\ data \in [Thread -> Msg \cup {NoMsg}]
          /\ locked \in BOOLEAN
          /\ queue \in Seq(Msg) /\ pushed \in Seq(Msg) /\ removed \in Seq(Msg)
          /\ signaled \in BOOLEAN
          /\ pipe \in Nat

(* spinlock: at most one thread is between lock and unlock.                *)
MutualExclusion == \A t, u \in Thread :
                       pc[t] \in Critical /\ pc[u] \in Critical => t = u

(* A free channel tells its pollers the truth: fd() is readable exactly    *)
(* when there is a message.  A miss would leave consumers asleep on a      *)
(* queue that never empties, a leftover byte would make them spin.  The    *)
(* flag keeps the pipe from filling: with one byte at most, the send on    *)
(* the non-blocking pair, whose result is ignored, cannot fail.            *)
ReadableIffNonempty ==
    /\ pipe <= 1
    /\ ~locked => (pipe > 0 <=> queue # <<>>)

(* Messages leave in the order they entered, each exactly once, whoever    *)
(* pops and whenever the channel is cleared.                               *)
FirstInFirstOut == removed \o queue = pushed

(* Every message pushed is eventually popped or cleared: no wakeup is lost *)
(* between a producer's push and the consumers' waits.                     *)
EverythingLeaves ==
    \A m \in Msg : (\E i \in DOMAIN pushed : pushed[i] = m)
                  ~> (\E i \in DOMAIN removed : removed[i] = m)
===============================================================================
