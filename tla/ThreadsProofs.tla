----------------------------- MODULE ThreadsProofs -----------------------------
(***************************************************************************)
(* Proofs about threads and channels for any number of each: the thread    *)
(* ids, the log of errors, the lives of the channel objects, and the one   *)
(* owner of every block.                                                   *)
(***************************************************************************)
EXTENDS Threads, SequenceTheorems, TLAPS

LifeOf == {"none", "born", "running", "failing", "closing", "done", "joined"}
Creating == {"load", "swap", "spawn"}

(* A C call belongs to a running script, and arguments to a creation or to *)
(* a thread that was not loaded yet.                                       *)
Seated ==
    /\ thr[Main] = "running"
    /\ \A t \in Thread :
          /\ at[t] # "script" => thr[t] = "running"
          /\ params[t] # Null =>
                thr[t] = "born" \/ (thr[t] = "running" /\ at[t] \in Creating)

(* No number above the counter was minted. *)
IdsOK ==
    /\ \A t \in Started : id[t] <= g_thread_id
    /\ \A t \in Minting : new[t] <= g_thread_id
    /\ DistinctIds

InLog(w) == \E i \in DOMAIN g_errlog : g_errlog[i] = w

(* A failed thread logs its error before its state is closed, and its      *)
(* state is closed when the thread ends.                                   *)
LogOK ==
    \A w \in Worker :
        /\ w \in failed => thr[w] \in {"failing", "closing", "done", "joined"}
        /\ w \in failed /\ thr[w] # "failing" => w \in read \/ InLog(w)
        /\ thr[w] \in {"done", "joined"} => boxes[w] = {}

Named(c) == \E n \in Name : channels[n] = c

(* A destroy that holds the registry has emptied the channel it will erase, *)
(* and so has one that erased the name of a channel still boxed.           *)
ChanOK ==
    /\ \A c \in Chan : c \in alive <=> Boxed(c) \/ Named(c)
    /\ \A n, m \in Name : channels[n] = channels[m] /\ channels[n] # Null => n = m
    /\ mutex # Null => channels[mutex] # Null /\ channels[mutex] \in cleared
    /\ \A t \in Thread : at[t] = "erase" => mutex # Null
    /\ \A t, u \in Thread : at[t] = "erase" /\ at[u] = "erase" => t = u
    /\ \A c \in alive : Named(c) \/ c \in cleared

(* The owners of blocks, place by place.                                   *)
OwnedOnce ==
    /\ \A t \in Thread : params[t] # Null => params[t] \in live
    /\ \A t, u \in Thread : params[t] = params[u] /\ params[t] # Null => t = u
    /\ \A c \in Chan : \A i \in DOMAIN queue[c] : queue[c][i] \in live
    /\ \A c, d \in Chan : \A i \in DOMAIN queue[c], j \in DOMAIN queue[d] :
          queue[c][i] = queue[d][j] => c = d /\ i = j
    /\ \A t \in Thread, c \in Chan : \A i \in DOMAIN queue[c] : queue[c][i] # params[t]

InQueue(b) == \E c \in Chan : \E i \in DOMAIN queue[c] : queue[c][i] = b
InParams(b) == \E t \in Thread : params[t] = b

NoneLost ==
    /\ \A c \in cleared : \A i \in DOMAIN queue[c] : queue[c][i] \in late
    /\ \A b \in live : b \in late \/ InParams(b) \/ InQueue(b)

BlockOK == OwnedOnce /\ NoneLost

IInv == TypeOK /\ Seated /\ IdsOK /\ LogOK /\ ChanOK /\ BlockOK

LEMMA ConstantFacts ==
    /\ Main \notin Worker /\ Null \notin Block /\ Null \notin Chan /\ Null \notin Name
    /\ MaxId \in Nat /\ Thread = Worker \cup {Main}
BY Constants DEF Thread

-------------------------------------------------------------------------------
(* Sequences                                                               *)

LEMMA TailFacts ==
    ASSUME NEW S, NEW s \in Seq(S), s # <<>>
    PROVE  /\ Tail(s) \in Seq(S) /\ Head(s) \in S /\ Head(s) = s[1] /\ 1 \in DOMAIN s
           /\ \A i \in DOMAIN Tail(s) : i + 1 \in DOMAIN s /\ Tail(s)[i] = s[i + 1] /\ i \in Nat
           /\ \A i \in DOMAIN s : i = 1 \/ (i - 1 \in DOMAIN Tail(s) /\ Tail(s)[i - 1] = s[i])
<1>1. Len(s) \in Nat /\ DOMAIN s = 1..Len(s) /\ Len(s) # 0 /\ s[1] = Head(s)
  BY LenProperties, EmptySeq
<1>2. /\ Tail(s) \in Seq(S) /\ Head(s) \in S /\ Len(Tail(s)) = Len(s) - 1
      /\ \A i \in 1..Len(Tail(s)) : Tail(s)[i] = s[i + 1]
  BY HeadTailProperties
<1>3. DOMAIN Tail(s) = 1..(Len(s) - 1)
  BY <1>2, LenProperties
<1>4. QED
  BY <1>1, <1>2, <1>3

LEMMA AppendFacts ==
    ASSUME NEW S, NEW s \in Seq(S), NEW x \in S
    PROVE  /\ Append(s, x) \in Seq(S)
           /\ \A i \in DOMAIN Append(s, x) : \/ i \in DOMAIN s /\ Append(s, x)[i] = s[i]
                                             \/ i = Len(s) + 1 /\ Append(s, x)[i] = x
           /\ \A i \in DOMAIN s : i \in DOMAIN Append(s, x) /\ Append(s, x)[i] = s[i]
           /\ Len(s) + 1 \in DOMAIN Append(s, x) /\ Append(s, x)[Len(s) + 1] = x
           /\ Len(s) + 1 \notin DOMAIN s
<1>1. Len(s) \in Nat /\ DOMAIN s = 1..Len(s)
  BY LenProperties
<1>2. /\ Append(s, x) \in Seq(S) /\ Len(Append(s, x)) = Len(s) + 1
      /\ \A i \in 1..Len(s) : Append(s, x)[i] = s[i]
      /\ Append(s, x)[Len(s) + 1] = x
  BY AppendProperties
<1>3. DOMAIN Append(s, x) = 1..(Len(s) + 1)
  BY <1>2, LenProperties
<1>4. QED
  BY <1>1, <1>2, <1>3

-------------------------------------------------------------------------------
(* Type correctness and the seats, which it rests on                       *)

LEMMA InitSeated == Init => TypeOK /\ Seated
<1> SUFFICES ASSUME Init
             PROVE  TypeOK /\ Seated
  OBVIOUS
<1>1. /\ thr \in [Thread -> LifeOf] /\ Main \in Thread
      /\ thr[Main] = "running"
  BY ConstantFacts DEF Init, LifeOf
<1>2. TypeOK
  BY <1>1, ConstantFacts DEF Init, TypeOK, LifeOf
<1>3. QED
  BY <1>1, <1>2 DEF Init, Seated

LEMMA CreationSeated ==
    ASSUME TypeOK, Seated, NEW t \in Thread, CreatePack(t) \/ Creation(t)
    PROVE  TypeOK' /\ Seated'
<1>1. CASE CreatePack(t)
  <2>1. TypeOK'
    BY <1>1 DEF CreatePack, TypeOK, Scripted, Goto, mint, log, registry, chan
  <2>2. Seated'
    BY <1>1 DEF CreatePack, TypeOK, Seated, Creating, Scripted, Goto
  <2>3. QED
    BY <2>1, <2>2
<1>2. CASE LoadId(t)
  <2>1. TypeOK'
    BY <1>2 DEF LoadId, TypeOK, Goto, log, registry, chan
  <2>2. Seated'
    BY <1>2 DEF LoadId, TypeOK, Seated, Creating, Goto
  <2>3. QED
    BY <2>1, <2>2
<1>3. CASE SwapId(t)
  <2>1. TypeOK'
    <3>1. g_thread_id' \in Nat /\ new' \in [Thread -> Int]
      BY <1>3 DEF SwapId, TypeOK
    <3>2. at' \in [Thread -> {"script", "load", "swap", "spawn", "erase"}]
      BY <1>3 DEF SwapId, TypeOK, Goto
    <3>3. QED
      BY <1>3, <3>1, <3>2 DEF SwapId, TypeOK, log, registry, chan
  <2>2. Seated'
    BY <1>3 DEF SwapId, TypeOK, Seated, Creating, Goto
  <2>3. QED
    BY <2>1, <2>2
<1>4. CASE Spawn(t)
  <2>1. PICK w \in Worker : /\ thr[w] = "none" /\ Becomes(w, "born")
                            /\ id' = [id EXCEPT ![w] = new[t]]
                            /\ params' = [params EXCEPT ![w] = params[t], ![t] = Null]
    BY <1>4 DEF Spawn
  <2>2. w \in Thread /\ w # Main
    BY ConstantFacts
  <2>3. TypeOK'
    BY <1>4, <2>1, <2>2 DEF Spawn, TypeOK, Goto, Becomes, log, registry, chan
  <2>4. Seated'
    BY <1>4, <2>1, <2>2 DEF Spawn, TypeOK, Seated, Creating, Goto, Becomes
  <2>5. QED
    BY <2>3, <2>4
<1>5. CASE SpawnFails(t)
  <2>1. TypeOK'
    BY <1>5 DEF SpawnFails, TypeOK, Goto, mint, log, registry, chan
  <2>2. Seated'
    BY <1>5 DEF SpawnFails, TypeOK, Seated, Creating, Goto
  <2>3. QED
    BY <2>1, <2>2
<1>6. QED
  BY <1>1, <1>2, <1>3, <1>4, <1>5 DEF Creation

LEMMA LifeSeated ==
    ASSUME TypeOK, Seated, NEW t \in Thread,
           Life(t) \/ ScriptReturns(t) \/ ScriptRaises(t) \/ Wait(t) \/ ErrLog(t)
    PROVE  TypeOK' /\ Seated'
<1>0. t # Main => t \in Worker
  BY ConstantFacts
<1>1. CASE Load(t)
  <2>1. TypeOK'
    BY <1>1 DEF Load, FreeArgs, Becomes, TypeOK, mint, log, registry, chan
  <2>2. Seated'
    BY <1>1 DEF Load, FreeArgs, Becomes, TypeOK, Seated
  <2>3. QED
    BY <2>1, <2>2
<1>2. CASE LoadFails(t)
  <2>1. t \in Worker
    BY <1>0, <1>2 DEF LoadFails, Seated
  <2>2. TypeOK'
    BY <1>2, <2>1 DEF LoadFails, FreeArgs, Becomes, TypeOK, mint, registry, chan
  <2>3. Seated'
    BY <1>2, <2>1 DEF LoadFails, FreeArgs, Becomes, TypeOK, Seated
  <2>4. QED
    BY <2>2, <2>3
<1>3. CASE LogError(t)
  <2>1. t \in Worker
    BY <1>0, <1>3 DEF LogError, Seated
  <2>2. g_errlog' \in Seq(Worker)
    BY <1>3, <2>1, AppendFacts DEF LogError, TypeOK
  <2>3. TypeOK'
    BY <1>3, <2>1, <2>2 DEF LogError, Becomes, TypeOK, mint, registry, chan
  <2>4. Seated'
    BY <1>3, <2>1 DEF LogError, Becomes, TypeOK, Seated
  <2>5. QED
    BY <2>3, <2>4
<1>4. CASE Exit(t)
  <2>1. TypeOK'
    BY <1>4 DEF Exit, Becomes, TypeOK, mint, log, registry, chan
  <2>2. Seated'
    BY <1>4 DEF Exit, Becomes, TypeOK, Seated
  <2>3. QED
    BY <2>1, <2>2
<1>5. CASE ScriptReturns(t)
  <2>1. TypeOK'
    BY <1>5 DEF ScriptReturns, Becomes, TypeOK, mint, log, registry, chan
  <2>2. Seated'
    BY <1>5, ConstantFacts DEF ScriptReturns, Scripted, Becomes, TypeOK, Seated, Creating
  <2>3. QED
    BY <2>1, <2>2
<1>6. CASE ScriptRaises(t)
  <2>1. TypeOK'
    BY <1>6 DEF ScriptRaises, Becomes, TypeOK, mint, registry, chan
  <2>2. Seated'
    BY <1>6, ConstantFacts DEF ScriptRaises, Scripted, Becomes, TypeOK, Seated, Creating
  <2>3. QED
    BY <2>1, <2>2
<1>7. CASE Wait(t)
  <2>1. PICK w \in Worker : thr[w] = "done" /\ Becomes(w, "joined")
    BY <1>7 DEF Wait
  <2>2. TypeOK'
    BY <1>7, <2>1 DEF Wait, Becomes, TypeOK, mint, log, registry, chan
  <2>3. Seated'
    BY <1>7, <2>1 DEF Wait, Becomes, TypeOK, Seated
  <2>4. QED
    BY <2>2, <2>3
<1>8. CASE ErrLog(t)
  <2>1. Head(g_errlog) \in Worker /\ Tail(g_errlog) \in Seq(Worker)
    BY <1>8, TailFacts DEF ErrLog, TypeOK
  <2>2. TypeOK'
    BY <1>8, <2>1 DEF ErrLog, TypeOK, mint, registry, chan
  <2>3. Seated'
    BY <1>8 DEF ErrLog, Seated
  <2>4. QED
    BY <2>2, <2>3
<1>9. QED
  BY <1>1, <1>2, <1>3, <1>4, <1>5, <1>6, <1>7, <1>8 DEF Life

(* Every channel operation leaves the threads and what they create alone,  *)
(* but for the C call of destroy.                                          *)
ChanStep(t) == Registry(t) \/ Erase(t) \/ Channels(t)

LEMMA DeleteType ==
    ASSUME TypeOK, NEW c \in Chan, Delete(c)
    PROVE  alive' \in SUBSET Chan /\ queue' \in [Chan -> Seq(Block)]
<1>1. <<>> \in Seq(Block)
  BY EmptySeq
<1>2. QED
  BY <1>1 DEF Delete, TypeOK

LEMMA RegistryTypeOK ==
    ASSUME TypeOK, NEW t \in Thread, Registry(t) \/ (Erase(t) /\ channels[mutex] \in Chan)
    PROVE  TypeOK'
<1>1. ASSUME NEW n \in Name, Create(t, n)
      PROVE  TypeOK'
  <2>1. PICK c \in Chan \ alive :
            /\ alive' = alive \cup {c} /\ cleared' = cleared \ {c}
            /\ channels' = [channels EXCEPT ![n] = c]
            /\ boxes' = [boxes EXCEPT ![t] = @ \cup {c}]
    BY <1>1 DEF Create
  <2>2. QED
    BY <1>1, <2>1 DEF Create, TypeOK, mint, log
<1>2. ASSUME NEW n \in Name, Query(t, n)
      PROVE  TypeOK'
  <2>1. channels[n] \in Chan
    BY <1>2 DEF Query, TypeOK
  <2>2. boxes' \in [Thread -> SUBSET Chan]
    BY <1>2, <2>1 DEF Query, TypeOK
  <2>3. QED
    BY <1>2, <2>2 DEF Query, TypeOK, mint, log, registry
<1>3. ASSUME NEW n \in Name, DestroyClear(t, n)
      PROVE  TypeOK'
  <2>1. channels[n] \in Chan
    BY <1>3 DEF DestroyClear, TypeOK
  <2>2. queue' \in [Chan -> Seq(Block)]
    BY <1>3, EmptySeq DEF DestroyClear, TypeOK
  <2>3. cleared' \in SUBSET Chan /\ live' \in SUBSET Block
    BY <1>3, <2>1 DEF DestroyClear, TypeOK
  <2>4. at' \in [Thread -> {"script", "load", "swap", "spawn", "erase"}]
    BY <1>3 DEF DestroyClear, Goto, TypeOK
  <2>5. QED
    BY <1>3, <2>2, <2>3, <2>4 DEF DestroyClear, TypeOK, mint, log
<1>4. CASE Erase(t) /\ channels[mutex] \in Chan
  <2>1. alive' \in SUBSET Chan /\ queue' \in [Chan -> Seq(Block)]
    <3>1. CASE Delete(channels[mutex])
      BY <1>4, <3>1, DeleteType
    <3>2. CASE UNCHANGED <<alive, queue>>
      BY <3>2 DEF TypeOK
    <3>3. QED
      BY <1>4, <3>1, <3>2 DEF Erase
  <2>2. /\ at' \in [Thread -> {"script", "load", "swap", "spawn", "erase"}]
        /\ channels' \in [Name -> Chan \cup {Null}] /\ mutex' \in Name \cup {Null}
    BY <1>4 DEF Erase, Goto, TypeOK
  <2>3. QED
    BY <1>4, <2>1, <2>2 DEF Erase, TypeOK, mint, log
<1>5. QED
  BY <1>1, <1>2, <1>3, <1>4 DEF Registry

LEMMA ChannelsTypeOK ==
    ASSUME TypeOK, NEW t \in Thread, Channels(t)
    PROVE  TypeOK'
<1>1. ASSUME NEW c \in Chan, Push(t, c)
      PROVE  TypeOK'
  <2>1. PICK b \in Block \ live :
            /\ live' = live \cup {b} /\ queue' = [queue EXCEPT ![c] = Append(@, b)]
            /\ late' = IF c \in cleared THEN late \cup {b} ELSE late
    BY <1>1 DEF Push
  <2>2. Append(queue[c], b) \in Seq(Block)
    BY AppendFacts DEF TypeOK
  <2>3. queue' \in [Chan -> Seq(Block)]
    BY <2>1, <2>2 DEF TypeOK
  <2>4. QED
    BY <1>1, <2>1, <2>3 DEF Push, TypeOK, mint, log, registry
<1>2. ASSUME NEW c \in Chan, Pop(t, c)
      PROVE  TypeOK'
  <2>1. Tail(queue[c]) \in Seq(Block)
    BY <1>2, TailFacts DEF Pop, TypeOK
  <2>2. queue' \in [Chan -> Seq(Block)]
    BY <1>2, <2>1 DEF Pop, TypeOK
  <2>3. QED
    BY <1>2, <2>2 DEF Pop, TypeOK, mint, log, registry
<1>3. ASSUME NEW c \in Chan, Collect(t, c)
      PROVE  TypeOK'
  <2>1. alive' \in SUBSET Chan /\ queue' \in [Chan -> Seq(Block)]
    <3>1. CASE Delete(c)
      BY <3>1, DeleteType
    <3>2. CASE UNCHANGED <<alive, queue>>
      BY <3>2 DEF TypeOK
    <3>3. QED
      BY <1>3, <3>1, <3>2 DEF Collect
  <2>2. boxes' \in [Thread -> SUBSET Chan]
    BY <1>3 DEF Collect, TypeOK
  <2>3. QED
    BY <1>3, <2>1, <2>2 DEF Collect, TypeOK, mint, log, registry
<1>4. QED
  BY <1>1, <1>2, <1>3 DEF Channels

LEMMA ChanSeated ==
    ASSUME TypeOK, Seated, NEW t \in Thread, ChanStep(t)
    PROVE  Seated' /\ UNCHANGED <<thr, params, mint, log>>
<1>1. UNCHANGED <<thr, params, mint, log>>
  BY DEF ChanStep, Registry, Channels, Create, Query, DestroyClear, Erase, Push, Pop, Collect
<1>2. CASE at' = at
  BY <1>1, <1>2 DEF Seated
<1>3. CASE Scripted(t) /\ Goto(t, "erase")
  BY <1>1, <1>3, ConstantFacts DEF Seated, Scripted, Goto, TypeOK, Creating
<1>4. CASE at[t] = "erase" /\ Goto(t, "script")
  BY <1>1, <1>4 DEF Seated, Goto, TypeOK, Creating
<1>5. QED
  BY <1>1, <1>2, <1>3, <1>4
     DEF ChanStep, Registry, Channels, Create, Query, DestroyClear, Erase, Push, Pop, Collect

-------------------------------------------------------------------------------
(* Thread ids                                                              *)

LEMMA IdsFrame ==
    ASSUME IdsOK, UNCHANGED <<g_thread_id, id>>, Started' = Started, Minting' \subseteq Minting,
           \A t \in Minting' : new'[t] = new[t]
    PROVE  IdsOK'
BY DEF IdsOK, DistinctIds

LEMMA SwapIdIds ==
    ASSUME TypeOK, IdsOK, NEW t \in Thread, SwapId(t)
    PROVE  IdsOK'
<1>1. Started' = Started /\ id' = id
  BY DEF SwapId, Started
<1>2. CASE g_thread_id = new[t]
  <2>1. /\ g_thread_id' = new[t] + 1 /\ new' = [new EXCEPT ![t] = @ + 1]
        /\ at' = [at EXCEPT ![t] = "spawn"]
    BY <1>2 DEF SwapId, Goto
  <2>2. Minting' = Minting \cup {t}
    BY <2>1 DEF Minting, TypeOK
  <2>3. t \notin Minting /\ Minting \subseteq Thread /\ Started \subseteq Thread
    BY DEF SwapId, Minting, Started
  <2>4. /\ new'[t] = g_thread_id + 1 /\ g_thread_id' = g_thread_id + 1
        /\ \A u \in Minting : new'[u] = new[u]
        /\ g_thread_id \in Nat /\ \A u \in Thread : new[u] \in Int /\ id[u] \in Int
    BY <1>2, <2>1, <2>3 DEF TypeOK
  <2>5. /\ \A u \in Started : id[u] < g_thread_id + 1
        /\ \A u \in Minting : new[u] < g_thread_id + 1
    BY <2>3, <2>4 DEF IdsOK
  <2>6. /\ \A u \in Started : id'[u] <= g_thread_id'
        /\ \A u \in Minting' : new'[u] <= g_thread_id'
    BY <1>1, <2>2, <2>3, <2>4, <2>5
  <2>7. DistinctIds'
    <3>1. \A u, v \in Minting' : new'[u] = new'[v] => u = v
      BY <2>2, <2>3, <2>4, <2>5 DEF IdsOK, DistinctIds
    <3>2. \A u \in Minting', v \in Started' : new'[u] # id'[v]
      BY <1>1, <2>2, <2>3, <2>4, <2>5 DEF IdsOK, DistinctIds
    <3>3. QED
      BY <1>1, <3>1, <3>2 DEF IdsOK, DistinctIds
  <2>8. QED
    BY <1>1, <2>6, <2>7 DEF IdsOK
<1>3. CASE g_thread_id # new[t]
  <2>1. UNCHANGED <<g_thread_id, new>> /\ at' = [at EXCEPT ![t] = "load"]
    BY <1>3 DEF SwapId, Goto
  <2>2. Minting' \subseteq Minting
    BY <2>1 DEF Minting, TypeOK
  <2>3. QED
    BY <1>1, <2>1, <2>2, IdsFrame
<1>4. QED
  BY <1>2, <1>3

LEMMA SpawnIds ==
    ASSUME TypeOK, IdsOK, NEW t \in Thread, Spawn(t)
    PROVE  IdsOK'
<1>1. PICK w \in Worker : thr[w] = "none" /\ Becomes(w, "born") /\ id' = [id EXCEPT ![w] = new[t]]
  BY DEF Spawn
<1>2. w \in Thread /\ w # Main /\ Main \in Thread
  BY ConstantFacts
<1>3. at[t] = "spawn" /\ at' = [at EXCEPT ![t] = "script"] /\ UNCHANGED <<g_thread_id, new>>
  BY DEF Spawn, Goto
<1>4. Started' = Started \cup {w} /\ w \notin Started /\ Started \subseteq Thread
  BY <1>1, <1>2 DEF Started, Becomes, TypeOK
<1>5. Minting' = Minting \ {t} /\ t \in Minting
  BY <1>3 DEF Minting, TypeOK
<1>6. id'[w] = new[t] /\ \A u \in Started : id'[u] = id[u]
  BY <1>1, <1>2, <1>4 DEF TypeOK
<1>7. /\ \A u \in Started' : id'[u] <= g_thread_id'
      /\ \A u \in Minting' : new'[u] <= g_thread_id'
  BY <1>3, <1>4, <1>5, <1>6 DEF IdsOK
<1>8. id'[Main] = 0
  BY <1>1, <1>2 DEF IdsOK, DistinctIds, TypeOK
<1>9. DistinctIds'
  BY <1>3, <1>4, <1>5, <1>6, <1>8 DEF IdsOK, DistinctIds
<1>10. QED
  BY <1>7, <1>9 DEF IdsOK

LEMMA NextIds == TypeOK /\ Seated /\ IdsOK /\ [Next]_vars => IdsOK'
<1> SUFFICES ASSUME TypeOK, Seated, IdsOK, [Next]_vars
             PROVE  IdsOK'
  OBVIOUS
<1>1. ASSUME NEW t \in Thread, CreatePack(t) \/ LoadId(t) \/ SpawnFails(t)
      PROVE  IdsOK'
  <2>1. UNCHANGED <<thr, g_thread_id, id>> /\ \E l \in {"load", "swap", "script"} : Goto(t, l)
    BY <1>1 DEF CreatePack, LoadId, SpawnFails, mint
  <2>2. Started' = Started
    BY <2>1 DEF Started
  <2>3. Minting' \subseteq Minting \ {t}
    BY <2>1 DEF Minting, Goto, TypeOK
  <2>4. \A u \in Minting' : new'[u] = new[u]
    BY <1>1, <2>3 DEF CreatePack, LoadId, SpawnFails, mint, TypeOK, Minting
  <2>5. QED
    BY <2>1, <2>2, <2>3, <2>4, IdsFrame
<1>2. ASSUME NEW t \in Thread, SwapId(t) \/ Spawn(t)
      PROVE  IdsOK'
  BY <1>2, SwapIdIds, SpawnIds
<1>3. ASSUME NEW t \in Thread, ChanStep(t)
      PROVE  IdsOK'
  <2>1. UNCHANGED <<thr, mint>>
    BY <1>3, ChanSeated
  <2>2. Minting' \subseteq Minting
    BY <1>3 DEF ChanStep, Registry, Channels, Create, Query, DestroyClear, Erase, Push, Pop,
                Collect, Minting, Goto, TypeOK
  <2>3. QED
    BY <2>1, <2>2, IdsFrame DEF mint, Started
<1>4. ASSUME NEW t \in Thread,
             Life(t) \/ ScriptReturns(t) \/ ScriptRaises(t) \/ Wait(t) \/ ErrLog(t)
      PROVE  IdsOK'
  <2>1. UNCHANGED <<at, mint>>
    BY <1>4 DEF Life, Load, LoadFails, LogError, Exit, ScriptReturns, ScriptRaises, Wait, ErrLog
  <2>2. Started' = Started
    BY <1>4 DEF Life, Load, LoadFails, LogError, Exit, ScriptReturns, ScriptRaises, Wait, ErrLog,
                Started, Becomes, TypeOK, Scripted
  <2>3. QED
    BY <2>1, <2>2, IdsFrame DEF mint, Minting
<1>5. CASE UNCHANGED vars
  BY <1>5, IdsFrame DEF vars, mint, Started, Minting
<1>6. QED
  BY <1>1, <1>2, <1>3, <1>4, <1>5 DEF Next, Creation, Script, ChanStep

-------------------------------------------------------------------------------
(* The log of errors                                                       *)

LEMMA LogFrame ==
    ASSUME LogOK, UNCHANGED <<thr, log>>,
           \A w \in Worker : thr[w] \in {"done", "joined"} => boxes'[w] = boxes[w]
    PROVE  LogOK'
BY DEF LogOK, InLog, log

LEMMA LogErrorLog ==
    ASSUME TypeOK, Seated, LogOK, NEW t \in Thread, LogError(t)
    PROVE  LogOK'
<1>1. /\ thr[t] = "failing" /\ thr' = [thr EXCEPT ![t] = "closing"]
      /\ g_errlog' = Append(g_errlog, t) /\ UNCHANGED <<boxes, failed, read>>
  BY DEF LogError, Becomes, chan
<1>2. t \in Worker
  BY <1>1, ConstantFacts DEF Seated
<1>3. /\ \A i \in DOMAIN g_errlog : i \in DOMAIN g_errlog' /\ g_errlog'[i] = g_errlog[i]
      /\ \E i \in DOMAIN g_errlog' : g_errlog'[i] = t
  <2>1. g_errlog \in Seq(Worker)
    BY DEF TypeOK
  <2>2. LET s == Append(g_errlog, t)
        IN  /\ \A i \in DOMAIN g_errlog : i \in DOMAIN s /\ s[i] = g_errlog[i]
            /\ Len(g_errlog) + 1 \in DOMAIN s /\ s[Len(g_errlog) + 1] = t
    BY <1>2, <2>1, AppendFacts
  <2>3. QED
    BY <1>1, <2>2
<1>4. InLog(t)' /\ \A w : InLog(w) => InLog(w)'
  BY <1>3 DEF InLog
<1>5. \A w \in Worker : w \in Thread
  BY ConstantFacts
<1>6. \A w \in Worker : thr'[w] = IF w = t THEN "closing" ELSE thr[w]
  BY <1>1, <1>5 DEF TypeOK
<1>7. QED
  BY <1>1, <1>4, <1>6 DEF LogOK

LEMMA ErrLogLog ==
    ASSUME TypeOK, LogOK, NEW t \in Thread, ErrLog(t)
    PROVE  LogOK'
<1>1. /\ g_errlog # <<>> /\ read' = read \cup {Head(g_errlog)} /\ g_errlog' = Tail(g_errlog)
      /\ UNCHANGED <<thr, boxes, failed>>
  BY DEF ErrLog, chan
<1>2. \A i \in DOMAIN g_errlog :
          \/ g_errlog[i] = Head(g_errlog)
          \/ \E j \in DOMAIN g_errlog' : g_errlog'[j] = g_errlog[i]
  BY <1>1, TailFacts DEF TypeOK
<1>3. \A w : InLog(w) => InLog(w)' \/ w \in read'
  BY <1>1, <1>2 DEF InLog
<1>4. QED
  BY <1>1, <1>3 DEF LogOK

LEMMA NextLog == TypeOK /\ Seated /\ LogOK /\ [Next]_vars => LogOK'
<1> SUFFICES ASSUME TypeOK, Seated, LogOK, [Next]_vars
             PROVE  LogOK'
  OBVIOUS
<1>0. \A w \in Worker : w \in Thread
  BY ConstantFacts
<1>1. ASSUME NEW t \in Thread, CreatePack(t) \/ LoadId(t) \/ SwapId(t) \/ SpawnFails(t)
      PROVE  LogOK'
  BY <1>1, LogFrame DEF CreatePack, LoadId, SwapId, SpawnFails, chan
<1>2. ASSUME NEW t \in Thread, Spawn(t)
      PROVE  LogOK'
  <2>1. PICK w \in Worker : thr[w] = "none" /\ Becomes(w, "born")
    BY <1>2 DEF Spawn
  <2>2. UNCHANGED <<log, boxes>> /\ \A v \in Worker : thr'[v] = IF v = w THEN "born" ELSE thr[v]
    BY <1>0, <1>2, <2>1 DEF Spawn, Becomes, TypeOK, chan
  <2>3. QED
    BY <2>1, <2>2 DEF LogOK, InLog, log
<1>3. ASSUME NEW t \in Thread, Load(t) \/ Exit(t) \/ ScriptReturns(t)
      PROVE  LogOK'
  <2>1. /\ UNCHANGED <<log, boxes>>
        /\ \/ thr[t] = "born" /\ Becomes(t, "running")
           \/ thr[t] = "closing" /\ boxes[t] = {} /\ Becomes(t, "done")
           \/ thr[t] = "running" /\ Becomes(t, "closing")
    BY <1>3 DEF Load, Exit, ScriptReturns, Scripted, chan
  <2>2. \A v \in Worker : v # t => thr'[v] = thr[v]
    BY <1>0, <2>1 DEF Becomes, TypeOK
  <2>3. \/ thr[t] = "born" /\ thr'[t] = "running"
        \/ thr[t] = "closing" /\ boxes[t] = {} /\ thr'[t] = "done"
        \/ thr[t] = "running" /\ thr'[t] = "closing"
    BY <2>1 DEF Becomes, TypeOK
  <2>4. QED
    BY <2>1, <2>2, <2>3 DEF LogOK, InLog, log
<1>4. ASSUME NEW t \in Thread, LoadFails(t) \/ ScriptRaises(t)
      PROVE  LogOK'
  <2>1. /\ UNCHANGED <<g_errlog, read, boxes>> /\ failed' = failed \cup {t}
        /\ Becomes(t, "failing")
    BY <1>4 DEF LoadFails, ScriptRaises, chan
  <2>2. \A v \in Worker : thr'[v] = IF v = t THEN "failing" ELSE thr[v]
    BY <1>0, <2>1 DEF Becomes, TypeOK
  <2>3. QED
    BY <2>1, <2>2 DEF LogOK, InLog
<1>5. ASSUME NEW t \in Thread, Wait(t)
      PROVE  LogOK'
  <2>1. PICK w \in Worker : thr[w] = "done" /\ Becomes(w, "joined")
    BY <1>5 DEF Wait
  <2>2. UNCHANGED <<log, boxes>> /\ \A v \in Worker : thr'[v] = IF v = w THEN "joined" ELSE thr[v]
    BY <1>0, <1>5, <2>1 DEF Wait, Becomes, TypeOK, chan
  <2>3. QED
    BY <2>1, <2>2 DEF LogOK, InLog, log
<1>6. ASSUME NEW t \in Thread, ChanStep(t)
      PROVE  LogOK'
  <2>1. UNCHANGED <<thr, log>>
    BY <1>6, ChanSeated
  <2>2. boxes' = boxes \/ (thr[t] \in {"running", "closing"} /\ \E S : boxes' = [boxes EXCEPT ![t] = S])
    BY <1>6 DEF ChanStep, Registry, Channels, Create, Query, DestroyClear, Erase, Push, Pop,
                Collect, Scripted
  <2>3. \A w \in Worker : thr[w] \in {"done", "joined"} => boxes'[w] = boxes[w]
    BY <1>0, <2>2 DEF TypeOK
  <2>4. QED
    BY <2>1, <2>3, LogFrame
<1>7. CASE UNCHANGED vars
  BY <1>7, LogFrame DEF vars, chan
<1>8. QED
  BY <1>1, <1>2, <1>3, <1>4, <1>5, <1>6, <1>7, LogErrorLog, ErrLogLog
     DEF Next, Creation, Life, Script, ChanStep

-------------------------------------------------------------------------------
(* The lives of the channel objects                                        *)

LEMMA ChanFrame ==
    ASSUME ChanOK, UNCHANGED <<alive, boxes, cleared, registry>>,
           \A t \in Thread : at'[t] = "erase" <=> at[t] = "erase"
    PROVE  ChanOK'
BY DEF ChanOK, Boxed, Named, registry

(* No channel that has a name was emptied, outside a destroy.              *)
LEMMA ErasedIs ==
    ASSUME TypeOK, ChanOK, NEW t \in Thread, at[t] = "erase"
    PROVE  /\ mutex \in Name /\ channels[mutex] \in Chan /\ channels[mutex] \in cleared
           /\ channels[mutex] \in alive
           /\ \A n \in Name : channels[n] = channels[mutex] => n = mutex
<1>1. mutex \in Name
  BY DEF ChanOK, TypeOK
<1>2. channels[mutex] \in Chan /\ channels[mutex] \in cleared
  BY <1>1, ConstantFacts DEF ChanOK, TypeOK
<1>3. Named(channels[mutex])
  BY <1>1 DEF Named
<1>4. QED
  BY <1>1, <1>2, <1>3, ConstantFacts DEF ChanOK

LEMMA CreateChan ==
    ASSUME TypeOK, ChanOK, NEW t \in Thread, NEW n \in Name, Create(t, n)
    PROVE  ChanOK'
<1>1. PICK c \in Chan \ alive :
          /\ alive' = alive \cup {c} /\ cleared' = cleared \ {c}
          /\ channels' = [channels EXCEPT ![n] = c]
          /\ boxes' = [boxes EXCEPT ![t] = @ \cup {c}]
  BY DEF Create
<1>2. mutex = Null /\ mutex' = mutex /\ at' = at /\ channels[n] = Null
  BY DEF Create
<1>3. \A d \in Chan : Boxed(d)' <=> Boxed(d) \/ d = c
  BY <1>1 DEF Boxed, TypeOK
<1>4. \A m \in Name : channels'[m] = IF m = n THEN c ELSE channels[m]
  BY <1>1 DEF TypeOK
<1>5. \A d \in Chan : Named(d)' <=> Named(d) \/ d = c
  BY <1>2, <1>4, ConstantFacts DEF Named
<1>6. ~Named(c)
  BY <1>1 DEF ChanOK
<1>7. \A m1, m2 \in Name : channels'[m1] = channels'[m2] /\ channels'[m1] # Null => m1 = m2
  BY <1>4, <1>6 DEF ChanOK, Named
<1>8. \A d \in alive' : Named(d)' \/ d \in cleared'
  BY <1>1, <1>5 DEF ChanOK, TypeOK
<1>9. QED
  BY <1>1, <1>2, <1>3, <1>5, <1>7, <1>8 DEF ChanOK

LEMMA QueryChan ==
    ASSUME TypeOK, ChanOK, NEW t \in Thread, NEW n \in Name, Query(t, n)
    PROVE  ChanOK'
<1>1. /\ boxes' = [boxes EXCEPT ![t] = @ \cup {channels[n]}] /\ channels[n] # Null
      /\ UNCHANGED <<at, alive, cleared, registry>>
  BY DEF Query
<1>2. channels[n] \in Chan /\ Named(channels[n])
  BY <1>1 DEF TypeOK, Named
<1>3. \A d \in Chan : Boxed(d)' <=> Boxed(d) \/ d = channels[n]
  BY <1>1 DEF Boxed, TypeOK
<1>4. \A d : Named(d)' <=> Named(d)
  BY <1>1 DEF Named, registry
<1>5. QED
  BY <1>1, <1>2, <1>3, <1>4 DEF ChanOK, registry

LEMMA DestroyClearChan ==
    ASSUME TypeOK, ChanOK, NEW t \in Thread, NEW n \in Name, DestroyClear(t, n)
    PROVE  ChanOK'
<1>1. /\ mutex = Null /\ mutex' = n /\ channels[n] # Null
      /\ cleared' = cleared \cup {channels[n]} /\ at' = [at EXCEPT ![t] = "erase"]
      /\ UNCHANGED <<alive, boxes, channels>>
  BY DEF DestroyClear, Goto
<1>2. \A u \in Thread : at'[u] = "erase" <=> u = t
  BY <1>1 DEF ChanOK, TypeOK
<1>3. \A d : (Named(d)' <=> Named(d)) /\ (Boxed(d)' <=> Boxed(d))
  BY <1>1 DEF Named, Boxed
<1>4. n # Null
  BY ConstantFacts
<1>5. QED
  BY <1>1, <1>2, <1>3, <1>4 DEF ChanOK

LEMMA EraseChan ==
    ASSUME TypeOK, ChanOK, NEW t \in Thread, Erase(t)
    PROVE  ChanOK'
<1> DEFINE c == channels[mutex]
<1>1. /\ at[t] = "erase" /\ at' = [at EXCEPT ![t] = "script"] /\ mutex' = Null
      /\ channels' = [channels EXCEPT ![mutex] = Null] /\ UNCHANGED <<boxes, cleared>>
      /\ alive' = IF Boxed(c) THEN alive ELSE alive \ {c}
  BY DEF Erase, Goto, Delete
<1>2. /\ mutex \in Name /\ c \in Chan /\ c \in cleared
      /\ \A n \in Name : channels[n] = c => n = mutex
  BY <1>1, ErasedIs
<1>3. \A u \in Thread : at'[u] # "erase"
  BY <1>1 DEF ChanOK, TypeOK
<1>4. \A n \in Name : channels'[n] = IF n = mutex THEN Null ELSE channels[n]
  BY <1>1 DEF TypeOK
<1>5. \A d \in Chan : Named(d)' <=> Named(d) /\ d # c
  BY <1>2, <1>4, ConstantFacts DEF Named
<1>6. \A d : Boxed(d)' <=> Boxed(d)
  BY <1>1 DEF Boxed
<1>7. \A d \in Chan : d \in alive' <=> Boxed(d)' \/ Named(d)'
  <2> HIDE DEF c
  <2>1. QED
    BY <1>1, <1>5, <1>6 DEF ChanOK
<1>8. \A d \in alive' : Named(d)' \/ d \in cleared'
  <2> HIDE DEF c
  <2>1. QED
    BY <1>1, <1>2, <1>5 DEF ChanOK, TypeOK
<1>9. \A n, m \in Name : channels'[n] = channels'[m] /\ channels'[n] # Null => n = m
  BY <1>4 DEF ChanOK
<1>10. QED
  BY <1>1, <1>3, <1>7, <1>8, <1>9 DEF ChanOK

LEMMA CollectChan ==
    ASSUME TypeOK, ChanOK, NEW t \in Thread, NEW c \in Chan, Collect(t, c)
    PROVE  ChanOK'
<1>1. /\ boxes' = [boxes EXCEPT ![t] = @ \ {c}]
      /\ UNCHANGED <<at, cleared, registry>>
      /\ alive' = IF (\E u \in Thread \ {t} : c \in boxes[u]) \/ Named(c)
                  THEN alive ELSE alive \ {c}
  BY DEF Collect, Delete, Named
<1>2. /\ \A d \in Chan : d # c => (Boxed(d)' <=> Boxed(d))
      /\ Boxed(c)' <=> \E u \in Thread \ {t} : c \in boxes[u]
  BY <1>1 DEF Boxed, TypeOK
<1>3. \A d : Named(d)' <=> Named(d)
  BY <1>1 DEF Named, registry
<1>4. Boxed(c)
  BY DEF Collect, Boxed
<1>5. \A d \in Chan : d \in alive' <=> Boxed(d)' \/ Named(d)'
  BY <1>1, <1>2, <1>3, <1>4 DEF ChanOK
<1>6. alive' \subseteq alive
  BY <1>1
<1>7. QED
  BY <1>1, <1>3, <1>5, <1>6 DEF ChanOK, registry

LEMMA NextChan == TypeOK /\ Seated /\ ChanOK /\ [Next]_vars => ChanOK'
<1> SUFFICES ASSUME TypeOK, Seated, ChanOK, [Next]_vars
             PROVE  ChanOK'
  OBVIOUS
<1>1. ASSUME NEW t \in Thread, CreatePack(t) \/ Creation(t)
      PROVE  ChanOK'
  <2>1. at[t] # "erase" /\ \E l \in {"load", "swap", "spawn", "script"} : Goto(t, l)
    BY <1>1 DEF CreatePack, Creation, LoadId, SwapId, Spawn, SpawnFails, Scripted
  <2>2. \A u \in Thread : at'[u] = "erase" <=> at[u] = "erase"
    BY <2>1 DEF Goto, TypeOK
  <2>3. UNCHANGED <<chan, registry>>
    BY <1>1 DEF CreatePack, Creation, LoadId, SwapId, Spawn, SpawnFails
  <2>4. QED
    BY <2>2, <2>3, ChanFrame DEF chan
<1>2. ASSUME NEW t \in Thread,
             Life(t) \/ ScriptReturns(t) \/ ScriptRaises(t) \/ Wait(t) \/ ErrLog(t)
      PROVE  ChanOK'
  <2>1. UNCHANGED <<at, chan, registry>>
    BY <1>2 DEF Life, Load, LoadFails, LogError, Exit, ScriptReturns, ScriptRaises, Wait, ErrLog
  <2>2. QED
    BY <2>1, ChanFrame DEF chan
<1>3. ASSUME NEW t \in Thread, NEW n \in Name, Create(t, n) \/ Query(t, n) \/ DestroyClear(t, n)
      PROVE  ChanOK'
  BY <1>3, CreateChan, QueryChan, DestroyClearChan
<1>4. ASSUME NEW t \in Thread, NEW c \in Chan, Push(t, c) \/ Pop(t, c)
      PROVE  ChanOK'
  BY <1>4, ChanFrame DEF Push, Pop
<1>5. CASE UNCHANGED vars
  BY <1>5, ChanFrame DEF vars, chan
<1>6. QED
  BY <1>1, <1>2, <1>3, <1>4, <1>5, EraseChan, CollectChan
     DEF Next, Script, Registry, Channels

-------------------------------------------------------------------------------
(* The owners of the blocks                                                *)

LEMMA BlockFrame ==
    ASSUME BlockOK, UNCHANGED <<params, live, queue, late>>, cleared' \subseteq cleared
    PROVE  BlockOK'
BY DEF BlockOK, OwnedOnce, NoneLost, InParams, InQueue

(* Arguments that are freed: nobody else had them.                         *)
LEMMA FreeBlock ==
    ASSUME TypeOK, BlockOK, NEW t \in Thread,
           live' = live \ {params[t]}, params' = [params EXCEPT ![t] = Null],
           UNCHANGED <<queue, cleared, late>>
    PROVE  BlockOK'
<1>1. \A u \in Thread : params'[u] = IF u = t THEN Null ELSE params[u]
  BY DEF TypeOK
<1>2. Null \notin Block /\ live \subseteq Block
  BY ConstantFacts DEF TypeOK
<1>3. OwnedOnce'
  <2>1. \A u \in Thread : params'[u] # Null => params'[u] \in live'
    BY <1>1 DEF BlockOK, OwnedOnce
  <2>2. \A c \in Chan : \A i \in DOMAIN queue[c] : queue[c][i] \in live'
    BY DEF BlockOK, OwnedOnce
  <2>3. \A u \in Thread, c \in Chan : \A i \in DOMAIN queue[c] : queue[c][i] # params'[u]
    BY <1>1, <1>2 DEF BlockOK, OwnedOnce
  <2>4. QED
    BY <1>1, <2>1, <2>2, <2>3 DEF BlockOK, OwnedOnce
<1>4. NoneLost'
  <2>1. \A b \in live' : InParams(b) => InParams(b)'
    BY <1>1 DEF InParams
  <2>2. \A b : InQueue(b) => InQueue(b)'
    BY DEF InQueue
  <2>3. QED
    BY <2>1, <2>2 DEF BlockOK, NoneLost
<1>5. QED
  BY <1>3, <1>4 DEF BlockOK

LEMMA CreatePackBlock ==
    ASSUME TypeOK, Seated, BlockOK, NEW t \in Thread, CreatePack(t)
    PROVE  BlockOK'
<1>1. PICK b \in Block \ live : live' = live \cup {b} /\ params' = [params EXCEPT ![t] = b]
  BY DEF CreatePack
<1>2. UNCHANGED <<queue, cleared, late>> /\ params[t] = Null
  BY DEF CreatePack, Scripted, Seated, Creating, chan
<1>3. \A u \in Thread : params'[u] = IF u = t THEN b ELSE params[u]
  BY <1>1 DEF TypeOK
<1>4. Null \notin Block /\ live \subseteq Block
  BY ConstantFacts DEF TypeOK
<1>5. OwnedOnce'
  <2>1. \A u \in Thread : params'[u] # Null => params'[u] \in live'
    BY <1>1, <1>3 DEF BlockOK, OwnedOnce
  <2>2. \A u, v \in Thread : params'[u] = params'[v] /\ params'[u] # Null => u = v
    BY <1>1, <1>3 DEF BlockOK, OwnedOnce
  <2>3. \A u \in Thread, c \in Chan : \A i \in DOMAIN queue[c] : queue[c][i] # params'[u]
    BY <1>1, <1>3 DEF BlockOK, OwnedOnce
  <2>4. QED
    BY <1>1, <1>2, <2>1, <2>2, <2>3 DEF BlockOK, OwnedOnce
<1>6. NoneLost'
  <2>1. \A a \in live : InParams(a) => InParams(a)'
    BY <1>2, <1>3, <1>4 DEF InParams
  <2>2. InParams(b)'
    BY <1>3 DEF InParams
  <2>3. \A a : InQueue(a) => InQueue(a)'
    BY <1>2 DEF InQueue
  <2>4. QED
    BY <1>1, <1>2, <2>1, <2>2, <2>3 DEF BlockOK, NoneLost
<1>7. QED
  BY <1>5, <1>6 DEF BlockOK

LEMMA SpawnBlock ==
    ASSUME TypeOK, Seated, BlockOK, NEW t \in Thread, Spawn(t)
    PROVE  BlockOK'
<1>1. PICK w \in Worker : /\ thr[w] = "none"
                          /\ params' = [params EXCEPT ![w] = params[t], ![t] = Null]
  BY DEF Spawn
<1>2. w \in Thread /\ params[w] = Null /\ w # t
  BY <1>1, ConstantFacts DEF Spawn, Seated
<1>3. UNCHANGED <<live, queue, cleared, late>>
  BY DEF Spawn, chan
<1>4. \A u \in Thread : params'[u] = IF u = t THEN Null ELSE IF u = w THEN params[t] ELSE params[u]
  BY <1>1, <1>2 DEF TypeOK
<1>5. Null \notin Block /\ live \subseteq Block
  BY ConstantFacts DEF TypeOK
<1>6. OwnedOnce'
  <2>1. \A u \in Thread : params'[u] # Null => params'[u] \in live'
    BY <1>3, <1>4 DEF BlockOK, OwnedOnce
  <2>2. \A u, v \in Thread : params'[u] = params'[v] /\ params'[u] # Null => u = v
    BY <1>2, <1>4 DEF BlockOK, OwnedOnce
  <2>3. \A u \in Thread, c \in Chan : \A i \in DOMAIN queue[c] : queue[c][i] # params'[u]
    BY <1>2, <1>4, <1>5 DEF BlockOK, OwnedOnce
  <2>4. QED
    BY <1>3, <2>1, <2>2, <2>3 DEF BlockOK, OwnedOnce
<1>7. NoneLost'
  <2>1. \A a \in live : InParams(a) => InParams(a)'
    BY <1>2, <1>4, <1>5 DEF InParams
  <2>2. \A a : InQueue(a) => InQueue(a)'
    BY <1>3 DEF InQueue
  <2>3. QED
    BY <1>3, <2>1, <2>2 DEF BlockOK, NoneLost
<1>8. QED
  BY <1>6, <1>7 DEF BlockOK

(* A queue that is dropped: its blocks were freed, or had come late.       *)
LEMMA DropBlock ==
    ASSUME TypeOK, BlockOK, NEW c \in Chan, queue' = [queue EXCEPT ![c] = <<>>],
           UNCHANGED <<params, late>>,
           live' = live \ {queue[c][i] : i \in DOMAIN queue[c]}
              \/ (live' = live /\ c \in cleared),
           cleared' \subseteq cleared \cup {c}
    PROVE  BlockOK'
<1>1. /\ \A d \in Chan : d # c => queue'[d] = queue[d]
      /\ DOMAIN queue'[c] = {}
  BY DEF TypeOK
<1>2. ASSUME NEW d \in Chan, NEW i \in DOMAIN queue'[d]
      PROVE  d # c /\ i \in DOMAIN queue[d] /\ queue'[d][i] = queue[d][i] /\ queue[d][i] \in live'
  <2>1. d # c /\ i \in DOMAIN queue[d] /\ queue'[d][i] = queue[d][i]
    BY <1>1, <1>2
  <2>2. queue[d][i] \in live /\ \A j \in DOMAIN queue[c] : queue[c][j] # queue[d][i]
    BY <2>1 DEF BlockOK, OwnedOnce
  <2>3. QED
    BY <2>1, <2>2
<1>3. \A t \in Thread : params[t] # Null => params[t] \in live'
  BY DEF BlockOK, OwnedOnce
<1>4. OwnedOnce'
  <2>1. \A d \in Chan : \A i \in DOMAIN queue'[d] : queue'[d][i] \in live'
    BY <1>2
  <2>2. \A d, e \in Chan : \A i \in DOMAIN queue'[d], j \in DOMAIN queue'[e] :
            queue'[d][i] = queue'[e][j] => d = e /\ i = j
    BY <1>2 DEF BlockOK, OwnedOnce
  <2>3. \A t \in Thread, d \in Chan : \A i \in DOMAIN queue'[d] : queue'[d][i] # params[t]
    BY <1>2 DEF BlockOK, OwnedOnce
  <2>4. QED
    BY <1>3, <2>1, <2>2, <2>3 DEF BlockOK, OwnedOnce
<1>5. NoneLost'
  <2>1. \A b \in live' : InQueue(b) => InQueue(b)' \/ b \in late
    <3>1. ASSUME NEW b \in live', NEW d \in Chan, NEW i \in DOMAIN queue[d], queue[d][i] = b
          PROVE  InQueue(b)' \/ b \in late
      <4>1. CASE d # c
        BY <1>1, <3>1, <4>1 DEF InQueue
      <4>2. CASE d = c
        BY <3>1, <4>2 DEF BlockOK, NoneLost
      <4>3. QED
        BY <4>1, <4>2
    <3>2. QED
      BY <3>1 DEF InQueue
  <2>2. live' \subseteq live
    OBVIOUS
  <2>3. \A d \in cleared' : \A i \in DOMAIN queue'[d] : d \in Chan => queue'[d][i] \in late
    BY <1>2 DEF BlockOK, NoneLost
  <2>4. \A b : InParams(b)' <=> InParams(b)
    BY DEF InParams
  <2>5. cleared' \subseteq Chan
    BY DEF TypeOK
  <2>6. QED
    BY <2>1, <2>2, <2>3, <2>4, <2>5 DEF BlockOK, NoneLost
<1>6. QED
  BY <1>4, <1>5 DEF BlockOK

LEMMA PushBlock ==
    ASSUME TypeOK, BlockOK, NEW t \in Thread, NEW c \in Chan, Push(t, c)
    PROVE  BlockOK'
<1>1. PICK b \in Block \ live :
          /\ live' = live \cup {b} /\ queue' = [queue EXCEPT ![c] = Append(@, b)]
          /\ late' = IF c \in cleared THEN late \cup {b} ELSE late
  BY DEF Push
<1>2. UNCHANGED <<params, cleared>>
  BY DEF Push
<1> DEFINE last == Len(queue[c]) + 1
<1>3. queue'[c] = Append(queue[c], b) /\ \A d \in Chan : d # c => queue'[d] = queue[d]
  BY <1>1 DEF TypeOK
<1>4. queue[c] \in Seq(Block)
  BY DEF TypeOK
<1>5. /\ \A i \in DOMAIN queue'[c] : \/ i \in DOMAIN queue[c] /\ queue'[c][i] = queue[c][i]
                                     \/ i = last /\ queue'[c][i] = b
      /\ \A i \in DOMAIN queue[c] : i \in DOMAIN queue'[c] /\ queue'[c][i] = queue[c][i]
      /\ last \in DOMAIN queue'[c] /\ queue'[c][last] = b
  BY <1>3, <1>4, AppendFacts
<1> HIDE DEF last
<1>6. /\ \A d \in Chan : \A i \in DOMAIN queue'[d] :
             \/ i \in DOMAIN queue[d] /\ queue'[d][i] = queue[d][i]
             \/ d = c /\ i = last /\ queue'[d][i] = b
      /\ \A d \in Chan : \A i \in DOMAIN queue[d] :
             i \in DOMAIN queue'[d] /\ queue'[d][i] = queue[d][i]
  BY <1>3, <1>5
<1>7. \A d \in Chan : \A i \in DOMAIN queue[d] : queue[d][i] \in live /\ queue[d][i] # b
  BY DEF BlockOK, OwnedOnce
<1>8. \A u \in Thread : params[u] # b
  BY ConstantFacts DEF BlockOK, OwnedOnce
<1>9. OwnedOnce'
  <2>1. \A d \in Chan : \A i \in DOMAIN queue'[d] : queue'[d][i] \in live'
    BY <1>1, <1>6, <1>7
  <2>2. \A d, e \in Chan : \A i \in DOMAIN queue'[d], j \in DOMAIN queue'[e] :
            queue'[d][i] = queue'[e][j] => d = e /\ i = j
    BY <1>6, <1>7 DEF BlockOK, OwnedOnce
  <2>3. \A u \in Thread, d \in Chan : \A i \in DOMAIN queue'[d] : queue'[d][i] # params[u]
    BY <1>6, <1>8 DEF BlockOK, OwnedOnce
  <2>4. QED
    BY <1>1, <1>2, <2>1, <2>2, <2>3 DEF BlockOK, OwnedOnce
<1>10. NoneLost'
  <2>1. \A a : InQueue(a) => InQueue(a)'
    BY <1>6 DEF InQueue
  <2>2. InQueue(b)'
    BY <1>5 DEF InQueue
  <2>3. \A d \in cleared : \A i \in DOMAIN queue'[d] : queue'[d][i] \in late'
    <3>1. cleared \subseteq Chan
      BY DEF TypeOK
    <3>2. QED
      BY <1>1, <1>6, <3>1 DEF BlockOK, NoneLost
  <2>4. \A a : InParams(a)' <=> InParams(a)
    BY <1>2 DEF InParams
  <2>5. QED
    BY <1>1, <1>2, <2>1, <2>2, <2>3, <2>4 DEF BlockOK, NoneLost
<1>11. QED
  BY <1>9, <1>10 DEF BlockOK

LEMMA PopBlock ==
    ASSUME TypeOK, BlockOK, NEW t \in Thread, NEW c \in Chan, Pop(t, c)
    PROVE  BlockOK'
<1> DEFINE b == Head(queue[c])
<1>1. /\ queue[c] # <<>> /\ live' = live \ {b} /\ late' = late \ {b}
      /\ queue' = [queue EXCEPT ![c] = Tail(@)] /\ UNCHANGED <<params, cleared>>
  BY DEF Pop
<1>2. queue'[c] = Tail(queue[c]) /\ \A d \in Chan : d # c => queue'[d] = queue[d]
  BY <1>1 DEF TypeOK
<1>3. queue[c] \in Seq(Block)
  BY DEF TypeOK
<1>4. /\ b = queue[c][1] /\ 1 \in DOMAIN queue[c]
      /\ \A i \in DOMAIN queue'[c] :
            i + 1 \in DOMAIN queue[c] /\ queue'[c][i] = queue[c][i + 1] /\ i \in Nat
      /\ \A i \in DOMAIN queue[c] :
            i = 1 \/ (i - 1 \in DOMAIN queue'[c] /\ queue'[c][i - 1] = queue[c][i])
      /\ \A i \in DOMAIN queue'[c] : i + 1 # 1
  <2>1. /\ Head(queue[c]) = queue[c][1] /\ 1 \in DOMAIN queue[c]
        /\ \A i \in DOMAIN Tail(queue[c]) : /\ i + 1 \in DOMAIN queue[c] /\ i \in Nat
                                            /\ Tail(queue[c])[i] = queue[c][i + 1]
        /\ \A i \in DOMAIN queue[c] :
              i = 1 \/ (i - 1 \in DOMAIN Tail(queue[c]) /\ Tail(queue[c])[i - 1] = queue[c][i])
    BY <1>1, <1>3, TailFacts
  <2>2. DOMAIN Tail(queue[c]) = 1..(Len(queue[c]) - 1)
    <3>1. Tail(queue[c]) \in Seq(Block) /\ Len(Tail(queue[c])) = Len(queue[c]) - 1
      BY <1>1, <1>3, HeadTailProperties
    <3>2. QED
      BY <3>1, LenProperties
  <2>3. \A i \in DOMAIN Tail(queue[c]) : i + 1 # 1
    BY <2>2
  <2>4. QED
    BY <1>2, <2>1, <2>3
<1> HIDE DEF b
<1>5. ASSUME NEW d \in Chan, NEW i \in DOMAIN queue'[d]
      PROVE  /\ queue'[d][i] # b /\ queue'[d][i] \in live
             /\ \E k \in DOMAIN queue[d] : queue'[d][i] = queue[d][k]
             /\ d # c => i \in DOMAIN queue[d] /\ queue'[d][i] = queue[d][i]
  <2>1. CASE d # c
    <3>1. i \in DOMAIN queue[d] /\ queue'[d][i] = queue[d][i]
      BY <1>2, <2>1
    <3>2. queue[d][i] \in live /\ queue[d][i] # b
      BY <1>4, <2>1, <3>1 DEF BlockOK, OwnedOnce
    <3>3. QED
      BY <3>1, <3>2
  <2>2. CASE d = c
    <3>1. i + 1 \in DOMAIN queue[c] /\ queue'[c][i] = queue[c][i + 1] /\ i + 1 # 1
      BY <1>4, <2>2
    <3>2. queue[c][i + 1] \in live /\ queue[c][i + 1] # b
      BY <1>4, <3>1 DEF BlockOK, OwnedOnce
    <3>3. QED
      BY <2>2, <3>1, <3>2
  <2>3. QED
    BY <2>1, <2>2
<1>6. OwnedOnce'
  <2>1. \A d \in Chan : \A i \in DOMAIN queue'[d] : queue'[d][i] \in live'
    BY <1>1, <1>5
  <2>2. ASSUME NEW d \in Chan, NEW e \in Chan, NEW i \in DOMAIN queue'[d],
               NEW j \in DOMAIN queue'[e], queue'[d][i] = queue'[e][j]
        PROVE  d = e /\ i = j
    <3>1. d = e
      BY <1>5, <2>2 DEF BlockOK, OwnedOnce
    <3>2. CASE d # c
      BY <1>5, <2>2, <3>1, <3>2 DEF BlockOK, OwnedOnce
    <3>3. CASE d = c
      <4>1. /\ i \in Nat /\ j \in Nat /\ i + 1 \in DOMAIN queue[c] /\ j + 1 \in DOMAIN queue[c]
            /\ queue[c][i + 1] = queue[c][j + 1]
        BY <1>4, <2>2, <3>1, <3>3
      <4>2. i + 1 = j + 1
        BY <4>1 DEF BlockOK, OwnedOnce
      <4>3. QED
        BY <3>1, <4>1, <4>2
    <3>4. QED
      BY <3>1, <3>2, <3>3
  <2>3. \A u \in Thread, d \in Chan : \A i \in DOMAIN queue'[d] : queue'[d][i] # params[u]
    BY <1>5 DEF BlockOK, OwnedOnce
  <2>4. \A u \in Thread : params[u] # Null => params[u] \in live'
    BY <1>1, <1>4 DEF BlockOK, OwnedOnce
  <2>5. QED
    BY <1>1, <2>1, <2>2, <2>3, <2>4 DEF BlockOK, OwnedOnce
<1>7. NoneLost'
  <2>1. ASSUME NEW a \in live', InQueue(a)
        PROVE  InQueue(a)'
    <3>1. PICK d \in Chan : \E i \in DOMAIN queue[d] : queue[d][i] = a
      BY <2>1 DEF InQueue
    <3>2. PICK i \in DOMAIN queue[d] : queue[d][i] = a
      BY <3>1
    <3>3. CASE d # c
      BY <1>2, <3>2, <3>3 DEF InQueue
    <3>4. CASE d = c
      <4>1. i # 1
        BY <1>1, <1>4, <3>2, <3>4
      <4>2. i - 1 \in DOMAIN queue'[c] /\ queue'[c][i - 1] = a
        BY <1>4, <3>2, <3>4, <4>1
      <4>3. QED
        BY <4>2 DEF InQueue
    <3>5. QED
      BY <3>3, <3>4
  <2>2. \A d \in cleared : \A i \in DOMAIN queue'[d] : queue'[d][i] \in late'
    <3>1. cleared \subseteq Chan
      BY DEF TypeOK
    <3>2. QED
      BY <1>1, <1>5, <3>1 DEF BlockOK, NoneLost
  <2>3. \A a : InParams(a)' <=> InParams(a)
    BY <1>1 DEF InParams
  <2>4. QED
    BY <1>1, <2>1, <2>2, <2>3 DEF BlockOK, NoneLost
<1>8. QED
  BY <1>6, <1>7 DEF BlockOK

LEMMA NextBlock == TypeOK /\ Seated /\ ChanOK /\ BlockOK /\ [Next]_vars => BlockOK'
<1> SUFFICES ASSUME TypeOK, Seated, ChanOK, BlockOK, [Next]_vars
             PROVE  BlockOK'
  OBVIOUS
<1>1. ASSUME NEW t \in Thread, LoadId(t) \/ SwapId(t) \/ LogError(t) \/ Exit(t)
                               \/ ScriptReturns(t) \/ ScriptRaises(t) \/ Wait(t) \/ ErrLog(t)
      PROVE  BlockOK'
  BY <1>1, BlockFrame DEF LoadId, SwapId, LogError, Exit, ScriptReturns, ScriptRaises, Wait,
                          ErrLog, chan
<1>2. ASSUME NEW t \in Thread, SpawnFails(t) \/ Load(t) \/ LoadFails(t)
      PROVE  BlockOK'
  BY <1>2, FreeBlock DEF SpawnFails, Load, LoadFails, FreeArgs, chan
<1>3. ASSUME NEW t \in Thread, CreatePack(t) \/ Spawn(t)
      PROVE  BlockOK'
  BY <1>3, CreatePackBlock, SpawnBlock
<1>4. ASSUME NEW t \in Thread, NEW n \in Name, Create(t, n) \/ Query(t, n)
      PROVE  BlockOK'
  <2>1. cleared' \subseteq cleared /\ UNCHANGED <<params, live, queue, late>>
    BY <1>4 DEF Create, Query
  <2>2. QED
    BY <2>1, BlockFrame
<1>5. ASSUME NEW t \in Thread, NEW n \in Name, DestroyClear(t, n)
      PROVE  BlockOK'
  <2>1. channels[n] \in Chan
    BY <1>5 DEF DestroyClear, TypeOK
  <2>2. QED
    BY <1>5, <2>1, DropBlock DEF DestroyClear
<1>6. ASSUME NEW t \in Thread, Erase(t)
      PROVE  BlockOK'
  <2>1. channels[mutex] \in Chan /\ channels[mutex] \in cleared
    BY <1>6, ErasedIs DEF Erase
  <2>2. UNCHANGED <<params, live, cleared, late>>
    BY <1>6 DEF Erase
  <2>3. queue' = queue \/ queue' = [queue EXCEPT ![channels[mutex]] = <<>>]
    BY <1>6 DEF Erase, Delete
  <2>4. QED
    BY <2>1, <2>2, <2>3, BlockFrame, DropBlock
<1>7. ASSUME NEW t \in Thread, NEW c \in Chan, Collect(t, c)
      PROVE  BlockOK'
  <2>1. UNCHANGED <<params, live, cleared, late>>
    BY <1>7 DEF Collect
  <2>2. c \in alive
    BY <1>7 DEF Collect, ChanOK, Boxed
  <2>3. queue' = queue \/ (c \in cleared /\ queue' = [queue EXCEPT ![c] = <<>>])
    BY <1>7, <2>2 DEF Collect, Delete, ChanOK, Named
  <2>4. QED
    BY <2>1, <2>3, BlockFrame, DropBlock
<1>8. ASSUME NEW t \in Thread, NEW c \in Chan, Push(t, c) \/ Pop(t, c)
      PROVE  BlockOK'
  BY <1>8, PushBlock, PopBlock
<1>9. CASE UNCHANGED vars
  BY <1>9, BlockFrame DEF vars, chan
<1>10. QED
  BY <1>1, <1>2, <1>3, <1>4, <1>5, <1>6, <1>7, <1>8, <1>9
     DEF Next, Creation, Life, Script, Registry, Channels

-------------------------------------------------------------------------------
LEMMA InitIInv == Init => IInv
<1> SUFFICES ASSUME Init
             PROVE  IInv
  OBVIOUS
<1>1. TypeOK /\ Seated
  BY InitSeated
<1>2. Main \in Thread /\ DOMAIN <<>> = {}
  BY ConstantFacts
<1>3. Started = {Main} /\ Minting = {} /\ id[Main] = 0 /\ g_thread_id = 0
  BY <1>2 DEF Init, Started, Minting
<1>4. IdsOK
  BY <1>3 DEF IdsOK, DistinctIds
<1>5. LogOK
  BY ConstantFacts DEF Init, LogOK
<1>6. ChanOK
  BY ConstantFacts DEF Init, ChanOK, Boxed, Named
<1>7. BlockOK
  BY <1>2 DEF Init, BlockOK, OwnedOnce, NoneLost
<1>8. QED
  BY <1>1, <1>4, <1>5, <1>6, <1>7 DEF IInv

LEMMA NextIInv == IInv /\ [Next]_vars => IInv'
<1> SUFFICES ASSUME IInv, [Next]_vars
             PROVE  IInv'
  OBVIOUS
<1>1. TypeOK /\ Seated /\ IdsOK /\ LogOK /\ ChanOK /\ BlockOK
  BY DEF IInv
<1>2. TypeOK' /\ Seated'
  <2>1. ASSUME NEW t \in Thread, CreatePack(t) \/ Creation(t)
        PROVE  TypeOK' /\ Seated'
    BY <1>1, <2>1, CreationSeated
  <2>2. ASSUME NEW t \in Thread,
               Life(t) \/ ScriptReturns(t) \/ ScriptRaises(t) \/ Wait(t) \/ ErrLog(t)
        PROVE  TypeOK' /\ Seated'
    BY <1>1, <2>2, LifeSeated
  <2>3. ASSUME NEW t \in Thread, ChanStep(t)
        PROVE  TypeOK' /\ Seated'
    <3>1. Erase(t) => channels[mutex] \in Chan
      BY <1>1, ErasedIs DEF Erase
    <3>2. QED
      BY <1>1, <2>3, <3>1, RegistryTypeOK, ChannelsTypeOK, ChanSeated DEF ChanStep
  <2>4. CASE UNCHANGED vars
    BY <1>1, <2>4 DEF vars, mint, log, registry, chan, TypeOK, Seated
  <2>5. QED
    BY <2>1, <2>2, <2>3, <2>4 DEF Next, Script, ChanStep
<1>3. IdsOK' /\ LogOK' /\ ChanOK' /\ BlockOK'
  BY <1>1, NextIds, NextLog, NextChan, NextBlock
<1>4. QED
  BY <1>2, <1>3 DEF IInv

LEMMA Invariance == Spec => []IInv
BY InitIInv, NextIInv, PTL DEF Spec

(* Type correctness: no thread stands where the code has no line for it.   *)
THEOREM TypeCorrect == Spec => []TypeOK
<1>1. IInv => TypeOK
  BY DEF IInv
<1>2. QED
  BY <1>1, Invariance, PTL

(* DistinctIds: gen_threadid's exchange gives every thread its own number, *)
(* however many threads create at once.                                    *)
THEOREM IdsDiffer == Spec => []DistinctIds
<1>1. IInv => DistinctIds
  BY DEF IInv, IdsOK
<1>2. QED
  BY <1>1, Invariance, PTL

(* JoinedIsComplete: thread_luamain logs the error and closes the state    *)
(* before the thread can be joined.                                        *)
THEOREM ErrorsArrive == Spec => []JoinedIsComplete
<1>1. IInv => JoinedIsComplete
  <2> SUFFICES ASSUME IInv, NEW w \in Worker, thr[w] = "joined"
               PROVE  /\ w \in failed => w \in read \/ InLog(w)
                      /\ boxes[w] = {} /\ params[w] = Null
    BY DEF JoinedIsComplete, InLog
  <2>1. w \in Thread
    BY ConstantFacts
  <2>2. QED
    BY <2>1 DEF IInv, LogOK, Seated
<1>2. QED
  BY <1>1, Invariance, PTL

(* ReferencedAreAlive: the shared_ptr of the registry and of the boxes     *)
(* keep a channel for exactly as long as somebody can reach it.            *)
THEOREM ChannelsLive == Spec => []ReferencedAreAlive
<1>1. IInv => ReferencedAreAlive
  <2> SUFFICES ASSUME IInv
               PROVE  ReferencedAreAlive
    OBVIOUS
  <2>1. alive \subseteq Chan
    BY DEF IInv, TypeOK
  <2>2. QED
    BY <2>1 DEF IInv, ChanOK, Named, ReferencedAreAlive
<1>2. QED
  BY <1>1, Invariance, PTL

(* An owner is a thread with the block as its arguments, or a place in a   *)
(* queue.                                                                  *)
LEMMA OwnersIs ==
    ASSUME NEW b, NEW o
    PROVE  o \in Owners(b) <=>
               \/ o \in Thread /\ params[o] = b
               \/ \E c \in Chan : \E i \in DOMAIN queue[c] : o = <<c, i>> /\ queue[c][i] = b
<1>1. ASSUME NEW c \in Chan
      PROVE  o \in {p \in Queued(c) : queue[c][p[2]] = b} <=>
                 \E i \in DOMAIN queue[c] : o = <<c, i>> /\ queue[c][i] = b
  <2>1. \A i \in DOMAIN queue[c] : <<c, i>>[2] = i
    OBVIOUS
  <2>2. o \in Queued(c) <=> \E i \in DOMAIN queue[c] : o = <<c, i>>
    BY DEF Queued
  <2>3. QED
    BY <2>1, <2>2
<1>2. QED
  BY <1>1 DEF Owners

(* EachBlockOneOwner: arguments and messages are freed once, and only by   *)
(* the thread that took them over.                                         *)
THEOREM BlocksOwned == Spec => []EachBlockOneOwner
<1>1. IInv => EachBlockOneOwner
  <2> SUFFICES ASSUME IInv
               PROVE  EachBlockOneOwner
    OBVIOUS
  <2>0. OwnedOnce /\ NoneLost /\ live \subseteq Block /\ Null \notin Block
    BY ConstantFacts DEF IInv, BlockOK, TypeOK
  <2>1. ASSUME NEW b \in Block \ live
        PROVE  Owners(b) = {}
    <3>1. ASSUME NEW o \in Owners(b)
          PROVE  FALSE
      BY <2>0, <2>1, <3>1, OwnersIs DEF OwnedOnce
    <3>2. QED
      BY <3>1
  <2>2. ASSUME NEW b \in live, NEW o \in Owners(b), NEW p \in Owners(b)
        PROVE  o = p
    <3>1. CASE o \in Thread /\ params[o] = b
      BY <2>0, <3>1, OwnersIs DEF OwnedOnce
    <3>2. CASE \E c \in Chan : \E i \in DOMAIN queue[c] : o = <<c, i>> /\ queue[c][i] = b
      BY <2>0, <3>2, OwnersIs DEF OwnedOnce
    <3>3. QED
      BY <3>1, <3>2, OwnersIs
  <2>3. ASSUME NEW b \in live, b \notin late
        PROVE  Owners(b) # {}
    <3>1. InParams(b) \/ InQueue(b)
      BY <2>0, <2>3 DEF NoneLost
    <3>2. CASE InParams(b)
      BY <3>2, OwnersIs DEF InParams
    <3>3. CASE InQueue(b)
      <4>1. PICK c \in Chan : \E i \in DOMAIN queue[c] : queue[c][i] = b
        BY <3>3 DEF InQueue
      <4>2. PICK i \in DOMAIN queue[c] : queue[c][i] = b
        BY <4>1
      <4>3. <<c, i>> \in Owners(b)
        BY <4>2, OwnersIs
      <4>4. QED
        BY <4>3
    <3>4. QED
      BY <3>1, <3>2, <3>3
  <2>4. QED
    BY <2>1, <2>2, <2>3 DEF EachBlockOneOwner
<1>2. QED
  BY <1>1, Invariance, PTL
===============================================================================
