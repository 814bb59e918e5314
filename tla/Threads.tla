------------------------------- MODULE Threads --------------------------------
(***************************************************************************)
(* bee.thread and the registry of bee.channel together: OS threads that    *)
(* each run a Lua state, the blocks of memory they hand to each other      *)
(* (serialized arguments and messages), the channels they share by name,   *)
(* and the error log.  binding/lua_thread.cpp, binding/lua_channel.cpp,    *)
(* bee/thread/simplethread_posix.cpp.                                      *)
(*                                                                         *)
(* push and pop hold the channel's own lock for their whole body, which    *)
(* module Channel opens up; here each is one step.  What crosses threads   *)
(* is ownership: a block has one owner at a time and is freed by the last. *)
(***************************************************************************)
EXTENDS Integers, Sequences

CONSTANTS Main,      (* the host's thread; it opened bee.thread first       *)
          Worker,    (* the OS threads that thread.create may start         *)
          Chan,      (* the addresses of channel objects                    *)
          Name,      (* the names in the registry                           *)
          Block,     (* the addresses malloc may return                     *)
          Null,      (* the null pointer                                    *)
          MaxId      (* bound: no thread.create once g_thread_id is MaxId   *)

Thread == Worker \cup {Main}

ASSUME Constants == /\ Main \notin Worker
                    /\ Null \notin Block \cup Chan \cup Name
                    /\ MaxId \in Nat

VARIABLES thr,          (* each OS thread's life                            *)
          at,           (* where a running script stands in a C call        *)
          g_thread_id,
          new,          (* gen_threadid's local: the id loaded, then minted *)
          id,           (* args->id, then THREADID in the thread's registry *)
          params,       (* lcreate's local params, then args->params        *)
          live,         (* the blocks malloc returned and nobody freed      *)
          alive,        (* the channel objects constructed and not deleted  *)
          queue,        (* channel::queue                                   *)
          channels,     (* channelmgr::channels                             *)
          mutex,        (* channelmgr::mutex: the name a destroy locks for  *)
          boxes,        (* the channels each Lua state holds a box of       *)
          g_errlog,     (* the workers whose errors wait in the log         *)
          failed,       (* history: the workers whose script failed         *)
          read,         (* history: the errors that errlog() returned       *)
          cleared,      (* history: objects that a destroy has emptied      *)
          late          (* history: live blocks pushed on one of those      *)

mint == <<g_thread_id, new, id>>
log == <<g_errlog, failed, read>>
registry == <<channels, mutex>>
chan == <<alive, queue, boxes, cleared>>
vars == <<thr, at, mint, params, live, chan, registry, log, late>>

Init ==
    /\ thr = [t \in Thread |-> IF t = Main THEN "running" ELSE "none"]
    /\ at = [t \in Thread |-> "script"]
    /\ g_thread_id = 0
    /\ new = [t \in Thread |-> -1]
    /\ id = [t \in Thread |-> IF t = Main THEN 0 ELSE -1]
    /\ params = [t \in Thread |-> Null]
    /\ live = {} /\ late = {}
    /\ alive = {} /\ cleared = {}
    /\ queue = [c \in Chan |-> <<>>]
    /\ channels = [n \in Name |-> Null] /\ mutex = Null
    /\ boxes = [t \in Thread |-> {}]
    /\ g_errlog = <<>> /\ failed = {} /\ read = {}

Scripted(t) == thr[t] = "running" /\ at[t] = "script"
Goto(t, l) == at' = [at EXCEPT ![t] = l]
Becomes(t, s) == thr' = [thr EXCEPT ![t] = s]

-------------------------------------------------------------------------------
(* thread.create: seri_pack, gen_threadid's load and compare-exchange,     *)
(* then pthread_create, which hands the arguments to the new thread.       *)

CreatePack(t) ==
    /\ Scripted(t) /\ g_thread_id < MaxId
    /\ \E b \in Block \ live : /\ live' = live \cup {b}
                               /\ params' = [params EXCEPT ![t] = b]
    /\ Goto(t, "load")
    /\ UNCHANGED <<thr, mint, chan, registry, log, late>>

LoadId(t) ==
    /\ at[t] = "load"
    /\ new' = [new EXCEPT ![t] = g_thread_id]
    /\ Goto(t, "swap")
    /\ UNCHANGED <<thr, g_thread_id, id, params, live, chan, registry, log, late>>

(* Mutant of SwapId: an increment in two steps instead of an exchange. *)
StoreId(t) ==
    /\ at[t] = "swap"
    /\ g_thread_id' = new[t] + 1
    /\ new' = [new EXCEPT ![t] = @ + 1]
    /\ Goto(t, "spawn")
    /\ UNCHANGED <<thr, id, params, live, chan, registry, log, late>>

(* A spurious failure of the weak exchange would only repeat the loop. *)
SwapId(t) ==
    /\ at[t] = "swap"
    /\ IF g_thread_id = new[t]
       THEN /\ g_thread_id' = new[t] + 1
            /\ new' = [new EXCEPT ![t] = @ + 1]
            /\ Goto(t, "spawn")
       ELSE Goto(t, "load") /\ UNCHANGED <<g_thread_id, new>>
    /\ UNCHANGED <<thr, id, params, live, chan, registry, log, late>>

(* The new thread may run to its end before its creator's next step. *)
Spawn(t) ==
    /\ at[t] = "spawn"
    /\ \E w \in Worker :
          /\ thr[w] = "none"
          /\ Becomes(w, "born")
          /\ id' = [id EXCEPT ![w] = new[t]]
          /\ params' = [params EXCEPT ![w] = params[t], ![t] = Null]
    /\ Goto(t, "script")
    /\ UNCHANGED <<g_thread_id, new, live, chan, registry, log, late>>

SpawnFails(t) ==
    /\ at[t] = "spawn"
    /\ live' = live \ {params[t]}
    /\ params' = [params EXCEPT ![t] = Null]
    /\ Goto(t, "script")
    /\ UNCHANGED <<thr, mint, chan, registry, log, late>>

-------------------------------------------------------------------------------
(* thread_main and thread_luamain, and the scripts' ends. *)

FreeArgs(w) == /\ live' = live \ {params[w]}
               /\ params' = [params EXCEPT ![w] = Null]

(* seri_unpackptr copies the arguments into the new state and frees them. *)
Load(w) ==
    /\ thr[w] = "born"
    /\ FreeArgs(w)
    /\ Becomes(w, "running")
    /\ UNCHANGED <<at, mint, chan, registry, log, late>>

(* luaL_loadbuffer refuses the source. *)
LoadFails(w) ==
    /\ thr[w] = "born"
    /\ FreeArgs(w)
    /\ Becomes(w, "failing")
    /\ failed' = failed \cup {w}
    /\ UNCHANGED <<at, mint, chan, registry, g_errlog, read, late>>

ScriptReturns(w) ==
    /\ w \in Worker /\ Scripted(w)
    /\ Becomes(w, "closing")
    /\ UNCHANGED <<at, mint, params, live, chan, registry, log, late>>

ScriptRaises(w) ==
    /\ w \in Worker /\ Scripted(w)
    /\ Becomes(w, "failing")
    /\ failed' = failed \cup {w}
    /\ UNCHANGED <<at, mint, params, live, chan, registry, g_errlog, read, late>>

(* Mutant of LogError: the log keeps one error. *)
LogErrorOnce(w) ==
    /\ thr[w] = "failing"
    /\ g_errlog' = IF g_errlog = <<>> THEN <<w>> ELSE g_errlog
    /\ Becomes(w, "closing")
    /\ UNCHANGED <<at, mint, params, live, chan, registry, failed, read, late>>

LogError(w) ==
    /\ thr[w] = "failing"
    /\ g_errlog' = Append(g_errlog, w)
    /\ Becomes(w, "closing")
    /\ UNCHANGED <<at, mint, params, live, chan, registry, failed, read, late>>

(* lua_close has collected every box. *)
Exit(w) ==
    /\ thr[w] = "closing" /\ boxes[w] = {}
    /\ Becomes(w, "done")
    /\ UNCHANGED <<at, mint, params, live, chan, registry, log, late>>

(* thread.wait: pthread_join, once for each thread. *)
Wait(t) ==
    /\ Scripted(t)
    /\ \E w \in Worker : thr[w] = "done" /\ Becomes(w, "joined")
    /\ UNCHANGED <<at, mint, params, live, chan, registry, log, late>>

ErrLog(t) ==
    /\ Scripted(t) /\ g_errlog # <<>>
    /\ read' = read \cup {Head(g_errlog)}
    /\ g_errlog' = Tail(g_errlog)
    /\ UNCHANGED <<thr, at, mint, params, live, chan, registry, failed, late>>

-------------------------------------------------------------------------------
(* channelmgr under its spinlock, and the boxes (shared_ptr) it hands out. *)

Boxed(c) == \E t \in Thread : c \in boxes[t]

(* The last box goes: ~channel drops the queue and frees none of its blocks. *)
Delete(c) == /\ alive' = alive \ {c}
             /\ queue' = [queue EXCEPT ![c] = <<>>]

(* A name in use raises "Duplicate channel" and the new object is deleted: *)
(* no step.  So does an object whose event cannot be opened.               *)
Create(t, n) ==
    /\ Scripted(t) /\ mutex = Null
    /\ channels[n] = Null
    /\ \E c \in Chan \ alive :
          /\ alive' = alive \cup {c}
          /\ cleared' = cleared \ {c}
          /\ channels' = [channels EXCEPT ![n] = c]
          /\ boxes' = [boxes EXCEPT ![t] = @ \cup {c}]
    /\ UNCHANGED <<thr, at, mint, params, live, queue, mutex, log, late>>

Query(t, n) ==
    /\ Scripted(t) /\ mutex = Null
    /\ channels[n] # Null
    /\ boxes' = [boxes EXCEPT ![t] = @ \cup {channels[n]}]
    /\ UNCHANGED <<thr, at, mint, params, live, alive, queue, cleared, registry, log, late>>

(* Mutant of DestroyClear: the name goes, its messages stay. *)
DestroyOnly(t, n) ==
    /\ Scripted(t) /\ mutex = Null
    /\ channels[n] # Null
    /\ mutex' = n
    /\ cleared' = cleared \cup {channels[n]}
    /\ Goto(t, "erase")
    /\ UNCHANGED <<thr, mint, params, live, alive, queue, boxes, channels, log, late>>

(* channel.destroy clears the queue under the channel's lock; the          *)
(* registry's stays locked until the name is erased.                       *)
DestroyClear(t, n) ==
    /\ Scripted(t) /\ mutex = Null
    /\ channels[n] # Null
    /\ LET c == channels[n] IN
          /\ live' = live \ {queue[c][i] : i \in DOMAIN queue[c]}
          /\ queue' = [queue EXCEPT ![c] = <<>>]
          /\ cleared' = cleared \cup {c}
    /\ mutex' = n
    /\ Goto(t, "erase")
    /\ UNCHANGED <<thr, mint, params, alive, boxes, channels, log, late>>

(* Mutant of Erase: the registry deletes what it erases. *)
EraseDeleting(t) ==
    /\ at[t] = "erase"
    /\ Delete(channels[mutex])
    /\ channels' = [channels EXCEPT ![mutex] = Null]
    /\ mutex' = Null
    /\ Goto(t, "script")
    /\ UNCHANGED <<thr, mint, params, live, boxes, cleared, log, late>>

Erase(t) ==
    /\ at[t] = "erase"
    /\ IF Boxed(channels[mutex]) THEN UNCHANGED <<alive, queue>>
                                 ELSE Delete(channels[mutex])
    /\ channels' = [channels EXCEPT ![mutex] = Null]
    /\ mutex' = Null
    /\ Goto(t, "script")
    /\ UNCHANGED <<thr, mint, params, live, boxes, cleared, log, late>>

(* A box is collected: by the script's collector, or by lua_close. *)
Collect(t, c) ==
    /\ c \in boxes[t]
    /\ Scripted(t) \/ thr[t] = "closing"
    /\ boxes' = [boxes EXCEPT ![t] = @ \ {c}]
    /\ IF \/ \E u \in Thread \ {t} : c \in boxes[u]
          \/ \E n \in Name : channels[n] = c
       THEN UNCHANGED <<alive, queue>>
       ELSE Delete(c)
    /\ UNCHANGED <<thr, at, mint, params, live, cleared, registry, log, late>>

Push(t, c) ==
    /\ Scripted(t) /\ c \in boxes[t]
    /\ \E b \in Block \ live :
          /\ live' = live \cup {b}
          /\ queue' = [queue EXCEPT ![c] = Append(@, b)]
          /\ late' = IF c \in cleared THEN late \cup {b} ELSE late
    /\ UNCHANGED <<thr, at, mint, params, alive, boxes, cleared, registry, log>>

(* An empty pop returns false and leaves everything as it is. *)
Pop(t, c) ==
    /\ Scripted(t) /\ c \in boxes[t]
    /\ queue[c] # <<>>
    /\ live' = live \ {Head(queue[c])}
    /\ late' = late \ {Head(queue[c])}
    /\ queue' = [queue EXCEPT ![c] = Tail(@)]
    /\ UNCHANGED <<thr, at, mint, params, alive, boxes, cleared, registry, log>>

-------------------------------------------------------------------------------
Creation(t) == LoadId(t) \/ SwapId(t) \/ Spawn(t) \/ SpawnFails(t)
Life(w) == Load(w) \/ LoadFails(w) \/ LogError(w) \/ Exit(w)
Script(t) == \/ CreatePack(t) \/ ScriptReturns(t) \/ ScriptRaises(t)
             \/ Wait(t) \/ ErrLog(t)
Registry(t) == \E n \in Name : Create(t, n) \/ Query(t, n) \/ DestroyClear(t, n)
Channels(t) == \E c \in Chan : Push(t, c) \/ Pop(t, c) \/ Collect(t, c)

Next == \E t \in Thread : Creation(t) \/ Life(t) \/ Script(t)
                          \/ Registry(t) \/ Erase(t) \/ Channels(t)

Spec == Init /\ [][Next]_vars

-------------------------------------------------------------------------------
TypeOK == /\ thr \in [Thread -> {"none", "born", "running", "failing",
                                 "closing", "done", "joined"}]
          /\ at \in [Thread -> {"script", "load", "swap", "spawn", "erase"}]
          /\ g_thread_id \in Nat
          /\ new \in [Thread -> Int] /\ id \in [Thread -> Int]
          /\ params \in [Thread -> Block \cup {Null}]
          /\ live \in SUBSET Block /\ late \in SUBSET Block
          /\ alive \in SUBSET Chan /\ cleared \in SUBSET Chan
          /\ queue \in [Chan -> Seq(Block)]
          /\ channels \in [Name -> Chan \cup {Null}]
          /\ mutex \in Name \cup {Null}
          /\ boxes \in [Thread -> SUBSET Chan]
          /\ g_errlog \in Seq(Worker)
          /\ failed \in SUBSET Worker /\ read \in SUBSET Worker

(* Where a pointer to a block is kept: a creation, a newborn, a queue. *)
Queued(c) == {<<c, i>> : i \in DOMAIN queue[c]}
Owners(b) == {t \in Thread : params[t] = b}
             \cup UNION {{p \in Queued(c) : queue[c][p[2]] = b} : c \in Chan}

(* Every block that crosses threads has one owner until it is freed, and   *)
(* nobody keeps a pointer to a freed one, whichever of pack, spawn, load,  *)
(* push, pop and destroy fails or comes first.  The only blocks that can   *)
(* leak were pushed after destroy had emptied their channel.               *)
EachBlockOneOwner ==
    /\ \A b \in Block \ live : Owners(b) = {}
    /\ \A b \in live : /\ \A o, p \in Owners(b) : o = p
                       /\ b \in late \/ Owners(b) # {}

(* A channel lives exactly as long as its name or a box refers to it: no   *)
(* thread can push on a deleted one, however its name was destroyed and    *)
(* created again meanwhile, and none stays behind.                         *)
ReferencedAreAlive ==
    alive = {c \in Chan : Boxed(c) \/ \E n \in Name : channels[n] = c}

(* thread.id tells the threads apart: each creation mints a number that no *)
(* thread and no other creation has, and the main thread's stays 0,        *)
(* whichever threads create at once.                                       *)
Started == {t \in Thread : thr[t] # "none"}
Minting == {t \in Thread : at[t] = "spawn"}
DistinctIds == /\ \A t, u \in Started : id[t] = id[u] => t = u
               /\ \A t, u \in Minting : new[t] = new[u] => t = u
               /\ \A t \in Minting, u \in Started : new[t] # id[u]
               /\ id[Main] = 0

(* When thread.wait returns, the thread's error is in the log or was read, *)
(* and its state holds no channel and no arguments any more.               *)
JoinedIsComplete ==
    \A w \in Worker : thr[w] = "joined" =>
        /\ w \in failed => w \in read \/ \E i \in DOMAIN g_errlog : g_errlog[i] = w
        /\ boxes[w] = {} /\ params[w] = Null
===============================================================================
