------------------------------- MODULE Subprocess ------------------------------
(***************************************************************************)
(* bee.subprocess on POSIX: the handles a program keeps of its children,   *)
(* against the kernel's process table, where the pid of a process that was *)
(* reaped is given to the next, and its descriptors, which the program's   *)
(* other threads open and close meanwhile.                                 *)
(* bee/subprocess/subprocess_posix.cpp, binding/lua_subprocess.cpp.        *)
(*                                                                         *)
(* stdin is redirected like stdout and left out; arguments, environment    *)
(* and directory reach the child only.                                     *)
(***************************************************************************)
CONSTANTS Handle,  (* the spawns and the process objects they give          *)
          Pid, Fd,
          Zero,    (* the descriptor 0: free when stdin was closed          *)
          Code,    (* exit statuses, as make_status gives them              *)
          Null,    (* no pid (-1), no status, no descriptor, a free one     *)
          Other    (* the owner of what is not a handle's                   *)

ASSUME Constants == /\ Null \notin Pid \cup Fd \cup Code \cup Handle
                    /\ Other \notin Handle \cup {Null}
                    /\ Zero \in Fd

Stream == {"stdout", "stderr"}

VARIABLES at,       (* each handle's stage                                  *)
          fds_,     (* spawn::fds_                                          *)
          pid,      (* process::pid                                         *)
          status,   (* process::status                                      *)
          proc,     (* the kernel: pid -> whose process it is               *)
          zombie,   (* the kernel: pids ended and not reaped                *)
          open,     (* the kernel: descriptor -> who opened it              *)
          autoreap, (* SIGCHLD is ignored: children leave no zombie         *)
          code,     (* history: what each handle's child ended with         *)
          warned,   (* history: handles closed over a running child         *)
          astray,   (* history: handles whose signal hit a stranger while   *)
                    (* their own child was in the table                     *)
          stolen,   (* history: spawns that closed somebody else's fd       *)
          adrift    (* history: descriptors of pipes that nobody will close *)

kernel == <<proc, zombie, autoreap, code>>
process == <<pid, status, warned, astray>>
files == <<fds_, open, stolen, adrift>>
vars == <<at, kernel, process, files>>

Init ==
    /\ at = [h \in Handle |-> "none"]
    /\ fds_ = [h \in Handle |-> [s \in Stream |-> Null]]
    /\ pid = [h \in Handle |-> Null] /\ status = [h \in Handle |-> Null]
    /\ proc = [p \in Pid |-> Null] /\ zombie = {}
    /\ open = [fd \in Fd |-> Null]
    /\ autoreap \in BOOLEAN
    /\ code = [h \in Handle |-> Null]
    /\ warned = {} /\ astray = {} /\ stolen = {} /\ adrift = {}

Goto(h, l) == at' = [at EXCEPT ![h] = l]

-------------------------------------------------------------------------------
(* spawn: cast_stdio for each stream, then exec.                           *)

Open(h, fds) == /\ \A fd \in fds : open[fd] = Null
                /\ open' = [fd \in Fd |-> IF fd \in fds THEN h ELSE open[fd]]

(* A pipe's end, a copy of a file's descriptor or /dev/null is opened for  *)
(* the child, or the stream is left alone, also when opening fails.  When  *)
(* fdopen fails, both ends of the pipe stay behind and the spawn goes on   *)
(* without them.                                                           *)
Redirect(h, s) ==
    \/ UNCHANGED files
    \/ \E fd \in Fd : /\ Open(h, {fd})
                      /\ fds_' = [fds_ EXCEPT ![h][s] = fd]
                      /\ UNCHANGED <<stolen, adrift>>
    \/ \E fd, end \in Fd : /\ fd # end /\ Open(h, {fd, end})
                           /\ adrift' = adrift \cup {fd, end}
                           /\ UNCHANGED <<fds_, stolen>>

CastStdout(h) ==
    /\ at[h] = "none" /\ Goto(h, "stderr")
    /\ Redirect(h, "stdout")
    /\ UNCHANGED <<kernel, process>>

(* stderr = "stdout" takes over the other stream's descriptor. *)
CastStderr(h) ==
    /\ at[h] = "stderr" /\ Goto(h, "exec")
    /\ \/ Redirect(h, "stderr")
       \/ /\ fds_' = [fds_ EXCEPT ![h]["stderr"] = fds_[h]["stdout"]]
          /\ UNCHANGED <<open, stolen, adrift>>
    /\ UNCHANGED <<kernel, process>>

Spawn(h) ==
    /\ at[h] = "exec"
    /\ \E p \in Pid : /\ proc[p] = Null
                      /\ proc' = [proc EXCEPT ![p] = h]
                      /\ pid' = [pid EXCEPT ![h] = p]
    /\ Goto(h, "close stdout")
    /\ UNCHANGED <<zombie, autoreap, code, status, warned, astray, files>>

(* exec returns false and spawn an error: the descriptors stay open. *)
SpawnFails(h) == /\ at[h] = "exec" /\ Goto(h, "failed")
                 /\ UNCHANGED <<kernel, process, files>>

(* What the loop after a successful posix_spawn closes: fds_[i] > 0. *)
Closes(h, s) == fds_[h][s] \notin {Null, Zero}

(* It closes what it handed over by number, whoever has it by then. *)
CloseStream(h, s) ==
    /\ \/ LET fd == fds_[h][s]
          IN  /\ Closes(h, s)
              /\ open' = [open EXCEPT ![fd] = Null] /\ adrift' = adrift \ {fd}
              /\ stolen' = IF open[fd] \in {h, Null} THEN stolen ELSE stolen \cup {h}
       \/ ~Closes(h, s) /\ UNCHANGED <<open, stolen, adrift>>
    /\ UNCHANGED <<fds_, kernel, process>>

CloseStdout(h) ==
    at[h] = "close stdout" /\ Goto(h, "close stderr") /\ CloseStream(h, "stdout")

(* Mutant of CloseStderr: the loop stops one short. *)
CloseStderrNot(h) ==
    /\ at[h] = "close stderr" /\ Goto(h, "live")
    /\ UNCHANGED <<kernel, process, files>>

CloseStderr(h) ==
    at[h] = "close stderr" /\ Goto(h, "live") /\ CloseStream(h, "stderr")

-------------------------------------------------------------------------------
(* The process object: waiting, detaching, signals, and its end. *)

(* The children that waitpid(pid) is about: pid -1 means all of them. *)
Target(h) == {p \in Pid : proc[p] \in Handle /\ (pid[h] = Null \/ p = pid[h])}

Reap(h, p) ==
    /\ status' = [status EXCEPT ![h] = code[proc[p]]]
    /\ proc' = [proc EXCEPT ![p] = Null]
    /\ zombie' = zombie \ {p}
    /\ UNCHANGED <<autoreap, code>>

(* Mutant of is_running and wait: the pid is waited for again. *)
WaitAgain(h) ==
    /\ at[h] = "live"
    /\ \E p \in Target(h) \cap zombie : Reap(h, p)
    /\ UNCHANGED <<at, pid, warned, astray, files>>

(* is_running and wait take the status of a child that ended, once.  When  *)
(* it still runs, or waitpid knows no such child, nothing changes.         *)
WaitPid(h) ==
    /\ at[h] = "live" /\ status[h] = Null
    /\ \E p \in Target(h) \cap zombie : Reap(h, p)
    /\ UNCHANGED <<at, pid, warned, astray, files>>

(* Mutant of GivesUp: the pid is dropped over a running child as well. *)
GivesUpAlways(h) ==
    /\ pid' = [pid EXCEPT ![h] = Null]
    /\ UNCHANGED <<kernel, status>>

(* detach of a process that is_running says is over: reaped before or now, *)
(* or unknown to waitpid.                                                  *)
GivesUp(h) ==
    /\ pid' = [pid EXCEPT ![h] = Null]
    /\ \/ (status[h] # Null \/ Target(h) = {}) /\ UNCHANGED <<kernel, status>>
       \/ status[h] = Null /\ \E p \in Target(h) \cap zombie : Reap(h, p)

(* process:detach and __close; nothing changes when it is detached or runs. *)
detach(h) ==
    /\ at[h] = "live" /\ pid[h] # Null
    /\ GivesUp(h)
    /\ UNCHANGED <<at, warned, astray, files>>

(* __gc, which warns of a child that may become a zombie. *)
Collect(h) ==
    /\ at[h] = "live" /\ Goto(h, "closed")
    /\ \/ pid[h] = Null /\ UNCHANGED <<kernel, pid, status, warned>>
       \/ pid[h] # Null /\ GivesUp(h) /\ UNCHANGED warned
       \/ /\ pid[h] # Null /\ status[h] = Null
          /\ Target(h) # {} /\ Target(h) \cap zombie = {}
          /\ warned' = warned \cup {h}
          /\ UNCHANGED <<kernel, pid, status>>
    /\ UNCHANGED <<astray, files>>

(* kill and resume: ::kill looks neither at the status nor at pid -1,      *)
(* which stands for every process.  A victim ends by Exit.                 *)
kill(h) ==
    /\ at[h] = "live"
    /\ astray' = IF /\ \E p \in Pid : proc[p] = h
                    /\ \E p \in Pid : proc[p] \notin {h, Null} /\ pid[h] \in {p, Null}
                 THEN astray \cup {h} ELSE astray
    /\ UNCHANGED <<at, kernel, pid, status, warned, files>>

-------------------------------------------------------------------------------
(* The system: children end, other processes come and go, other threads of *)
(* this program open and close descriptors.                                *)

Exit(p) ==
    /\ proc[p] \in Handle /\ p \notin zombie
    /\ \E c \in Code : code' = [code EXCEPT ![proc[p]] = c]
    /\ IF autoreap THEN proc' = [proc EXCEPT ![p] = Null] /\ UNCHANGED zombie
                   ELSE zombie' = zombie \cup {p} /\ UNCHANGED proc
    /\ UNCHANGED <<at, autoreap, process, files>>

OtherProcess(p) ==
    /\ \/ proc[p] = Null /\ proc' = [proc EXCEPT ![p] = Other]
       \/ proc[p] = Other /\ proc' = [proc EXCEPT ![p] = Null]
    /\ UNCHANGED <<at, zombie, autoreap, code, process, files>>

OtherFile(fd) ==
    /\ \/ open[fd] = Null /\ open' = [open EXCEPT ![fd] = Other]
       \/ open[fd] = Other /\ open' = [open EXCEPT ![fd] = Null]
    /\ UNCHANGED <<at, kernel, process, fds_, stolen, adrift>>

-------------------------------------------------------------------------------
Starting(h) == \/ CastStdout(h) \/ CastStderr(h) \/ Spawn(h) \/ SpawnFails(h)
               \/ CloseStdout(h) \/ CloseStderr(h)
Calls(h) == WaitPid(h) \/ detach(h) \/ Collect(h) \/ kill(h)

Next == \/ \E h \in Handle : Starting(h) \/ Calls(h)
        \/ \E p \in Pid : Exit(p) \/ OtherProcess(p)
        \/ \E fd \in Fd : OtherFile(fd)

Spec == Init /\ [][Next]_vars
-------------------------------------------------------------------------------
TypeOK == /\ at \in [Handle -> {"none", "stderr", "exec", "close stdout",
                                "close stderr", "live", "failed", "closed"}]
          /\ fds_ \in [Handle -> [Stream -> Fd \cup {Null}]]
          /\ pid \in [Handle -> Pid \cup {Null}]
          /\ status \in [Handle -> Code \cup {Null}]
          /\ proc \in [Pid -> Handle \cup {Other, Null}]
          /\ zombie \in SUBSET Pid
          /\ open \in [Fd -> Handle \cup {Other, Null}]
          /\ autoreap \in BOOLEAN
          /\ code \in [Handle -> Code \cup {Null}]
          /\ warned \in SUBSET Handle /\ astray \in SUBSET Handle
          /\ stolen \in SUBSET Handle /\ adrift \in SUBSET Fd

(* The status a handle reports is what its own child ended with, though    *)
(* the pid may have gone to another handle's child since; and a child that *)
(* ended is reaped before its handle is gone, unless gc warned about it.   *)
ReapedByItsHandle ==
    /\ \A h \in Handle : status[h] # Null =>
           status[h] = code[h] /\ \A p \in Pid : proc[p] # h
    /\ \A p \in zombie : at[proc[p]] = "closed" => proc[p] \in warned

(* While a handle's child runs or waits to be reaped, kill and resume      *)
(* reach that child and nobody else, whatever was detached before.  (After *)
(* that they reach whoever got its pid, and after detach everybody.)       *)
SignalsReachTheChild == astray = {}

(* A spawn that succeeded has closed every descriptor it opened for the    *)
(* child, and none of another thread's, unless stderr shared stdout's in   *)
(* some spawn: that one closes its descriptor twice, the second time maybe *)
(* another spawn's, which then closes a stranger's in turn.  What stays    *)
(* open is a descriptor 0 that a stream was given, which the loop takes    *)
(* for none, and the pipes that fdopen failed for.                         *)
Shares(h) == fds_[h]["stdout"] # Null /\ fds_[h]["stdout"] = fds_[h]["stderr"]
Kept(fd) == fd \in adrift \/ \E s \in Stream : fd = Zero /\ fds_[open[fd]][s] = Zero
DescriptorsClosedOnce ==
    /\ \A fd \in Fd : open[fd] \in Handle /\ ~Kept(fd) => at[open[fd]] \notin {"live", "closed"}
    /\ stolen # {} => \E h \in stolen : Shares(h)
===============================================================================
