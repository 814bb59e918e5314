--------------------------- MODULE SubprocessProofs ---------------------------
(***************************************************************************)
(* Proofs about process handles for any number of handles, pids and        *)
(* descriptors: whom signals reach, whose status a handle reports, and     *)
(* which descriptors a spawn closes.                                       *)
(***************************************************************************)
EXTENDS Subprocess, TLAPS

Stage == {"none", "stderr", "exec", "close stdout", "close stderr", "live", "failed", "closed"}
Past == {"close stdout", "close stderr", "live", "closed"}

(* A handle knows its child for as long as the child is in the table.      *)
KnowsChild ==
    \A p \in Pid, h \in Handle : proc[p] = h =>
        /\ at[h] \in Past /\ pid[h] = p /\ status[h] = Null
        /\ at[h] = "closed" => h \in warned

StatusIsCode == \A h \in Handle : status[h] # Null => status[h] = code[h]

NoStatusYet == \A h \in Handle : at[h] \notin Past => status[h] = Null

ZombiesEnded == \A p \in zombie : proc[p] \in Handle /\ code[proc[p]] \in Code

(* The kernel that reaps children by itself leaves no zombie to mistake.   *)
NoZombies == autoreap => zombie = {}

(* With any other, a handle without a status has its child in the table.   *)
HasChild ==
    \A h \in Handle :
        ~autoreap /\ at[h] \in Past /\ at[h] # "closed" /\ status[h] = Null =>
            pid[h] \in Pid /\ proc[pid[h]] = h

ProcOK == KnowsChild /\ StatusIsCode /\ NoStatusYet /\ ZombiesEnded /\ NoZombies /\ HasChild

(* Nothing is opened for a stream before its turn.                         *)
NothingYet ==
    \A h \in Handle : /\ at[h] = "none" => fds_[h]["stdout"] = Null
                      /\ at[h] \in {"none", "stderr"} => fds_[h]["stderr"] = Null

(* The spawn still has to close the descriptor, or has failed with it.     *)
Owes(h, fd) ==
    \/ /\ at[h] \in {"stderr", "exec", "close stdout", "failed"}
       /\ fd = fds_[h]["stdout"] \/ fd = fds_[h]["stderr"]
    \/ at[h] = "close stderr" /\ fd = fds_[h]["stderr"]

(* A descriptor that it opened and will not close: 0, or a stranded pipe.  *)
Abandons(h, fd) ==
    \/ fd \in adrift
    \/ fd = Zero /\ (fds_[h]["stdout"] = Zero \/ fds_[h]["stderr"] = Zero)

OpenIsOwed == \A fd \in Fd, h \in Handle : open[fd] = h => Owes(h, fd) \/ Abandons(h, fd)

Has(h, s) == fds_[h][s] # Null => open[fds_[h][s]] = h

(* Until the first theft every spawn has what it will close.               *)
Keeps(h) ==
    /\ at[h] \in {"stderr", "exec", "close stdout"} => Has(h, "stdout") /\ Has(h, "stderr")
    /\ at[h] = "close stderr" /\ ~Shares(h) => Has(h, "stderr")

KeptTillTheft == stolen = {} => \A h \in Handle : Keeps(h)

ThievesArePast == \A h \in stolen : at[h] \in Past

FirstThiefShares == stolen # {} => \E h \in stolen : Shares(h)

FileOK == NothingYet /\ OpenIsOwed /\ KeptTillTheft /\ ThievesArePast /\ FirstThiefShares

IInv == TypeOK /\ ProcOK /\ astray = {} /\ FileOK

LEMMA ConstantFacts ==
    /\ Null \notin Pid /\ Null \notin Fd /\ Null \notin Code /\ Null \notin Handle
    /\ Other \notin Handle /\ Other # Null /\ Zero \in Fd /\ Zero # Null
    /\ Stream = {"stdout", "stderr"}
BY Constants DEF Stream

LEMMA PastFacts ==
    /\ "close stdout" \in Past /\ "close stderr" \in Past /\ "live" \in Past /\ "closed" \in Past
    /\ "none" \notin Past /\ "stderr" \notin Past /\ "exec" \notin Past /\ "failed" \notin Past
    /\ Past \subseteq Stage
BY DEF Past, Stage

-------------------------------------------------------------------------------
(* The process table                                                       *)

LEMMA ProcFrame ==
    ASSUME TypeOK, ProcOK, NEW h \in Handle, NEW l \in Stage, Goto(h, l),
           l \in Past <=> at[h] \in Past, at[h] # "closed", l # "closed",
           UNCHANGED <<kernel, process>>
    PROVE  ProcOK'
<1>1. \A g \in Handle : at'[g] = IF g = h THEN l ELSE at[g]
  BY DEF Goto, TypeOK
<1>2. \A g \in Handle : /\ at'[g] \in Past <=> at[g] \in Past
                        /\ at'[g] = "closed" <=> at[g] = "closed"
  BY <1>1
<1>3. UNCHANGED <<proc, zombie, autoreap, code, pid, status, warned>>
  BY DEF kernel, process
<1>4. KnowsChild' /\ NoStatusYet' /\ HasChild'
  BY <1>2, <1>3 DEF ProcOK, KnowsChild, NoStatusYet, HasChild
<1>5. StatusIsCode' /\ ZombiesEnded' /\ NoZombies'
  BY <1>3 DEF ProcOK, StatusIsCode, ZombiesEnded, NoZombies
<1>6. QED
  BY <1>4, <1>5 DEF ProcOK

LEMMA SpawnProc ==
    ASSUME TypeOK, ProcOK, NEW h \in Handle, Spawn(h)
    PROVE  ProcOK'
<1>1. PICK p \in Pid : /\ proc[p] = Null
                       /\ proc' = [proc EXCEPT ![p] = h]
                       /\ pid' = [pid EXCEPT ![h] = p]
  BY DEF Spawn
<1>2. /\ at[h] = "exec" /\ at' = [at EXCEPT ![h] = "close stdout"]
      /\ UNCHANGED <<zombie, autoreap, code, status, warned>>
  BY DEF Spawn, Goto
<1>3. \A q \in Pid : proc'[q] = IF q = p THEN h ELSE proc[q]
  BY <1>1 DEF TypeOK
<1>4. \A g \in Handle : /\ pid'[g] = IF g = h THEN p ELSE pid[g]
                        /\ at'[g] = IF g = h THEN "close stdout" ELSE at[g]
  BY <1>1, <1>2 DEF TypeOK
<1>5. p \notin zombie /\ zombie \subseteq Pid
  BY <1>1, ConstantFacts DEF ProcOK, ZombiesEnded, TypeOK
<1>6. at[h] \notin Past /\ status[h] = Null /\ \A q \in Pid : proc[q] # h
  BY <1>2, PastFacts DEF ProcOK, KnowsChild, NoStatusYet
<1>7. KnowsChild'
  <2>1. ASSUME NEW q \in Pid, q # p, NEW g \in Handle, proc[q] = g
        PROVE  /\ at'[g] \in Past /\ pid'[g] = q /\ status[g] = Null
               /\ at'[g] = "closed" => g \in warned
    <3>1. g # h /\ at'[g] = at[g] /\ pid'[g] = pid[g]
      BY <1>4, <1>6, <2>1
    <3>2. QED
      BY <2>1, <3>1 DEF ProcOK, KnowsChild
  <2>2. at'[h] \in Past /\ at'[h] # "closed" /\ pid'[h] = p
    BY <1>4, PastFacts
  <2>3. ASSUME NEW q \in Pid, NEW g \in Handle, proc'[q] = g
        PROVE  /\ at'[g] \in Past /\ pid'[g] = q /\ status'[g] = Null
               /\ at'[g] = "closed" => g \in warned'
    <3>1. CASE q = p
      BY <1>2, <1>3, <1>6, <2>2, <2>3, <3>1
    <3>2. CASE q # p
      BY <1>2, <1>3, <2>1, <2>3, <3>2
    <3>3. QED
      BY <3>1, <3>2
  <2>4. QED
    BY <2>3 DEF KnowsChild
<1>8. NoStatusYet' /\ StatusIsCode' /\ NoZombies'
  BY <1>2, <1>4, PastFacts DEF ProcOK, NoStatusYet, StatusIsCode, NoZombies
<1>9. ZombiesEnded'
  BY <1>2, <1>3, <1>5 DEF ProcOK, ZombiesEnded
<1>10. HasChild'
  <2>1. ASSUME NEW g \in Handle, g # h, ~autoreap, at[g] \in Past, at[g] # "closed",
               status[g] = Null
        PROVE  pid'[g] \in Pid /\ proc'[pid'[g]] = g
    <3>1. pid[g] \in Pid /\ proc[pid[g]] = g
      BY <2>1 DEF ProcOK, HasChild
    <3>2. pid[g] # p
      BY <1>1, <3>1, ConstantFacts
    <3>3. QED
      BY <1>3, <1>4, <2>1, <3>1, <3>2
  <2>2. pid'[h] \in Pid /\ proc'[pid'[h]] = h
    BY <1>3, <1>4
  <2>3. QED
    BY <1>2, <1>4, <2>1, <2>2 DEF HasChild
<1>11. QED
  BY <1>7, <1>8, <1>9, <1>10 DEF ProcOK

(* The child that a wait reaps is the handle's own.                        *)
LEMMA ReapIsOwn ==
    ASSUME TypeOK, ProcOK, NEW h \in Handle, at[h] = "live", status[h] = Null,
           NEW p \in Target(h) \cap zombie
    PROVE  proc[p] = h /\ pid[h] = p
<1>1. p \in Pid /\ (pid[h] = Null \/ p = pid[h]) /\ ~autoreap
  BY DEF Target, ProcOK, NoZombies
<1>2. pid[h] \in Pid /\ proc[pid[h]] = h
  BY <1>1, PastFacts DEF ProcOK, HasChild
<1>3. QED
  BY <1>1, <1>2, ConstantFacts

(* Reaping its own child leaves a handle with the child's status.          *)
LEMMA ReapProc ==
    ASSUME TypeOK, ProcOK, NEW h \in Handle, NEW p \in Pid, p \in zombie, proc[p] = h,
           at[h] = "live", Reap(h, p),
           \A g \in Handle : g # h => at'[g] = at[g] /\ pid'[g] = pid[g],
           at'[h] \in {"live", "closed"}, warned' = warned
    PROVE  ProcOK'
<1>1. \A g \in Handle : status'[g] = IF g = h THEN code[h] ELSE status[g]
  BY DEF Reap, TypeOK
<1>2. \A q \in Pid : proc'[q] = IF q = p THEN Null ELSE proc[q]
  BY DEF Reap, TypeOK
<1>3. zombie' = zombie \ {p} /\ autoreap' = autoreap /\ code' = code
  BY DEF Reap
<1>4. code[h] \in Code /\ code[h] # Null
  BY ConstantFacts DEF ProcOK, ZombiesEnded
<1>5. \A q \in Pid : proc'[q] # h
  BY <1>2, ConstantFacts DEF ProcOK, KnowsChild
<1>6. KnowsChild'
  BY <1>1, <1>2, <1>5, ConstantFacts DEF ProcOK, KnowsChild
<1>7. StatusIsCode' /\ NoZombies'
  BY <1>1, <1>3 DEF ProcOK, StatusIsCode, NoZombies
<1>8. NoStatusYet'
  <2>1. at'[h] \in Past
    BY PastFacts
  <2>2. QED
    BY <1>1, <2>1 DEF ProcOK, NoStatusYet
<1>9. ZombiesEnded'
  BY <1>2, <1>3 DEF ProcOK, ZombiesEnded, TypeOK
<1>10. HasChild'
  <2>1. ASSUME NEW g \in Handle, g # h, ~autoreap, at[g] \in Past, at[g] # "closed",
               status[g] = Null
        PROVE  pid'[g] \in Pid /\ proc'[pid'[g]] = g
    <3>1. pid[g] \in Pid /\ proc[pid[g]] = g /\ pid[g] # p
      BY <2>1 DEF ProcOK, HasChild
    <3>2. QED
      BY <1>2, <2>1, <3>1
  <2>2. QED
    BY <1>1, <1>3, <1>4, <2>1 DEF HasChild
<1>11. QED
  BY <1>6, <1>7, <1>8, <1>9, <1>10 DEF ProcOK

(* A handle gives its pid up only without a child in the table.            *)
LEMMA GivesUpProc ==
    ASSUME TypeOK, ProcOK, NEW h \in Handle, at[h] = "live", pid[h] # Null, GivesUp(h),
           NEW l \in {"live", "closed"}, at' = [at EXCEPT ![h] = l], warned' = warned
    PROVE  ProcOK'
<1>1. \A g \in Handle : /\ at'[g] = IF g = h THEN l ELSE at[g]
                        /\ pid'[g] = IF g = h THEN Null ELSE pid[g]
  BY DEF TypeOK, GivesUp
<1>2. CASE (status[h] # Null \/ Target(h) = {}) /\ UNCHANGED <<kernel, status>>
  <2>1. \A p \in Pid : proc[p] # h
    <3>1. \A p \in Pid : proc[p] = h => p \in Target(h)
      BY DEF ProcOK, KnowsChild, Target
    <3>2. \A p \in Pid : proc[p] = h => status[h] = Null
      BY DEF ProcOK, KnowsChild
    <3>3. QED
      BY <1>2, <3>1, <3>2
  <2>2. UNCHANGED <<proc, zombie, autoreap, code, status>>
    BY <1>2 DEF kernel
  <2>3. ~autoreap => status[h] # Null
    BY <2>1, PastFacts DEF ProcOK, HasChild
  <2>4. KnowsChild'
    BY <1>1, <2>1, <2>2 DEF ProcOK, KnowsChild
  <2>5. NoStatusYet'
    <3>1. at'[h] \in Past
      BY <1>1, PastFacts
    <3>2. QED
      BY <1>1, <2>2, <3>1 DEF ProcOK, NoStatusYet
  <2>6. HasChild'
    BY <1>1, <2>2, <2>3 DEF ProcOK, HasChild
  <2>7. StatusIsCode' /\ ZombiesEnded' /\ NoZombies'
    BY <2>2 DEF ProcOK, StatusIsCode, ZombiesEnded, NoZombies
  <2>8. QED
    BY <2>4, <2>5, <2>6, <2>7 DEF ProcOK
<1>3. CASE status[h] = Null /\ \E p \in Target(h) \cap zombie : Reap(h, p)
  <2>1. PICK p \in Target(h) \cap zombie : Reap(h, p)
    BY <1>3
  <2>2. proc[p] = h /\ p \in Pid
    BY <1>3, <2>1, ReapIsOwn DEF Target
  <2>3. QED
    BY <1>1, <2>1, <2>2, ReapProc
<1>4. QED
  BY <1>2, <1>3 DEF GivesUp

LEMMA WaitPidProc ==
    ASSUME TypeOK, ProcOK, NEW h \in Handle, WaitPid(h)
    PROVE  ProcOK'
<1>1. PICK p \in Target(h) \cap zombie : Reap(h, p)
  BY DEF WaitPid
<1>2. at[h] = "live" /\ status[h] = Null /\ UNCHANGED <<at, pid, warned>>
  BY DEF WaitPid
<1>3. proc[p] = h /\ p \in Pid
  BY <1>1, <1>2, ReapIsOwn DEF Target
<1>4. QED
  BY <1>1, <1>2, <1>3, ReapProc

LEMMA CollectProc ==
    ASSUME TypeOK, ProcOK, NEW h \in Handle, Collect(h)
    PROVE  ProcOK'
<1>1. at[h] = "live" /\ at' = [at EXCEPT ![h] = "closed"]
  BY DEF Collect, Goto
<1>2. \A g \in Handle : at'[g] = IF g = h THEN "closed" ELSE at[g]
  BY <1>1 DEF TypeOK
<1>3. CASE pid[h] # Null /\ GivesUp(h) /\ UNCHANGED warned
  BY <1>1, <1>3, GivesUpProc
<1>4. CASE UNCHANGED <<kernel, pid, status>> /\ (pid[h] = Null \/ h \in warned')
           /\ warned \subseteq warned'
  <2>1. UNCHANGED <<proc, zombie, autoreap, code, pid, status>>
    BY <1>4 DEF kernel
  <2>2. \A p \in Pid : proc[p] = h => h \in warned'
    BY <1>4, ConstantFacts DEF ProcOK, KnowsChild
  <2>3. \A g \in Handle : /\ at[g] \in Past <=> at'[g] \in Past
                          /\ at'[g] # "closed" => at[g] # "closed"
    BY <1>1, <1>2, PastFacts
  <2>4. KnowsChild'
    BY <1>2, <1>4, <2>1, <2>2, <2>3 DEF ProcOK, KnowsChild
  <2>5. NoStatusYet' /\ HasChild'
    BY <2>1, <2>3 DEF ProcOK, NoStatusYet, HasChild
  <2>6. StatusIsCode' /\ ZombiesEnded' /\ NoZombies'
    BY <2>1 DEF ProcOK, StatusIsCode, ZombiesEnded, NoZombies
  <2>7. QED
    BY <2>4, <2>5, <2>6 DEF ProcOK
<1>5. QED
  BY <1>3, <1>4 DEF Collect

LEMMA ExitProc ==
    ASSUME TypeOK, ProcOK, NEW p \in Pid, Exit(p)
    PROVE  ProcOK'
<1>1. PICK h \in Handle : proc[p] = h
  BY DEF Exit
<1>2. p \notin zombie /\ UNCHANGED <<at, autoreap, pid, status, warned>>
  BY DEF Exit, process
<1>3. PICK c \in Code : code' = [code EXCEPT ![h] = c]
  BY <1>1 DEF Exit
<1>4. \A g \in Handle : code'[g] = IF g = h THEN c ELSE code[g]
  BY <1>3 DEF TypeOK
<1>5. status[h] = Null
  BY <1>1 DEF ProcOK, KnowsChild
<1>6. StatusIsCode' /\ NoStatusYet'
  BY <1>2, <1>4, <1>5 DEF ProcOK, StatusIsCode, NoStatusYet
<1>7. CASE autoreap
  <2>1. /\ proc' = [proc EXCEPT ![p] = Null] /\ zombie' = zombie /\ zombie = {}
    BY <1>7 DEF Exit, ProcOK, NoZombies
  <2>2. \A q \in Pid : proc'[q] = IF q = p THEN Null ELSE proc[q]
    BY <2>1 DEF TypeOK
  <2>3. KnowsChild'
    BY <1>2, <2>2, ConstantFacts DEF ProcOK, KnowsChild
  <2>4. ZombiesEnded' /\ NoZombies' /\ HasChild'
    BY <1>2, <1>7, <2>1 DEF ZombiesEnded, NoZombies, HasChild
  <2>5. QED
    BY <1>6, <2>3, <2>4 DEF ProcOK
<1>8. CASE ~autoreap
  <2>1. zombie' = zombie \cup {p} /\ proc' = proc
    BY <1>8 DEF Exit
  <2>2. ZombiesEnded'
    BY <1>1, <1>4, <2>1 DEF ProcOK, ZombiesEnded
  <2>3. KnowsChild' /\ HasChild' /\ NoZombies'
    BY <1>2, <1>8, <2>1 DEF ProcOK, KnowsChild, HasChild, NoZombies
  <2>4. QED
    BY <1>6, <2>2, <2>3 DEF ProcOK
<1>9. QED
  BY <1>7, <1>8

LEMMA OtherProc ==
    ASSUME TypeOK, ProcOK, NEW p \in Pid, OtherProcess(p)
    PROVE  ProcOK'
<1>1. /\ UNCHANGED <<at, zombie, autoreap, code, pid, status, warned>>
      /\ \/ proc[p] = Null /\ proc' = [proc EXCEPT ![p] = Other]
         \/ proc[p] = Other /\ proc' = [proc EXCEPT ![p] = Null]
  BY DEF OtherProcess, process
<1>2. /\ \A q \in Pid : q # p => proc'[q] = proc[q]
      /\ proc[p] \notin Handle /\ proc'[p] \notin Handle
  BY <1>1, ConstantFacts DEF TypeOK
<1>3. p \notin zombie /\ zombie \subseteq Pid
  BY <1>2 DEF ProcOK, ZombiesEnded, TypeOK
<1>4. \A q \in zombie : proc'[q] = proc[q]
  BY <1>2, <1>3
<1>5. \A q \in Pid, h \in Handle : proc'[q] = h <=> proc[q] = h
  BY <1>2
<1>6. KnowsChild' /\ HasChild'
  BY <1>1, <1>5 DEF ProcOK, KnowsChild, HasChild
<1>7. StatusIsCode' /\ NoStatusYet' /\ NoZombies' /\ ZombiesEnded'
  BY <1>1, <1>4 DEF ProcOK, StatusIsCode, NoStatusYet, NoZombies, ZombiesEnded
<1>8. QED
  BY <1>6, <1>7 DEF ProcOK

-------------------------------------------------------------------------------
(* The descriptors                                                         *)

LEMMA FdsType ==
    ASSUME TypeOK, NEW h \in Handle
    PROVE  /\ fds_[h]["stdout"] \in Fd \cup {Null} /\ fds_[h]["stderr"] \in Fd \cup {Null}
           /\ fds_[h]["stdout"] # Null => fds_[h]["stdout"] \in Fd
           /\ fds_[h]["stderr"] # Null => fds_[h]["stderr"] \in Fd
<1>1. fds_ \in [Handle -> [Stream -> Fd \cup {Null}]] /\ "stdout" \in Stream /\ "stderr" \in Stream
  BY ConstantFacts DEF TypeOK
<1>2. fds_[h] \in [Stream -> Fd \cup {Null}]
  BY <1>1
<1>3. QED
  BY <1>1, <1>2

LEMMA FdsUpdate ==
    ASSUME TypeOK, NEW h \in Handle, NEW s \in Stream, NEW x, fds_' = [fds_ EXCEPT ![h][s] = x]
    PROVE  /\ fds_'[h][s] = x
           /\ \A r \in Stream : r # s => fds_'[h][r] = fds_[h][r]
           /\ \A g \in Handle : g # h => fds_'[g] = fds_[g]
           /\ x \in Fd \cup {Null} => fds_' \in [Handle -> [Stream -> Fd \cup {Null}]]
<1>1. fds_ \in [Handle -> [Stream -> Fd \cup {Null}]]
  BY DEF TypeOK
<1>2. fds_[h] \in [Stream -> Fd \cup {Null}]
  BY <1>1
<1> DEFINE row == [fds_[h] EXCEPT ![s] = x]
<1>3. row[s] = x /\ \A r \in Stream : r # s => row[r] = fds_[h][r]
  BY <1>2
<1>4. x \in Fd \cup {Null} => row \in [Stream -> Fd \cup {Null}]
  BY <1>2
<1>5. fds_' = [fds_ EXCEPT ![h] = row]
  OBVIOUS
<1> HIDE DEF row
<1>6. fds_'[h] = row /\ \A g \in Handle : g # h => fds_'[g] = fds_[g]
  BY <1>1, <1>5
<1>7. QED
  BY <1>1, <1>3, <1>4, <1>5, <1>6

(* What a handle owes and keeps depends only on its own stage and numbers. *)
LEMMA OwnFrame ==
    ASSUME NEW h \in Handle, at'[h] = at[h], fds_'[h] = fds_[h]
    PROVE  /\ \A fd : Owes(h, fd)' <=> Owes(h, fd)
           /\ \A fd : (fd \in adrift => fd \in adrift') /\ Abandons(h, fd) => Abandons(h, fd)'
           /\ Shares(h)' <=> Shares(h)
<1>1. \A fd : Owes(h, fd)' <=> Owes(h, fd)
  BY DEF Owes
<1>2. \A fd : (fd \in adrift => fd \in adrift') /\ Abandons(h, fd) => Abandons(h, fd)'
  BY DEF Abandons
<1>3. Shares(h)' <=> Shares(h)
  BY DEF Shares
<1>4. QED
  BY <1>1, <1>2, <1>3

LEMMA KeepsFrame ==
    ASSUME TypeOK, NEW h \in Handle, at'[h] = at[h], fds_'[h] = fds_[h], Keeps(h),
           \A fd \in Fd : open[fd] = h => open'[fd] = h
    PROVE  Keeps(h)'
<1>1. Shares(h)' <=> Shares(h)
  BY OwnFrame
<1>2. Has(h, "stdout") => Has(h, "stdout")'
  BY FdsType DEF Has
<1>3. Has(h, "stderr") => Has(h, "stderr")'
  BY FdsType DEF Has
<1>4. QED
  BY <1>1, <1>2, <1>3 DEF Keeps

LEMMA FilesFrame ==
    ASSUME TypeOK, FileOK, UNCHANGED files,
           \A h \in Handle : at'[h] = at[h] \/ (at[h] = "live" /\ at'[h] = "closed")
    PROVE  FileOK'
<1>1. UNCHANGED <<fds_, open, stolen, adrift>>
  BY DEF files
<1>2. NothingYet'
  BY <1>1 DEF FileOK, NothingYet
<1>3. OpenIsOwed'
  BY <1>1 DEF FileOK, OpenIsOwed, Owes, Abandons
<1>4. \A h \in Handle : Keeps(h) => Keeps(h)'
  BY <1>1 DEF Keeps, Has, Shares
<1>5. KeptTillTheft'
  BY <1>1, <1>4 DEF FileOK, KeptTillTheft
<1>6. stolen \subseteq Handle
  BY DEF TypeOK
<1>7. ThievesArePast'
  BY <1>1, <1>6, PastFacts DEF FileOK, ThievesArePast
<1>8. FirstThiefShares'
  BY <1>1 DEF FileOK, FirstThiefShares, Shares
<1>9. QED
  BY <1>2, <1>3, <1>5, <1>7, <1>8 DEF FileOK

LEMMA OtherFiles ==
    ASSUME TypeOK, FileOK, NEW fd \in Fd, OtherFile(fd)
    PROVE  FileOK'
<1>1. /\ UNCHANGED <<at, fds_, stolen, adrift>>
      /\ \/ open[fd] = Null /\ open' = [open EXCEPT ![fd] = Other]
         \/ open[fd] = Other /\ open' = [open EXCEPT ![fd] = Null]
  BY DEF OtherFile
<1>2. \A f \in Fd, h \in Handle : open'[f] = h <=> open[f] = h
  <2>1. open \in [Fd -> Handle \cup {Other, Null}] /\ Null \notin Handle /\ Other \notin Handle
    BY ConstantFacts DEF TypeOK
  <2>2. QED
    BY <1>1, <2>1
<1>3. \A h \in Handle : Keeps(h) => Keeps(h)'
  BY <1>1, <1>2, KeepsFrame
<1>4. KeptTillTheft'
  BY <1>1, <1>3 DEF FileOK, KeptTillTheft
<1>5. OpenIsOwed'
  BY <1>1, <1>2, OwnFrame DEF FileOK, OpenIsOwed
<1>6. NothingYet' /\ ThievesArePast' /\ FirstThiefShares'
  BY <1>1 DEF FileOK, NothingYet, ThievesArePast, FirstThiefShares, Shares
<1>7. QED
  BY <1>4, <1>5, <1>6 DEF FileOK

(* A step of h alone that opens nothing of anybody else's and closes       *)
(* nothing: what is left to show is about h.                               *)
LEMMA OwnFiles ==
    ASSUME TypeOK, FileOK, NEW h \in Handle, stolen' = stolen, adrift \subseteq adrift',
           \A g \in Handle : g # h => at'[g] = at[g] /\ fds_'[g] = fds_[g],
           \A f \in Fd, g \in Handle : open[f] = g => open'[f] = g,
           \A f \in Fd, g \in Handle : open'[f] = g => open[f] = g \/ g = h,
           \A f \in Fd : open'[f] = h => Owes(h, f)' \/ Abandons(h, f)',
           stolen = {} => Keeps(h)', h \notin stolen,
           /\ at'[h] = "none" => fds_'[h]["stdout"] = Null
           /\ at'[h] \in {"none", "stderr"} => fds_'[h]["stderr"] = Null
    PROVE  FileOK'
<1>1. NothingYet'
  BY DEF FileOK, NothingYet
<1>2. OpenIsOwed'
  <2>1. ASSUME NEW f \in Fd, NEW g \in Handle, g # h, open'[f] = g
        PROVE  Owes(g, f)' \/ Abandons(g, f)'
    BY <2>1, OwnFrame DEF FileOK, OpenIsOwed
  <2>2. QED
    BY <2>1 DEF OpenIsOwed
<1>3. KeptTillTheft'
  <2>1. ASSUME stolen = {}, NEW g \in Handle, g # h
        PROVE  Keeps(g)'
    BY <2>1, KeepsFrame DEF FileOK, KeptTillTheft
  <2>2. QED
    BY <2>1 DEF KeptTillTheft
<1>4. stolen \subseteq Handle
  BY DEF TypeOK
<1>5. ThievesArePast'
  BY <1>4 DEF FileOK, ThievesArePast
<1>6. FirstThiefShares'
  BY <1>4, OwnFrame DEF FileOK, FirstThiefShares
<1>7. QED
  BY <1>1, <1>2, <1>3, <1>5, <1>6 DEF FileOK

LEMMA CastStdoutFiles ==
    ASSUME TypeOK, FileOK, NEW h \in Handle, CastStdout(h)
    PROVE  FileOK'
<1>1. at[h] = "none" /\ at' = [at EXCEPT ![h] = "stderr"] /\ Redirect(h, "stdout")
  BY DEF CastStdout, Goto
<1>2. at'[h] = "stderr" /\ \A g \in Handle : g # h => at'[g] = at[g]
  BY <1>1 DEF TypeOK
<1>3. fds_[h]["stdout"] = Null /\ fds_[h]["stderr"] = Null
  BY <1>1 DEF FileOK, NothingYet
<1>4. h \notin stolen /\ \A f \in Fd : open[f] = h => f \in adrift
  BY <1>1, <1>3, ConstantFacts, PastFacts DEF FileOK, ThievesArePast, OpenIsOwed, Owes, Abandons
<1>5. CASE UNCHANGED files
  <2>1. Keeps(h)'
    BY <1>2, <1>3, <1>5 DEF files, Keeps, Has
  <2>2. \A f \in Fd : open'[f] = h => Abandons(h, f)'
    BY <1>4, <1>5 DEF files, Abandons
  <2>3. QED
    BY <1>2, <1>3, <1>4, <1>5, <2>1, <2>2, OwnFiles DEF files
<1>6. ASSUME NEW fd \in Fd, Open(h, {fd}), UNCHANGED <<stolen, adrift>>,
             fds_' = [fds_ EXCEPT ![h]["stdout"] = fd]
      PROVE  FileOK'
  <2>1. /\ fds_'[h]["stdout"] = fd /\ fds_'[h]["stderr"] = Null
        /\ \A g \in Handle : g # h => fds_'[g] = fds_[g]
    BY <1>3, <1>6, ConstantFacts, FdsUpdate
  <2>2. open[fd] = Null /\ \A f \in Fd : open'[f] = IF f = fd THEN h ELSE open[f]
    BY <1>6 DEF Open
  <2>3. \A f \in Fd : open'[f] = h => Owes(h, f)' \/ Abandons(h, f)'
    BY <1>2, <1>4, <1>6, <2>1, <2>2 DEF Owes, Abandons
  <2>4. Keeps(h)'
    BY <1>2, <2>1, <2>2 DEF Keeps, Has
  <2>5. \A f \in Fd, g \in Handle : open[f] = g => open'[f] = g
    BY <1>6, <2>2, ConstantFacts
  <2>6. \A f \in Fd, g \in Handle : open'[f] = g => open[f] = g \/ g = h
    BY <2>2
  <2>7. QED
    BY <1>2, <1>4, <1>6, <2>1, <2>3, <2>4, <2>5, <2>6, OwnFiles
<1>7. ASSUME NEW fd \in Fd, NEW end \in Fd, Open(h, {fd, end}),
             adrift' = adrift \cup {fd, end}, UNCHANGED <<fds_, stolen>>
      PROVE  FileOK'
  <2>1. /\ open[fd] = Null /\ open[end] = Null
        /\ \A f \in Fd : open'[f] = IF f \in {fd, end} THEN h ELSE open[f]
    BY <1>7 DEF Open
  <2>2. \A f \in Fd, g \in Handle : open[f] = g => open'[f] = g
    BY <2>1, ConstantFacts
  <2>3. \A f \in Fd, g \in Handle : open'[f] = g => open[f] = g \/ g = h
    BY <2>1
  <2>4. \A f \in Fd : open'[f] = h => Owes(h, f)' \/ Abandons(h, f)'
    BY <1>4, <1>7, <2>1 DEF Abandons
  <2>5. Keeps(h)'
    BY <1>2, <1>3, <1>7 DEF Keeps, Has
  <2>6. QED
    BY <1>2, <1>3, <1>4, <1>7, <2>2, <2>3, <2>4, <2>5, OwnFiles
<1>8. QED
  BY <1>1, <1>5, <1>6, <1>7 DEF Redirect

LEMMA CastStderrFiles ==
    ASSUME TypeOK, FileOK, NEW h \in Handle, CastStderr(h)
    PROVE  FileOK'
<1>1. at[h] = "stderr" /\ at' = [at EXCEPT ![h] = "exec"]
  BY DEF CastStderr, Goto
<1>2. at'[h] = "exec" /\ \A g \in Handle : g # h => at'[g] = at[g]
  BY <1>1 DEF TypeOK
<1>3. fds_[h]["stderr"] = Null
  BY <1>1 DEF FileOK, NothingYet
<1>4. h \notin stolen /\ \A f \in Fd : open[f] = h => f = fds_[h]["stdout"] \/ f \in adrift
  BY <1>1, <1>3, ConstantFacts, PastFacts DEF FileOK, ThievesArePast, OpenIsOwed, Owes, Abandons
<1>5. stolen = {} => Has(h, "stdout")
  BY <1>1 DEF FileOK, KeptTillTheft, Keeps
<1>6. CASE UNCHANGED files
  <2>1. stolen = {} => Keeps(h)'
    BY <1>2, <1>3, <1>5, <1>6 DEF files, Keeps, Has
  <2>2. \A f \in Fd : open'[f] = h => Owes(h, f)' \/ Abandons(h, f)'
    BY <1>2, <1>4, <1>6 DEF files, Owes, Abandons
  <2>3. QED
    BY <1>2, <1>4, <1>6, <2>1, <2>2, OwnFiles DEF files
<1>7. CASE /\ fds_' = [fds_ EXCEPT ![h]["stderr"] = fds_[h]["stdout"]]
           /\ UNCHANGED <<open, stolen, adrift>>
  <2>1. /\ fds_'[h]["stderr"] = fds_[h]["stdout"] /\ fds_'[h]["stdout"] = fds_[h]["stdout"]
        /\ \A g \in Handle : g # h => fds_'[g] = fds_[g]
    BY <1>7, ConstantFacts, FdsUpdate
  <2>2. stolen = {} => Keeps(h)'
    BY <1>2, <1>5, <1>7, <2>1 DEF Keeps, Has
  <2>3. \A f \in Fd : open'[f] = h => Owes(h, f)' \/ Abandons(h, f)'
    BY <1>2, <1>4, <1>7, <2>1 DEF Owes, Abandons
  <2>4. QED
    BY <1>2, <1>4, <1>7, <2>1, <2>2, <2>3, OwnFiles
<1>8. ASSUME NEW fd \in Fd, Open(h, {fd}), UNCHANGED <<stolen, adrift>>,
             fds_' = [fds_ EXCEPT ![h]["stderr"] = fd]
      PROVE  FileOK'
  <2>1. /\ fds_'[h]["stderr"] = fd /\ fds_'[h]["stdout"] = fds_[h]["stdout"]
        /\ \A g \in Handle : g # h => fds_'[g] = fds_[g]
    BY <1>8, ConstantFacts, FdsUpdate
  <2>2. open[fd] = Null /\ \A f \in Fd : open'[f] = IF f = fd THEN h ELSE open[f]
    BY <1>8 DEF Open
  <2>3. \A f \in Fd : open'[f] = h => Owes(h, f)' \/ Abandons(h, f)'
    BY <1>2, <1>4, <1>8, <2>1, <2>2 DEF Owes, Abandons
  <2>4. stolen = {} => Keeps(h)'
    <3>1. fds_[h]["stdout"] # Null => fds_[h]["stdout"] \in Fd
      BY FdsType
    <3>2. QED
      BY <1>2, <1>5, <2>1, <2>2, <3>1 DEF Keeps, Has
  <2>5. \A f \in Fd, g \in Handle : open[f] = g => open'[f] = g
    BY <1>8, <2>2, ConstantFacts
  <2>6. \A f \in Fd, g \in Handle : open'[f] = g => open[f] = g \/ g = h
    BY <2>2
  <2>7. QED
    BY <1>2, <1>4, <1>8, <2>1, <2>3, <2>4, <2>5, <2>6, OwnFiles
<1>9. ASSUME NEW fd \in Fd, NEW end \in Fd, Open(h, {fd, end}),
             adrift' = adrift \cup {fd, end}, UNCHANGED <<fds_, stolen>>
      PROVE  FileOK'
  <2>1. /\ open[fd] = Null /\ open[end] = Null
        /\ \A f \in Fd : open'[f] = IF f \in {fd, end} THEN h ELSE open[f]
    BY <1>9 DEF Open
  <2>2. \A f \in Fd, g \in Handle : open[f] = g => open'[f] = g
    BY <2>1, ConstantFacts
  <2>3. \A f \in Fd, g \in Handle : open'[f] = g => open[f] = g \/ g = h
    BY <2>1
  <2>4. \A f \in Fd : open'[f] = h => Owes(h, f)' \/ Abandons(h, f)'
    BY <1>2, <1>4, <1>9, <2>1 DEF Owes, Abandons
  <2>5. stolen = {} => Keeps(h)'
    BY <1>2, <1>3, <1>5, <1>9, <2>1, FdsType DEF Keeps, Has
  <2>6. QED
    BY <1>2, <1>3, <1>4, <1>9, <2>2, <2>3, <2>4, <2>5, OwnFiles
<1>10. QED
  BY <1>6, <1>7, <1>8, <1>9 DEF CastStderr, Redirect

(* exec succeeds or fails: the descriptors are as they were.               *)
LEMMA ExecFiles ==
    ASSUME TypeOK, FileOK, NEW h \in Handle, Spawn(h) \/ SpawnFails(h)
    PROVE  FileOK'
<1>1. /\ at[h] = "exec" /\ UNCHANGED <<fds_, open, stolen, adrift>>
      /\ Goto(h, "close stdout") \/ Goto(h, "failed")
  BY DEF Spawn, SpawnFails, files
<1>2. /\ \A g \in Handle : g # h => at'[g] = at[g]
      /\ at'[h] = "close stdout" \/ at'[h] = "failed"
  BY <1>1 DEF Goto, TypeOK
<1>3. h \notin stolen
  BY <1>1, PastFacts DEF FileOK, ThievesArePast
<1>4. \A f \in Fd : open'[f] = h => Owes(h, f)' \/ Abandons(h, f)'
  BY <1>1, <1>2 DEF FileOK, OpenIsOwed, Owes, Abandons
<1>5. stolen = {} => Keeps(h)'
  BY <1>1, <1>2 DEF FileOK, KeptTillTheft, Keeps, Has
<1>6. QED
  BY <1>1, <1>2, <1>3, <1>4, <1>5, OwnFiles

(* A close frees the number for whoever had it, and steals it from any but *)
(* the spawn itself; 0 and no number are not closed.                       *)
LEMMA CloseFiles ==
    ASSUME TypeOK, FileOK, NEW h \in Handle, CloseStdout(h) \/ CloseStderr(h)
    PROVE  FileOK'
<1>1. PICK s \in Stream : /\ CloseStream(h, s)
                          /\ \/ /\ s = "stdout" /\ at[h] = "close stdout"
                                /\ Goto(h, "close stderr")
                             \/ /\ s = "stderr" /\ at[h] = "close stderr"
                                /\ Goto(h, "live")
  BY ConstantFacts DEF CloseStdout, CloseStderr
<1>2. PICK fd : fd = fds_[h][s]
  OBVIOUS
<1>3. /\ \A f \in Fd : open'[f] = IF f = fd /\ Closes(h, s) THEN Null ELSE open[f]
      /\ stolen' = IF Closes(h, s) /\ open[fd] \notin {h, Null} THEN stolen \cup {h} ELSE stolen
      /\ \A f \in Fd : f \in adrift /\ f # fd => f \in adrift'
      /\ ~Closes(h, s) => adrift' = adrift
      /\ fds_' = fds_
  BY <1>1, <1>2 DEF CloseStream, TypeOK
<1>4. \A g \in Handle : g # h => at'[g] = at[g]
  BY <1>1 DEF Goto, TypeOK
<1>5. \/ fd = fds_[h]["stdout"] /\ at[h] = "close stdout" /\ at'[h] = "close stderr"
      \/ fd = fds_[h]["stderr"] /\ at[h] = "close stderr" /\ at'[h] = "live"
  BY <1>1, <1>2 DEF Goto, TypeOK
<1>6. /\ Null \notin Handle /\ Null \notin Fd /\ Zero \in Fd
      /\ Closes(h, s) <=> fd \notin {Null, Zero}
  BY <1>2, ConstantFacts DEF Closes
<1>7. NothingYet'
  BY <1>3, <1>4, <1>5 DEF FileOK, NothingYet
<1>8. OpenIsOwed'
  <2>1. ASSUME NEW f \in Fd, NEW g \in Handle, open'[f] = g
        PROVE  Owes(g, f)' \/ Abandons(g, f)'
    <3>1. (f = fd => f = Zero) /\ open[f] = g /\ (f \in adrift => f \in adrift')
      BY <1>3, <1>6, <2>1
    <3>2. Owes(g, f) \/ Abandons(g, f)
      BY <3>1 DEF FileOK, OpenIsOwed
    <3>3. CASE g # h
      BY <1>3, <1>4, <3>1, <3>2, <3>3, OwnFrame
    <3>4. CASE g = h
      BY <1>3, <1>5, <3>1, <3>2, <3>4 DEF Owes, Abandons
    <3>5. QED
      BY <3>3, <3>4
  <2>2. QED
    BY <2>1 DEF OpenIsOwed
<1>9. ASSUME stolen = {}, Closes(h, s)
      PROVE  open[fd] = h \/ Shares(h)
  <2>1. Keeps(h)
    BY <1>9 DEF FileOK, KeptTillTheft
  <2>2. CASE fd = fds_[h]["stdout"] /\ at[h] = "close stdout"
    BY <1>6, <1>9, <2>1, <2>2 DEF Keeps, Has
  <2>3. CASE fd = fds_[h]["stderr"] /\ at[h] = "close stderr"
    BY <1>6, <1>9, <2>1, <2>3 DEF Keeps, Has
  <2>4. QED
    BY <1>5, <2>2, <2>3
<1>10. KeptTillTheft'
  <2>1. SUFFICES ASSUME stolen' = {}, NEW g \in Handle
                 PROVE  Keeps(g)'
    BY DEF KeptTillTheft
  <2>2. stolen = {} /\ (Closes(h, s) => open[fd] \in {h, Null})
    BY <1>3, <2>1
  <2>3. Keeps(g)
    BY <2>2 DEF FileOK, KeptTillTheft
  <2>4. CASE g # h
    <3>1. Closes(h, s) => open[fd] # g
      BY <1>6, <2>2, <2>4
    <3>2. \A f \in Fd : open[f] = g => open'[f] = g
      BY <1>3, <1>6, <3>1
    <3>3. QED
      BY <1>3, <1>4, <2>3, <2>4, <3>2, KeepsFrame
  <2>5. CASE g = h
    <3>1. CASE at'[h] = "live"
      BY <2>5, <3>1 DEF Keeps
    <3>2. CASE at[h] = "close stdout" /\ at'[h] = "close stderr" /\ fd = fds_[h]["stdout"]
      <4>1. SUFFICES ASSUME ~Shares(h), fds_[h]["stderr"] # Null
                     PROVE  open'[fds_[h]["stderr"]] = h
        BY <1>3, <2>5, <3>2 DEF Keeps, Has, Shares
      <4>2. open[fds_[h]["stderr"]] = h /\ fds_[h]["stderr"] \in Fd
        BY <2>3, <2>5, <3>2, <4>1, FdsType DEF Keeps, Has
      <4>3. fds_[h]["stderr"] # fd
        BY <3>2, <4>1 DEF Shares
      <4>4. QED
        BY <1>3, <4>2, <4>3
    <3>3. QED
      BY <1>5, <3>1, <3>2
  <2>6. QED
    BY <2>4, <2>5
<1>11. stolen \subseteq Handle
  BY DEF TypeOK
<1>12. ThievesArePast'
  <2>1. at'[h] \in Past
    BY <1>5, PastFacts
  <2>2. QED
    BY <1>3, <1>4, <1>11, <2>1 DEF FileOK, ThievesArePast
<1>13. FirstThiefShares'
  <2>1. \A g \in Handle : Shares(g)' <=> Shares(g)
    BY <1>3 DEF Shares
  <2>2. QED
    BY <1>3, <1>9, <1>11, <2>1 DEF FileOK, FirstThiefShares
<1>14. QED
  BY <1>7, <1>8, <1>10, <1>12, <1>13 DEF FileOK

-------------------------------------------------------------------------------
(* Type correctness, and the signals                                       *)

LEMMA GotoType ==
    ASSUME TypeOK, NEW h \in Handle, NEW l \in Stage, Goto(h, l)
    PROVE  at' \in [Handle -> Stage]
BY DEF TypeOK, Goto, Stage

(* The parts of TypeOK by the group of variables.                          *)
KernelType == /\ proc \in [Pid -> Handle \cup {Other, Null}] /\ zombie \in SUBSET Pid
              /\ autoreap \in BOOLEAN /\ code \in [Handle -> Code \cup {Null}]
ProcessType == /\ pid \in [Handle -> Pid \cup {Null}] /\ status \in [Handle -> Code \cup {Null}]
               /\ warned \in SUBSET Handle /\ astray \in SUBSET Handle
FilesType == /\ fds_ \in [Handle -> [Stream -> Fd \cup {Null}]]
             /\ open \in [Fd -> Handle \cup {Other, Null}] /\ stolen \in SUBSET Handle
             /\ adrift \in SUBSET Fd

LEMMA TypeParts ==
    /\ TypeOK <=> at \in [Handle -> Stage] /\ KernelType /\ ProcessType /\ FilesType
    /\ TypeOK' <=> at' \in [Handle -> Stage] /\ KernelType' /\ ProcessType' /\ FilesType'
BY DEF TypeOK, Stage, KernelType, ProcessType, FilesType

LEMMA TypeFrames ==
    /\ KernelType /\ UNCHANGED kernel => KernelType'
    /\ ProcessType /\ UNCHANGED process => ProcessType'
    /\ FilesType /\ UNCHANGED files => FilesType'
BY DEF KernelType, ProcessType, FilesType, kernel, process, files

LEMMA CastTypeOK ==
    ASSUME TypeOK, NEW h \in Handle, CastStdout(h) \/ CastStderr(h)
    PROVE  TypeOK'
<1>1. at' \in [Handle -> Stage]
  BY GotoType DEF CastStdout, CastStderr, Stage
<1>2. UNCHANGED <<kernel, process>>
  BY DEF CastStdout, CastStderr
<1>3. FilesType'
  <2>0. FilesType /\ fds_[h]["stdout"] \in Fd \cup {Null}
    BY TypeParts, FdsType
  <2>1. ASSUME NEW s \in Stream, Redirect(h, s)
        PROVE  FilesType'
    <3>1. CASE UNCHANGED files
      BY <2>0, <3>1, TypeFrames
    <3>2. ASSUME NEW fd \in Fd, Open(h, {fd}),
                 fds_' = [fds_ EXCEPT ![h][s] = fd], UNCHANGED <<stolen, adrift>>
          PROVE  FilesType'
      <4>1. fds_' \in [Handle -> [Stream -> Fd \cup {Null}]]
        BY <3>2, FdsUpdate
      <4>2. QED
        BY <2>0, <3>2, <4>1 DEF FilesType, Open
    <3>3. ASSUME NEW fd \in Fd, NEW end \in Fd, Open(h, {fd, end}),
                 adrift' = adrift \cup {fd, end}, UNCHANGED <<fds_, stolen>>
          PROVE  FilesType'
      BY <2>0, <3>3 DEF FilesType, Open
    <3>4. QED
      BY <2>1, <3>1, <3>2, <3>3 DEF Redirect
  <2>2. CASE /\ fds_' = [fds_ EXCEPT ![h]["stderr"] = fds_[h]["stdout"]]
             /\ UNCHANGED <<open, stolen, adrift>>
    <3>1. fds_' \in [Handle -> [Stream -> Fd \cup {Null}]]
      BY <2>0, <2>2, FdsUpdate, ConstantFacts
    <3>2. QED
      BY <2>0, <2>2, <3>1 DEF FilesType
  <2>3. QED
    BY <2>1, <2>2, ConstantFacts DEF CastStdout, CastStderr
<1>4. QED
  BY <1>1, <1>2, <1>3, TypeParts, TypeFrames

LEMMA StartingTypeOK ==
    ASSUME TypeOK, NEW h \in Handle, Starting(h)
    PROVE  TypeOK'
<1>1. CASE Spawn(h)
  <2>1. at' \in [Handle -> Stage]
    BY <1>1, GotoType DEF Spawn, Stage
  <2>2. KernelType' /\ ProcessType' /\ UNCHANGED files
    BY <1>1, TypeParts DEF Spawn, KernelType, ProcessType
  <2>3. QED
    BY <2>1, <2>2, TypeParts, TypeFrames
<1>2. CASE SpawnFails(h)
  <2>1. at' \in [Handle -> Stage] /\ UNCHANGED <<kernel, process, files>>
    BY <1>2, GotoType DEF SpawnFails, Stage
  <2>2. QED
    BY <2>1, TypeParts, TypeFrames
<1>3. CASE CloseStdout(h) \/ CloseStderr(h)
  <2>1. at' \in [Handle -> Stage] /\ \E s \in Stream : CloseStream(h, s)
    BY <1>3, GotoType, ConstantFacts DEF CloseStdout, CloseStderr, Stage
  <2>2. FilesType' /\ UNCHANGED <<kernel, process>>
    BY <2>1, TypeParts DEF CloseStream, FilesType
  <2>3. QED
    BY <2>1, <2>2, TypeParts, TypeFrames
<1>4. QED
  BY <1>1, <1>2, <1>3, CastTypeOK DEF Starting

LEMMA ReapType ==
    ASSUME TypeOK, ProcOK, NEW h \in Handle, NEW p \in Target(h) \cap zombie, Reap(h, p)
    PROVE  KernelType' /\ status' \in [Handle -> Code \cup {Null}]
<1>1. p \in Pid /\ code[proc[p]] \in Code
  BY DEF Target, ProcOK, ZombiesEnded
<1>2. QED
  BY <1>1 DEF Reap, TypeOK, KernelType

LEMMA GivesUpType ==
    ASSUME TypeOK, ProcOK, NEW h \in Handle, GivesUp(h)
    PROVE  KernelType' /\ status' \in [Handle -> Code \cup {Null}]
                       /\ pid' \in [Handle -> Pid \cup {Null}]
<1>1. pid' \in [Handle -> Pid \cup {Null}]
  BY DEF GivesUp, TypeOK
<1>2. CASE UNCHANGED <<kernel, status>>
  BY <1>1, <1>2, TypeParts, TypeFrames DEF ProcessType
<1>3. CASE \E p \in Target(h) \cap zombie : Reap(h, p)
  BY <1>1, <1>3, ReapType
<1>4. QED
  BY <1>2, <1>3 DEF GivesUp

LEMMA CallsTypeOK ==
    ASSUME TypeOK, ProcOK, NEW h \in Handle, Calls(h)
    PROVE  TypeOK'
<1>0. at \in [Handle -> Stage] /\ KernelType /\ ProcessType /\ FilesType
  BY TypeParts
<1>1. CASE WaitPid(h)
  <2>1. KernelType' /\ status' \in [Handle -> Code \cup {Null}]
    BY <1>1, ReapType DEF WaitPid
  <2>2. ProcessType' /\ at' = at /\ UNCHANGED files
    BY <1>0, <1>1, <2>1 DEF WaitPid, ProcessType
  <2>3. QED
    BY <1>0, <2>1, <2>2, TypeParts, TypeFrames
<1>2. CASE detach(h)
  <2>1. KernelType' /\ ProcessType'
    BY <1>0, <1>2, GivesUpType DEF detach, ProcessType
  <2>2. at' = at /\ UNCHANGED files
    BY <1>2 DEF detach
  <2>3. QED
    BY <1>0, <2>1, <2>2, TypeParts, TypeFrames
<1>3. CASE Collect(h)
  <2>1. at' \in [Handle -> Stage] /\ UNCHANGED <<astray, files>>
    BY <1>3, GotoType DEF Collect, Stage
  <2>2. CASE pid[h] # Null /\ GivesUp(h) /\ UNCHANGED warned
    <3>1. KernelType' /\ ProcessType'
      BY <1>0, <2>1, <2>2, GivesUpType DEF ProcessType
    <3>2. QED
      BY <1>0, <2>1, <3>1, TypeParts, TypeFrames
  <2>3. CASE UNCHANGED <<kernel, pid, status>> /\ warned' \in SUBSET Handle
    <3>1. KernelType' /\ ProcessType'
      BY <1>0, <2>1, <2>3, TypeFrames DEF ProcessType
    <3>2. QED
      BY <1>0, <2>1, <3>1, TypeParts, TypeFrames
  <2>4. warned \cup {h} \in SUBSET Handle /\ warned \in SUBSET Handle
    BY <1>0 DEF ProcessType
  <2>5. QED
    BY <1>3, <2>2, <2>3, <2>4 DEF Collect
<1>4. CASE kill(h)
  <2>1. UNCHANGED <<at, kernel, pid, status, warned, files>> /\ astray' \in SUBSET Handle
    BY <1>0, <1>4 DEF kill, ProcessType
  <2>2. ProcessType'
    BY <1>0, <2>1 DEF ProcessType
  <2>3. QED
    BY <1>0, <2>1, <2>2, TypeParts, TypeFrames
<1>5. QED
  BY <1>1, <1>2, <1>3, <1>4 DEF Calls

LEMMA SystemTypeOK ==
    ASSUME TypeOK,
           (\E p \in Pid : Exit(p) \/ OtherProcess(p)) \/ (\E fd \in Fd : OtherFile(fd))
    PROVE  TypeOK'
<1>0. at \in [Handle -> Stage] /\ KernelType /\ ProcessType /\ FilesType
  BY TypeParts
<1>1. ASSUME NEW p \in Pid, Exit(p)
      PROVE  TypeOK'
  <2>1. proc' \in [Pid -> Handle \cup {Other, Null}] /\ zombie' \in SUBSET Pid
    BY <1>0, <1>1 DEF Exit, KernelType
  <2>2. code' \in [Handle -> Code \cup {Null}] /\ autoreap' = autoreap
    BY <1>0, <1>1 DEF Exit, KernelType
  <2>3. KernelType' /\ at' = at /\ UNCHANGED <<process, files>>
    BY <1>0, <1>1, <2>1, <2>2 DEF Exit, KernelType
  <2>4. QED
    BY <1>0, <2>3, TypeParts, TypeFrames
<1>2. ASSUME NEW p \in Pid, OtherProcess(p)
      PROVE  TypeOK'
  <2>1. KernelType' /\ at' = at /\ UNCHANGED <<process, files>>
    BY <1>0, <1>2 DEF OtherProcess, KernelType
  <2>2. QED
    BY <1>0, <2>1, TypeParts, TypeFrames
<1>3. ASSUME NEW fd \in Fd, OtherFile(fd)
      PROVE  TypeOK'
  <2>1. FilesType' /\ at' = at /\ UNCHANGED <<kernel, process>>
    BY <1>0, <1>3 DEF OtherFile, FilesType
  <2>2. QED
    BY <1>0, <2>1, TypeParts, TypeFrames
<1>4. QED
  BY <1>1, <1>2, <1>3

(* A signal goes to the pid of the child as long as there is one.          *)
LEMMA KillSafe ==
    ASSUME ProcOK, NEW h \in Handle, kill(h)
    PROVE  astray' = astray
<1>1. ASSUME NEW p \in Pid, proc[p] = h, NEW q \in Pid, proc[q] \notin {h, Null},
             pid[h] \in {q, Null}
      PROVE  FALSE
  <2>1. pid[h] = p
    BY <1>1 DEF ProcOK, KnowsChild
  <2>2. QED
    BY <1>1, <2>1, ConstantFacts
<1>2. QED
  BY <1>1 DEF kill

-------------------------------------------------------------------------------
LEMMA InitIInv == Init => IInv
<1> SUFFICES ASSUME Init
             PROVE  IInv
  OBVIOUS
<1>1. TypeOK
  BY DEF Init, TypeOK
<1>2. \A h \in Handle : at[h] = "none" /\ status[h] = Null
  BY DEF Init
<1>3. \A h \in Handle : fds_[h]["stdout"] = Null /\ fds_[h]["stderr"] = Null
  BY ConstantFacts DEF Init
<1>4. ProcOK
  BY <1>2, ConstantFacts, PastFacts DEF Init, ProcOK, KnowsChild, StatusIsCode, NoStatusYet,
                                        ZombiesEnded, NoZombies, HasChild
<1>5. FileOK
  BY <1>2, <1>3, ConstantFacts DEF Init, FileOK, NothingYet, OpenIsOwed, KeptTillTheft, Keeps,
                                   ThievesArePast, FirstThiefShares
<1>6. QED
  BY <1>1, <1>4, <1>5 DEF Init, IInv

LEMMA NextIInv == IInv /\ [Next]_vars => IInv'
<1> SUFFICES ASSUME IInv, [Next]_vars
             PROVE  IInv'
  OBVIOUS
<1>0. TypeOK /\ ProcOK /\ astray = {} /\ FileOK
  BY DEF IInv
<1>1. ASSUME NEW h \in Handle, CastStdout(h) \/ CastStderr(h) \/ CloseStdout(h) \/ CloseStderr(h)
      PROVE  IInv'
  <2>1. UNCHANGED <<kernel, process>>
    BY <1>1 DEF CastStdout, CastStderr, CloseStdout, CloseStderr, CloseStream
  <2>2. ProcOK'
    <3>1. CASE CastStdout(h)
      BY <1>0, <2>1, <3>1, ProcFrame, PastFacts DEF CastStdout, Stage
    <3>2. CASE CastStderr(h)
      BY <1>0, <2>1, <3>2, ProcFrame, PastFacts DEF CastStderr, Stage
    <3>3. CASE CloseStdout(h)
      BY <1>0, <2>1, <3>3, ProcFrame, PastFacts DEF CloseStdout, Stage
    <3>4. CASE CloseStderr(h)
      BY <1>0, <2>1, <3>4, ProcFrame, PastFacts DEF CloseStderr, Stage
    <3>5. QED
      BY <1>1, <3>1, <3>2, <3>3, <3>4
  <2>3. FileOK'
    BY <1>0, <1>1, CastStdoutFiles, CastStderrFiles, CloseFiles
  <2>4. TypeOK'
    BY <1>0, <1>1, StartingTypeOK DEF Starting
  <2>5. QED
    BY <1>0, <2>1, <2>2, <2>3, <2>4 DEF IInv, process
<1>2. ASSUME NEW h \in Handle, Spawn(h) \/ SpawnFails(h)
      PROVE  IInv'
  <2>1. ProcOK'
    <3>1. CASE SpawnFails(h)
      BY <1>0, <3>1, ProcFrame, PastFacts DEF SpawnFails, Stage
    <3>2. QED
      BY <1>0, <1>2, <3>1, SpawnProc
  <2>2. FileOK' /\ TypeOK'
    BY <1>0, <1>2, ExecFiles, StartingTypeOK DEF Starting
  <2>3. astray' = astray
    BY <1>2 DEF Spawn, SpawnFails, process
  <2>4. QED
    BY <1>0, <2>1, <2>2, <2>3 DEF IInv
<1>3. ASSUME NEW h \in Handle, Calls(h)
      PROVE  IInv'
  <2>1. ProcOK'
    <3>1. CASE detach(h)
      <4>1. at[h] = "live" /\ at' = [at EXCEPT ![h] = "live"]
        BY <1>0, <3>1 DEF detach, TypeOK
      <4>2. pid[h] # Null /\ GivesUp(h) /\ warned' = warned
        BY <3>1 DEF detach
      <4>3. QED
        BY <1>0, <4>1, <4>2, GivesUpProc
    <3>2. CASE kill(h)
      BY <1>0, <3>2 DEF kill, kernel, ProcOK, KnowsChild, StatusIsCode, NoStatusYet,
                        ZombiesEnded, NoZombies, HasChild
    <3>3. QED
      BY <1>0, <1>3, <3>1, <3>2, WaitPidProc, CollectProc DEF Calls
  <2>2. astray' = astray
    BY <1>0, <1>3, KillSafe DEF Calls, WaitPid, detach, Collect
  <2>3. FileOK'
    <3>1. UNCHANGED files
      BY <1>3 DEF Calls, WaitPid, detach, Collect, kill
    <3>2. \A g \in Handle : at'[g] = at[g] \/ (at[g] = "live" /\ at'[g] = "closed")
      BY <1>0, <1>3 DEF Calls, WaitPid, detach, Collect, kill, Goto, TypeOK
    <3>3. QED
      BY <1>0, <3>1, <3>2, FilesFrame
  <2>4. TypeOK'
    BY <1>0, <1>3, CallsTypeOK
  <2>5. QED
    BY <1>0, <2>1, <2>2, <2>3, <2>4 DEF IInv
<1>4. ASSUME NEW p \in Pid, Exit(p) \/ OtherProcess(p)
      PROVE  IInv'
  <2>1. ProcOK' /\ TypeOK'
    BY <1>0, <1>4, ExitProc, OtherProc, SystemTypeOK
  <2>2. at' = at /\ UNCHANGED <<process, files>>
    BY <1>4 DEF Exit, OtherProcess
  <2>3. FileOK'
    BY <1>0, <2>2, FilesFrame
  <2>4. QED
    BY <1>0, <2>1, <2>2, <2>3 DEF IInv, process
<1>5. ASSUME NEW fd \in Fd, OtherFile(fd)
      PROVE  IInv'
  <2>1. FileOK' /\ TypeOK' /\ UNCHANGED <<at, kernel, process>>
    BY <1>0, <1>5, OtherFiles, SystemTypeOK DEF OtherFile
  <2>2. ProcOK'
    BY <1>0, <2>1 DEF kernel, process, ProcOK, KnowsChild, StatusIsCode, NoStatusYet,
                      ZombiesEnded, NoZombies, HasChild
  <2>3. QED
    BY <1>0, <2>1, <2>2 DEF IInv, process
<1>6. CASE UNCHANGED vars
  <2>1. at' = at /\ UNCHANGED <<kernel, process, files>>
    BY <1>6 DEF vars
  <2>2. TypeOK' /\ FileOK'
    BY <1>0, <2>1, TypeParts, TypeFrames, FilesFrame
  <2>3. ProcOK'
    BY <1>0, <2>1 DEF kernel, process, ProcOK, KnowsChild, StatusIsCode, NoStatusYet,
                      ZombiesEnded, NoZombies, HasChild
  <2>4. QED
    BY <1>0, <2>1, <2>2, <2>3 DEF IInv, process
<1>7. QED
  BY <1>1, <1>2, <1>3, <1>4, <1>5, <1>6 DEF Next, Starting

LEMMA Invariance == Spec => []IInv
BY InitIInv, NextIInv, PTL DEF Spec

(* Type correctness: in particular, the status a wait stores is one that a *)
(* child ended with.                                                       *)
THEOREM TypeCorrect == Spec => []TypeOK
<1>1. IInv => TypeOK
  BY DEF IInv
<1>2. QED
  BY <1>1, Invariance, PTL

(* SignalsReachTheChild: kill and resume, which look at nothing but the    *)
(* pid, hit no stranger while the child exists, since detach keeps the pid *)
(* for as long.                                                            *)
THEOREM SignalsSafe == Spec => []SignalsReachTheChild
<1>1. IInv => SignalsReachTheChild
  BY DEF IInv, SignalsReachTheChild
<1>2. QED
  BY <1>1, Invariance, PTL

(* ReapedByItsHandle: wait and is_running take the status of the handle's  *)
(* own child, and only gc, with its warning, leaves one behind.            *)
THEOREM StatusesAreOwn == Spec => []ReapedByItsHandle
<1>1. IInv => ReapedByItsHandle
  <2> SUFFICES ASSUME IInv
               PROVE  ReapedByItsHandle
    OBVIOUS
  <2>1. KnowsChild /\ StatusIsCode /\ ZombiesEnded /\ zombie \subseteq Pid
    BY DEF IInv, ProcOK, TypeOK
  <2>2. \A h \in Handle : status[h] # Null =>
            status[h] = code[h] /\ \A p \in Pid : proc[p] # h
    BY <2>1 DEF KnowsChild, StatusIsCode
  <2>3. ASSUME NEW p \in zombie, at[proc[p]] = "closed"
        PROVE  proc[p] \in warned
    <3>1. PICK h \in Handle : proc[p] = h
      BY <2>1 DEF ZombiesEnded
    <3>2. QED
      BY <2>1, <2>3, <3>1 DEF KnowsChild
  <2>4. QED
    BY <2>2, <2>3 DEF ReapedByItsHandle
<1>2. QED
  BY <1>1, Invariance, PTL

(* DescriptorsClosedOnce: the loop after posix_spawn closes every number   *)
(* that the spawn opened and put in fds_, 0 excepted, and the first        *)
(* descriptor of somebody else that it ever closes is closed by a spawn    *)
(* whose stderr shares stdout's.                                           *)
THEOREM SpawnsClose == Spec => []DescriptorsClosedOnce
<1>1. IInv => DescriptorsClosedOnce
  <2> SUFFICES ASSUME IInv
               PROVE  DescriptorsClosedOnce
    OBVIOUS
  <2>1. FirstThiefShares /\ OpenIsOwed
    BY DEF IInv, FileOK
  <2>2. ASSUME NEW fd \in Fd, open[fd] \in Handle, ~Kept(fd)
        PROVE  at[open[fd]] \notin {"live", "closed"}
    <3>1. ~Abandons(open[fd], fd)
      BY <2>2, ConstantFacts DEF Kept, Abandons
    <3>2. Owes(open[fd], fd)
      BY <2>1, <2>2, <3>1 DEF OpenIsOwed
    <3>3. QED
      BY <3>2 DEF Owes
  <2>3. QED
    BY <2>1, <2>2 DEF FirstThiefShares, DescriptorsClosedOnce
<1>2. QED
  BY <1>1, Invariance, PTL
===============================================================================
