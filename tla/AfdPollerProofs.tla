---------------------------- MODULE AfdPollerProofs ----------------------------
(***************************************************************************)
(* For any sockets, addresses, masks and size of the span: the driver only *)
(* ever writes to poller_fd objects that are there, and no registration is *)
(* forgotten by a script that deletes before it closes.                    *)
(***************************************************************************)
EXTENDS AfdPoller, TLAPS

USE RoomIsPositive, FlagsAreNoDirections, MasksAreMasks, NothingIsNoObject, FreedIsNoObject

(* What is under way for a registered object is what its pend says.        *)
PendIsAsked ==
    \A o \in Obj : Registered(o) =>
        /\ poll[o].at = "kernel" => obj[o].status = "pending" /\ obj[o].pend = poll[o].ev
        /\ obj[o].status = "idle" => obj[o].pend = {}

(* A script that has not strayed has open sockets registered only.         *)
Careful == ~strayed => \A s \in Sock : fds[s] # NoObj => s \in open

GoneIsEmpty ==
    pc = "gone" => /\ \A o \in Obj : poll[o] = NoPoll
                   /\ \A s \in Sock : fds[s] = NoObj
                   /\ missed = {}

IInv == TypeOK /\ ObjectsHeld /\ NothingForgotten /\ PendIsAsked /\ Careful /\ GoneIsEmpty

LEMMA InitInv == Init => IInv
<1>. SUFFICES ASSUME Init PROVE IInv
  OBVIOUS
<1>. USE DEF Init, NoPoll
<1>1. TypeOK BY DEF TypeOK
<1>2. ObjectsHeld BY DEF ObjectsHeld, Registered
<1>3. NothingForgotten /\ PendIsAsked /\ Careful /\ GoneIsEmpty
  BY DEF NothingForgotten, PendIsAsked, Careful, GoneIsEmpty, Registered
<1>. QED BY <1>1, <1>2, <1>3 DEF IInv

-------------------------------------------------------------------------------
LEMMA CtlAdd == ASSUME IInv, NEW s \in Sock, NEW ev \in Masks, ctl_add(s, ev) PROVE IInv'
<1>. USE DEF IInv
<1>1. PICK o \in Obj :
        /\ obj[o] = Freed
        /\ obj' = [obj EXCEPT ![o] = [sock |-> s, user |-> ev \cup {"err"}, pend |-> {},
                                      status |-> "idle", del |-> FALSE]]
        /\ fds' = [fds EXCEPT ![s] = o] /\ queue' = Enqueued(o)
  BY DEF ctl_add
<1>2. /\ [sock |-> s, user |-> ev \cup {"err"}, pend |-> {}, status |-> "idle", del |-> FALSE] \in Poller_fd
      /\ pc = "idle" /\ fds[s] = NoObj /\ s \in open
      /\ UNCHANGED <<pc, poll, events, missed, open, ready, strayed>>
  BY DEF ctl_add, Poller_fd, Mask, Event
<1>3. TypeOK' BY <1>1, <1>2 DEF TypeOK, Enqueued
<1>4. poll[o].at = "none" /\ o \notin queue BY <1>1, <1>2 DEF ObjectsHeld, Registered, TypeOK
<1>9. obj'[o].sock = s /\ obj'[o].status = "idle" /\ obj'[o].del = FALSE /\ obj'[o] # Freed
  BY <1>1, <1>2 DEF TypeOK
<1>10. \A p \in Obj \ {o} : obj'[p] = obj[p] BY <1>1 DEF TypeOK
<1>5. ObjectsHeld'
  <2>. SUFFICES ASSUME NEW p \in Obj
       PROVE /\ poll[p].at # "none" <=> obj'[p] # Freed /\ obj'[p].status # "idle"
             /\ p \in queue' => Registered(p)'
             /\ \A t \in Sock : fds'[t] = p <=> Registered(p)' /\ obj'[p].sock = t
             /\ obj'[p] # Freed /\ obj'[p].del => poll[p].at # "none"
    BY <1>2 DEF ObjectsHeld
  <2>1. CASE p = o BY <1>1, <1>2, <1>4, <1>9, <2>1 DEF ObjectsHeld, Registered, TypeOK
  <2>2. CASE p # o
    <3>1. \A t \in Sock : fds'[t] = p <=> fds[t] = p BY <1>1, <1>2, <2>2 DEF TypeOK
    <3>. QED BY <1>1, <1>2, <1>10, <2>2, <3>1 DEF ObjectsHeld, Registered, Enqueued
  <2>. QED BY <2>1, <2>2
<1>6. NothingForgotten' BY <1>1, <1>2, <1>4 DEF NothingForgotten, ObjectsHeld, Registered, TypeOK, Enqueued
<1>7. PendIsAsked' BY <1>1, <1>2, <1>4 DEF PendIsAsked, Registered, TypeOK
<1>8. Careful' /\ GoneIsEmpty' BY <1>1, <1>2 DEF Careful, GoneIsEmpty, TypeOK
<1>. QED BY <1>3, <1>5, <1>6, <1>7, <1>8

LEMMA CtlMod == ASSUME IInv, NEW s \in Sock, NEW ev \in Masks, ctl_mod(s, ev) PROVE IInv'
<1>. USE DEF IInv
<1>. DEFINE o == fds[s]  user == ev \cup {"err"}
<1>1. /\ pc = "idle" /\ o # NoObj /\ o \in Obj
      /\ obj' = [obj EXCEPT ![o].user = user]
      /\ IF Fresh(o, user) THEN queue' = Enqueued(o) /\ missed' = missed \ {o}
                           ELSE UNCHANGED <<queue, missed>>
      /\ UNCHANGED <<pc, fds, poll, events, open, ready, strayed>>
  BY DEF ctl_mod, TypeOK
<1>2. Registered(o) /\ obj[o] \in Poller_fd /\ obj[o].sock = s
  BY <1>1 DEF ObjectsHeld, Registered, TypeOK
<1>. HIDE DEF o
<1>3. user \in Mask BY DEF Mask, Event
<1>4. [obj[o] EXCEPT !.user = user] \in Poller_fd BY <1>2, <1>3 DEF Poller_fd
<1>5. TypeOK' BY <1>1, <1>4 DEF TypeOK, Enqueued
<1>6. /\ \A p \in Obj : Registered(p)' <=> Registered(p)
      /\ \A p \in Obj : obj'[p] = Freed <=> obj[p] = Freed
      /\ \A p \in Obj : obj[p] # Freed =>
            /\ obj'[p].status = obj[p].status /\ obj'[p].sock = obj[p].sock
            /\ obj'[p].pend = obj[p].pend /\ obj'[p].del = obj[p].del
      /\ \A p \in Obj \ {o} : obj'[p] = obj[p]
      /\ obj'[o].user = user
  <2>1. \A p \in Obj \ {o} : obj'[p] = obj[p] BY <1>1 DEF TypeOK
  <2>2. obj'[o] = [obj[o] EXCEPT !.user = user] BY <1>1 DEF TypeOK
  <2>3. /\ obj'[o].status = obj[o].status /\ obj'[o].sock = obj[o].sock /\ obj'[o].user = user
        /\ obj'[o].pend = obj[o].pend /\ obj'[o].del = obj[o].del /\ obj'[o] # Freed
    BY <1>2, <1>4, <2>2 DEF Poller_fd
  <2>. QED BY <1>2, <2>1, <2>3 DEF Registered
<1>7. ObjectsHeld' BY <1>1, <1>2, <1>6 DEF ObjectsHeld, Enqueued, Registered
<1>8. PendIsAsked' BY <1>1, <1>6 DEF PendIsAsked
<1>9. \A t \in Sock : fds[t] = o => t = s BY <1>1, <1>2 DEF ObjectsHeld
<1>10. o \in queue' \cup missed' \/ poll[o].at \in {"port", "batch"}
       \/ (poll[o].at = "kernel" /\ Asked(user) \subseteq poll[o].ev)
  <2>1. CASE Fresh(o, user) BY <1>1, <2>1 DEF Enqueued
  <2>2. CASE ~Fresh(o, user)
    <3>1. "err" \in obj[o].pend BY <2>2 DEF Fresh, Asked
    <3>2. poll[o].at # "none" BY <1>1, <1>2, <3>1 DEF PendIsAsked, ObjectsHeld, Registered
    <3>3. CASE poll[o].at = "kernel" BY <1>1, <1>2, <2>2, <3>3 DEF PendIsAsked, Fresh
    <3>. QED BY <1>1, <3>2, <3>3 DEF TypeOK
  <2>. QED BY <2>1, <2>2
<1>11. NothingForgotten'
  <2>1. ASSUME NEW t \in Sock, fds[t] # NoObj, t # s
        PROVE \/ fds[t] \in queue' \cup missed' \/ poll[fds[t]].at \in {"port", "batch"}
              \/ poll[fds[t]].at = "kernel" /\ Asked(obj'[fds[t]].user) \subseteq poll[fds[t]].ev
    BY <1>1, <1>6, <1>9, <2>1 DEF NothingForgotten, Enqueued, TypeOK
  <2>. QED BY <1>1, <1>6, <1>10, <2>1 DEF NothingForgotten, o
<1>12. Careful' /\ GoneIsEmpty' BY <1>1 DEF Careful, GoneIsEmpty
<1>. QED BY <1>5, <1>7, <1>8, <1>11, <1>12

-------------------------------------------------------------------------------
(* What has to be checked of a step that changes one object, and whether   *)
(* it is queued, but not what is registered.                               *)
Covered(o) ==
    \/ o \in queue \cup missed \/ poll[o].at \in {"port", "batch"}
    \/ poll[o].at = "kernel" /\ Asked(obj[o].user) \subseteq poll[o].ev

PendExact(o) ==
    /\ poll[o].at = "kernel" => obj[o].status = "pending" /\ obj[o].pend = poll[o].ev
    /\ obj[o].status = "idle" => obj[o].pend = {}

LEMMA OneObject ==
  ASSUME IInv, TypeOK', NEW o \in Obj, pc # "gone", pc' # "gone",
         UNCHANGED <<fds, open, strayed>>, obj[o] # Freed, obj'[o] # Freed,
         \A p \in Obj \ {o} : obj'[p] = obj[p] /\ poll'[p] = poll[p],
         obj'[o].sock = obj[o].sock, obj'[o].del = obj[o].del,
         queue \ {o} \subseteq queue', queue' \subseteq queue \cup {o},
         missed \ {o} \subseteq missed', missed' \subseteq missed,
         poll'[o].at # "none" <=> obj'[o].status # "idle",
         o \in queue' => Registered(o),
         obj[o].del => poll'[o].at # "none",
         Registered(o) => Covered(o)' /\ PendExact(o)'
  PROVE  IInv'
<1>1. \A p \in Obj : Registered(p)' <=> Registered(p) BY DEF Registered
<1>2. ObjectsHeld' BY <1>1 DEF IInv, ObjectsHeld, Registered
<1>3. PendIsAsked' BY <1>1 DEF IInv, PendIsAsked, PendExact
<1>4. NothingForgotten'
  <2>1. ASSUME NEW s \in Sock, fds[s] # NoObj PROVE Covered(fds[s])'
    <3>1. fds[s] \in Obj /\ Registered(fds[s]) BY <2>1 DEF IInv, TypeOK, ObjectsHeld
    <3>2. CASE fds[s] = o BY <3>1, <3>2
    <3>3. CASE fds[s] # o
      <4>1. Covered(fds[s]) BY <2>1 DEF IInv, NothingForgotten, Covered
      <4>. QED BY <3>1, <3>3, <4>1 DEF Covered
    <3>. QED BY <3>2, <3>3
  <2>. QED BY <2>1 DEF IInv, NothingForgotten, Covered
<1>5. Careful' /\ GoneIsEmpty' BY DEF IInv, Careful, GoneIsEmpty
<1>. QED BY <1>2, <1>3, <1>4, <1>5 DEF IInv

(* And of one that ends a registration, or an object that was deleted.     *)
LEMMA OneGoes ==
  ASSUME IInv, TypeOK', NEW o \in Obj, pc # "gone", pc' # "gone",
         UNCHANGED <<open, strayed>>, obj[o] # Freed, ~Registered(o)',
         \A p \in Obj \ {o} : obj'[p] = obj[p] /\ poll'[p] = poll[p],
         \A s \in Sock : fds'[s] = IF fds[s] = o THEN NoObj ELSE fds[s],
         o \notin queue', queue' \subseteq queue, queue \ {o} \subseteq queue' \cup missed',
         missed \ {o} \subseteq missed', missed' # {} => strayed,
         poll'[o].at # "none" <=> obj'[o] # Freed /\ obj'[o].status # "idle",
         obj'[o] # Freed => poll'[o].at # "none"
  PROVE  IInv'
<1>1. \A p \in Obj \ {o} : Registered(p)' <=> Registered(p) BY DEF Registered
<1>2. ObjectsHeld'
  <2>. SUFFICES ASSUME NEW p \in Obj
       PROVE /\ poll'[p].at # "none" <=> obj'[p] # Freed /\ obj'[p].status # "idle"
             /\ p \in queue' => Registered(p)'
             /\ \A t \in Sock : fds'[t] = p <=> Registered(p)' /\ obj'[p].sock = t
             /\ obj'[p] # Freed /\ obj'[p].del => poll'[p].at # "none"
    BY DEF ObjectsHeld
  <2>1. CASE p = o
    <3>1. \A t \in Sock : fds'[t] # o OBVIOUS
    <3>. QED BY <2>1, <3>1
  <2>2. CASE p # o
    <3>1. \A t \in Sock : fds'[t] = p <=> fds[t] = p BY <2>2
    <3>. QED BY <1>1, <2>2, <3>1 DEF IInv, ObjectsHeld
  <2>. QED BY <2>1, <2>2
<1>3. PendIsAsked' BY <1>1 DEF IInv, PendIsAsked
<1>4. NothingForgotten'
  <2>1. ASSUME NEW s \in Sock, NEW q \in Obj, fds'[s] = q PROVE Covered(q)'
    <3>1. fds[s] = q /\ q # o BY <2>1
    <3>2. Covered(q) BY <3>1 DEF IInv, NothingForgotten, Covered
    <3>. QED BY <3>1, <3>2 DEF Covered
  <2>2. \A s \in Sock : fds'[s] # NoObj => fds'[s] \in Obj BY DEF TypeOK
  <2>. QED BY <2>1, <2>2 DEF NothingForgotten, Covered
<1>5. Careful' /\ GoneIsEmpty' BY DEF IInv, Careful, GoneIsEmpty
<1>. QED BY <1>2, <1>3, <1>4, <1>5 DEF IInv

-------------------------------------------------------------------------------
LEMMA CtlDel == ASSUME IInv, NEW s \in Sock, ctl_del(s) PROVE IInv'
<1>1. /\ pc = "idle" /\ UNCHANGED <<pc, events, open, ready, strayed>>
      /\ TypeOK /\ ObjectsHeld /\ NothingForgotten
  BY DEF ctl_del, IInv
<1>2. PICK o \in Obj :
        /\ fds[s] = o /\ Unregister(o) /\ queue' = queue \ {o}
        /\ IF obj[o].status = "idle" THEN Free(o) /\ UNCHANGED poll ELSE destroy_busy(o)
  BY <1>1 DEF ctl_del, TypeOK
<1>3. obj[o] \in Poller_fd /\ obj[o] # Freed /\ ~obj[o].del /\ obj[o].sock = s
  BY <1>1, <1>2 DEF ObjectsHeld, Registered, TypeOK
<1>4. \A t \in Sock : fds'[t] = IF fds[t] = o THEN NoObj ELSE fds[t]
  BY <1>1, <1>2, <1>3 DEF Unregister, ObjectsHeld, TypeOK
<1>5. missed' = missed \ {o} /\ fds' \in [Sock -> Obj \cup {NoObj}]
  BY <1>1, <1>2, <1>3 DEF Unregister, TypeOK
<1>6. missed' # {} => strayed BY <1>1, <1>5 DEF NothingForgotten
<1>7. CASE obj[o].status = "idle"
  <2>1. obj' = [obj EXCEPT ![o] = Freed] /\ UNCHANGED poll BY <1>2, <1>7 DEF Free
  <2>2. obj'[o] = Freed /\ poll'[o].at = "none" BY <1>1, <1>7, <2>1 DEF ObjectsHeld, TypeOK
  <2>3. TypeOK' BY <1>1, <1>2, <1>5, <2>1 DEF TypeOK
  <2>4. \A p \in Obj \ {o} : obj'[p] = obj[p] /\ poll'[p] = poll[p] BY <1>1, <2>1 DEF TypeOK
  <2>. QED BY <1>1, <1>2, <1>3, <1>4, <1>5, <1>6, <2>2, <2>3, <2>4, OneGoes DEF Registered
<1>8. CASE obj[o].status # "idle"
  <2>1. PICK status \in {"pending", "cancelled"} :
          obj' = [obj EXCEPT ![o].del = TRUE, ![o].status = status, ![o].user = {}, ![o].pend = {}]
    BY <1>2, <1>8 DEF destroy_busy, Deleted
  <2>2. /\ poll' \in [Obj -> [at : {"none", "kernel", "port", "batch"}, ev : SUBSET (Event \cup {"closed"})]]
        /\ poll'[o].at # "none"
        /\ \A p \in Obj \ {o} : poll'[p] = poll[p]
    <3>1. poll[o].at # "none" BY <1>1, <1>3, <1>8 DEF ObjectsHeld
    <3>2. Cancelled(o) \in [at : {"none", "kernel", "port", "batch"}, ev : SUBSET (Event \cup {"closed"})]
          /\ Cancelled(o).at # "none"
      BY <1>1, <3>1 DEF Cancelled, TypeOK
    <3>3. poll' = [poll EXCEPT ![o] = Cancelled(o)] \/ poll' = poll
      BY <1>2, <1>8 DEF destroy_busy, Cancel, CancelFails
    <3>. HIDE DEF Cancelled
    <3>. QED BY <1>1, <3>1, <3>2, <3>3 DEF TypeOK
  <2>3. obj'[o] = [obj[o] EXCEPT !.del = TRUE, !.status = status, !.user = {}, !.pend = {}]
    BY <1>1, <2>1 DEF TypeOK
  <2>4. obj'[o] \in Poller_fd /\ obj'[o].del = TRUE /\ obj'[o].status # "idle"
    BY <1>3, <2>3 DEF Poller_fd, Mask
  <2>5. obj' \in [Obj -> Poller_fd \cup {Freed}] BY <1>1, <2>1, <2>3, <2>4 DEF TypeOK
  <2>6. TypeOK' BY <1>1, <1>2, <1>5, <2>2, <2>5 DEF TypeOK
  <2>7. \A p \in Obj \ {o} : obj'[p] = obj[p] BY <1>1, <2>1 DEF TypeOK
  <2>. QED BY <1>1, <1>2, <1>3, <1>4, <1>5, <1>6, <2>2, <2>4, <2>6, <2>7, OneGoes DEF Registered
<1>. QED BY <1>7, <1>8

LEMMA UpdateKept == ASSUME IInv, NEW o \in Obj, update_kept(o) PROVE IInv'
<1>1. /\ pc = "update" /\ o \in queue /\ queue' = queue \ {o}
      /\ obj[o].status = "cancelled" \/ (obj[o].status = "pending" /\ ~Lacking(o))
      /\ UNCHANGED <<pc, obj, fds, poll, events, missed, open, ready, strayed>>
  BY DEF update_kept
<1>2. Registered(o) /\ obj[o] # Freed /\ poll[o].at # "none"
  BY <1>1 DEF IInv, ObjectsHeld, Registered
<1>3. TypeOK' BY <1>1 DEF IInv, TypeOK
<1>4. PendExact(o) BY <1>2 DEF IInv, PendIsAsked, PendExact
<1>5. Covered(o)' /\ PendExact(o)'
  BY <1>1, <1>2, <1>4 DEF Covered, PendExact, Lacking, IInv, TypeOK
<1>. QED BY <1>1, <1>2, <1>3, <1>5, OneObject DEF IInv, ObjectsHeld, Registered

LEMMA UpdateCancels == ASSUME IInv, NEW o \in Obj, update_cancels(o) PROVE IInv'
<1>1. /\ pc = "update" /\ o \in queue /\ queue' = queue \ {o}
      /\ obj[o].status = "pending" /\ poll' = [poll EXCEPT ![o] = Cancelled(o)]
      /\ obj' = [obj EXCEPT ![o].status = "cancelled", ![o].pend = {}]
      /\ UNCHANGED <<pc, fds, events, missed, open, ready, strayed>>
  BY DEF update_cancels, Cancel
<1>2. Registered(o) /\ obj[o] # Freed /\ obj[o] \in Poller_fd /\ poll[o].at # "none"
  BY <1>1 DEF IInv, ObjectsHeld, Registered, TypeOK
<1>3. Cancelled(o) \in [at : {"port", "batch"}, ev : SUBSET (Event \cup {"closed"})]
  BY <1>2 DEF Cancelled, IInv, TypeOK
<1>4. obj'[o] = [obj[o] EXCEPT !.status = "cancelled", !.pend = {}] BY <1>1 DEF IInv, TypeOK
<1>5. obj'[o] \in Poller_fd /\ obj'[o].status = "cancelled" /\ obj'[o].pend = {} /\ obj'[o] # Freed
      /\ obj'[o].sock = obj[o].sock /\ obj'[o].del = obj[o].del
  <2>1. obj'[o] \in Poller_fd BY <1>2, <1>4 DEF Poller_fd
  <2>2. obj'[o] # Freed BY <2>1
  <2>. QED BY <1>2, <1>4, <2>1, <2>2 DEF Poller_fd
<1>6. poll'[o] = Cancelled(o)  BY <1>1 DEF IInv, TypeOK
<1>7. TypeOK' BY <1>1, <1>3, <1>4, <1>5 DEF IInv, TypeOK
<1>8. \A p \in Obj \ {o} : obj'[p] = obj[p] /\ poll'[p] = poll[p] BY <1>1 DEF IInv, TypeOK
<1>9. Covered(o)' /\ PendExact(o)' BY <1>3, <1>5, <1>6 DEF Covered, PendExact
<1>. QED BY <1>1, <1>2, <1>3, <1>5, <1>6, <1>7, <1>8, <1>9, OneObject DEF Registered

LEMMA UpdatePolls == ASSUME IInv, NEW o \in Obj, update_polls(o) PROVE IInv'
<1>. DEFINE asked == [at |-> "kernel", ev |-> Asked(obj[o].user)]
<1>1. /\ pc = "update" /\ o \in queue /\ queue' = queue \ {o} /\ obj[o].status = "idle"
      /\ poll' = [poll EXCEPT ![o] = asked]
      /\ obj' = [obj EXCEPT ![o].status = "pending", ![o].pend = Asked(obj[o].user)]
      /\ UNCHANGED <<pc, fds, events, missed, open, ready, strayed>>
  BY DEF update_polls
<1>2. Registered(o) /\ obj[o] # Freed /\ obj[o] \in Poller_fd
  BY <1>1 DEF IInv, ObjectsHeld, Registered, TypeOK
<1>3. Asked(obj[o].user) \in SUBSET Event BY <1>2 DEF Asked, Poller_fd, Mask
<1>4. obj'[o] = [obj[o] EXCEPT !.status = "pending", !.pend = Asked(obj[o].user)]
  BY <1>1 DEF IInv, TypeOK
<1>5. obj'[o] \in Poller_fd /\ obj'[o].status = "pending" /\ obj'[o] # Freed
      /\ obj'[o].pend = Asked(obj[o].user) /\ obj'[o].user = obj[o].user
      /\ obj'[o].sock = obj[o].sock /\ obj'[o].del = obj[o].del
  <2>1. obj'[o] \in Poller_fd BY <1>2, <1>3, <1>4 DEF Poller_fd
  <2>2. obj'[o] # Freed BY <2>1
  <2>. QED BY <1>2, <1>4, <2>1, <2>2 DEF Poller_fd
<1>6. poll'[o] = asked /\ poll'[o].at = "kernel" BY <1>1 DEF IInv, TypeOK
<1>7. TypeOK' BY <1>1, <1>3, <1>4, <1>5 DEF IInv, TypeOK
<1>8. \A p \in Obj \ {o} : obj'[p] = obj[p] /\ poll'[p] = poll[p] BY <1>1 DEF IInv, TypeOK
<1>9. Covered(o)' /\ PendExact(o)' BY <1>5, <1>6 DEF Covered, PendExact
<1>. QED BY <1>1, <1>2, <1>5, <1>6, <1>7, <1>8, <1>9, OneObject DEF Registered

LEMMA UpdateCloses == ASSUME IInv, NEW o \in Obj, update_closes(o) PROVE IInv'
<1>1. /\ pc = "update" /\ o \in queue /\ obj[o].status = "idle" /\ obj[o].sock \notin open
      /\ Free(o) /\ UNCHANGED <<pc, poll, events, open, ready, strayed>>
  BY DEF update_closes
<1>2. PICK x \in ErasedOver(o) :
        /\ queue' = queue \ ({o} \cup x)
        /\ fds' = [fds EXCEPT ![obj[o].sock] = NoObj] /\ missed' = (missed \cup x) \ {o}
  BY DEF update_closes
<1>3. x \subseteq queue \ {o} BY <1>2 DEF ErasedOver
<1>4. Registered(o) /\ obj[o] \in Poller_fd /\ obj[o] # Freed /\ poll[o].at = "none"
  BY <1>1 DEF IInv, ObjectsHeld, Registered, TypeOK
<1>5. obj[o].sock \in Sock /\ fds[obj[o].sock] = o BY <1>1, <1>4 DEF IInv, ObjectsHeld, Poller_fd, Registered
<1>6. strayed BY <1>1, <1>5 DEF IInv, Careful
<1>7. \A t \in Sock : fds'[t] = IF fds[t] = o THEN NoObj ELSE fds[t]
  BY <1>1, <1>2, <1>5 DEF IInv, ObjectsHeld, TypeOK
<1>8. obj' = [obj EXCEPT ![o] = Freed] BY <1>1 DEF Free
<1>9. obj'[o] = Freed /\ \A p \in Obj \ {o} : obj'[p] = obj[p] /\ poll'[p] = poll[p]
  BY <1>1, <1>8 DEF IInv, TypeOK
<1>10. TypeOK' BY <1>1, <1>2, <1>3, <1>8 DEF IInv, TypeOK
<1>. QED BY <1>1, <1>2, <1>3, <1>4, <1>6, <1>7, <1>9, <1>10, OneGoes DEF Registered

LEMMA FeedClosed == ASSUME IInv, NEW o \in Obj, feed_closed(o) PROVE IInv'
<1>1. /\ pc = "feed" /\ poll[o].at = "batch"
      /\ poll' = [poll EXCEPT ![o] = NoPoll] /\ obj' = [obj EXCEPT ![o] = Freed]
      /\ IF obj[o].del THEN UNCHANGED <<fds, queue, missed>>
                       ELSE Unregister(o) /\ queue' = queue \ {o}
      /\ UNCHANGED <<pc, events, open, ready, strayed>>
  BY DEF feed_closed, InBatch, Free
<1>2. obj[o] # Freed /\ obj[o] \in Poller_fd BY <1>1 DEF IInv, ObjectsHeld, TypeOK
<1>3. obj'[o] = Freed /\ poll'[o].at = "none" BY <1>1 DEF IInv, TypeOK, NoPoll
<1>4. \A p \in Obj \ {o} : obj'[p] = obj[p] /\ poll'[p] = poll[p] BY <1>1 DEF IInv, TypeOK
<1>5. CASE obj[o].del
  <2>1. ~Registered(o) /\ o \notin queue /\ \A t \in Sock : fds[t] # o
    BY <1>5, <1>1 DEF Registered, IInv, ObjectsHeld
  <2>2. TypeOK' BY <1>1, <1>5 DEF IInv, TypeOK, NoPoll
  <2>3. \A t \in Sock : fds'[t] = IF fds[t] = o THEN NoObj ELSE fds[t] BY <1>1, <1>5, <2>1
  <2>4. missed' # {} => strayed BY <1>1, <1>5 DEF IInv, NothingForgotten
  <2>. QED BY <1>1, <1>2, <1>3, <1>4, <1>5, <2>1, <2>2, <2>3, <2>4, OneGoes DEF Registered
<1>6. CASE ~obj[o].del
  <2>1. obj[o].sock \in Sock /\ fds[obj[o].sock] = o
    BY <1>1, <1>2, <1>6 DEF IInv, ObjectsHeld, Poller_fd, Registered
  <2>2. fds' = [fds EXCEPT ![obj[o].sock] = NoObj] /\ missed' = missed \ {o} /\ queue' = queue \ {o}
    BY <1>1, <1>6 DEF Unregister
  <2>3. \A t \in Sock : fds'[t] = IF fds[t] = o THEN NoObj ELSE fds[t]
    BY <1>1, <2>1, <2>2 DEF IInv, ObjectsHeld, TypeOK
  <2>4. TypeOK' BY <1>1, <2>2 DEF IInv, TypeOK, NoPoll
  <2>5. missed' # {} => strayed BY <2>2 DEF IInv, NothingForgotten
  <2>. QED BY <1>1, <1>2, <1>3, <1>4, <2>2, <2>3, <2>4, <2>5, OneGoes DEF Registered
<1>. QED BY <1>5, <1>6

LEMMA FeedEvent == ASSUME IInv, NEW o \in Obj, feed_event(o) PROVE IInv'
<1>. DEFINE told == poll[o].ev \cap obj[o].user
<1>1. /\ pc = "feed" /\ poll[o].at = "batch" /\ ~obj[o].del /\ "closed" \notin poll[o].ev
      /\ obj' = [obj EXCEPT ![o] = AfterFeed(o, told)]
      /\ events' = events \cup {<<obj[o].sock, e>> : e \in told}
      /\ poll' = [poll EXCEPT ![o] = NoPoll]
      /\ queue' = queue \cup {o} /\ missed' = missed \ {o}
      /\ UNCHANGED <<pc, fds, open, ready, strayed>>
  BY DEF feed_event, InBatch, Enqueued
<1>2. obj[o] # Freed /\ obj[o] \in Poller_fd /\ Registered(o)
  BY <1>1 DEF IInv, ObjectsHeld, TypeOK, Registered
<1>3. obj'[o] = AfterFeed(o, told) /\ poll'[o] = NoPoll /\ poll'[o].at = "none"
  BY <1>1 DEF IInv, TypeOK, NoPoll
<1>4. AfterFeed(o, told) \in Poller_fd BY <1>2 DEF AfterFeed, Poller_fd, Mask
<1>5. obj'[o] \in Poller_fd /\ obj'[o] # Freed BY <1>3, <1>4
<1>6. /\ obj'[o].status = "idle" /\ obj'[o].pend = {}
      /\ obj'[o].sock = obj[o].sock /\ obj'[o].del = obj[o].del
  BY <1>2, <1>3 DEF AfterFeed, Poller_fd
<1>7. told \subseteq Event BY <1>1 DEF IInv, TypeOK
<1>8. events' \subseteq Sock \X Event BY <1>1, <1>2, <1>7 DEF IInv, TypeOK, Poller_fd
<1>9. \A p \in Obj \ {o} : obj'[p] = obj[p] /\ poll'[p] = poll[p] BY <1>1 DEF IInv, TypeOK
<1>10. NoPoll \in [at : {"none", "kernel", "port", "batch"}, ev : SUBSET (Event \cup {"closed"})]
  BY DEF NoPoll
<1>11. TypeOK'
  <2>. HIDE DEF told
  <2>. QED BY <1>1, <1>4, <1>8, <1>10 DEF IInv, TypeOK
<1>12. Covered(o)' /\ PendExact(o)' BY <1>1, <1>3, <1>6 DEF Covered, PendExact
<1>. QED BY <1>1, <1>2, <1>3, <1>5, <1>6, <1>9, <1>11, <1>12, OneObject DEF Registered

LEMMA Answered ==
  ASSUME IInv, NEW o \in Obj, NEW ev \in SUBSET (Event \cup {"closed"}), Answer(o, ev)
  PROVE  IInv'
<1>. DEFINE answer == [at |-> "port", ev |-> ev]
<1>1. /\ poll[o].at = "kernel" /\ poll' = [poll EXCEPT ![o] = answer]
      /\ UNCHANGED <<pc, obj, fds, queue, events, missed, open, ready, strayed>>
  BY DEF Answer
<1>2. pc # "gone" BY <1>1 DEF IInv, GoneIsEmpty, NoPoll
<1>3. obj[o] # Freed /\ obj[o].status # "idle" BY <1>1, <1>2 DEF IInv, ObjectsHeld
<1>4. poll'[o].at = "port" BY <1>1 DEF IInv, TypeOK
<1>5. TypeOK' BY <1>1 DEF IInv, TypeOK
<1>6. \A p \in Obj \ {o} : obj'[p] = obj[p] /\ poll'[p] = poll[p] BY <1>1 DEF IInv, TypeOK
<1>7. Covered(o)' /\ PendExact(o)' BY <1>1, <1>3, <1>4 DEF Covered, PendExact
<1>8. o \in queue => Registered(o) BY <1>2 DEF IInv, ObjectsHeld
<1>. QED BY <1>1, <1>2, <1>3, <1>4, <1>5, <1>6, <1>7, <1>8, OneObject

LEMMA AfdReady == ASSUME IInv, NEW o \in Obj, afd_ready(o) PROVE IInv'
<1>. DEFINE ev == poll[o].ev \cap ready[obj[o].sock]
<1>1. Answer(o, ev) BY DEF afd_ready
<1>2. ev \in SUBSET (Event \cup {"closed"}) BY DEF IInv, TypeOK
<1>. HIDE DEF ev
<1>. QED BY <1>1, <1>2, Answered

LEMMA AfdFails == ASSUME IInv, NEW o \in Obj, afd_fails(o) PROVE IInv'
BY Answered DEF afd_fails, Event

-------------------------------------------------------------------------------
(* Steps that only move polls on: every poll keeps being under way, and a  *)
(* registered object's stays with the driver as it is or has completed.    *)
LEMMA PollsMove ==
  ASSUME IInv, TypeOK', pc # "gone", pc' # "gone",
         UNCHANGED <<obj, fds, queue, missed>>,
         \A o \in Obj : \/ poll'[o] = poll[o]
                        \/ poll[o].at # "none" /\ poll'[o].at \in {"port", "batch"},
         missed # {} => strayed', Careful'
  PROVE  IInv'
<1>1. \A o \in Obj : Registered(o)' <=> Registered(o) BY DEF Registered
<1>2. ObjectsHeld' BY <1>1 DEF IInv, ObjectsHeld
<1>3. PendIsAsked' BY <1>1, <1>2 DEF IInv, PendIsAsked, ObjectsHeld, Registered
<1>4. NothingForgotten' BY DEF IInv, NothingForgotten, TypeOK
<1>5. GoneIsEmpty' BY DEF GoneIsEmpty
<1>. QED BY <1>2, <1>3, <1>4, <1>5 DEF IInv

LEMMA Dequeue == ASSUME IInv, NEW b \in Batches, dequeue(b) PROVE IInv'
<1>1. /\ pc = "update" /\ pc' = "feed"
      /\ poll' = [o \in Obj |-> IF o \in b THEN [poll[o] EXCEPT !.at = "batch"] ELSE poll[o]]
      /\ UNCHANGED <<obj, fds, queue, events, missed, open, ready, strayed>>
  BY DEF dequeue
<1>2. \A o \in b : o \in Obj /\ poll[o].at = "port" BY DEF Batches, InPort
<1>3. \A o \in Obj : \/ poll'[o] = poll[o]
                     \/ poll[o].at # "none" /\ poll'[o].at \in {"port", "batch"}
  BY <1>1, <1>2 DEF IInv, TypeOK
<1>4. TypeOK' BY <1>1 DEF IInv, TypeOK
<1>5. Careful' BY <1>1 DEF IInv, Careful
<1>6. missed # {} => strayed' BY <1>1 DEF IInv, NothingForgotten
<1>. QED BY <1>1, <1>3, <1>4, <1>5, <1>6, PollsMove

LEMMA SocketClose == ASSUME IInv, NEW s \in Sock, socket_close(s) PROVE IInv'
<1>. DEFINE closed == [at |-> "port", ev |-> {"closed"}]
<1>1. /\ pc = "idle" /\ open' = open \ {s} /\ ready' = [ready EXCEPT ![s] = {}]
      /\ poll' = [o \in Obj |-> IF poll[o].at = "kernel" /\ obj[o].sock = s THEN closed ELSE poll[o]]
      /\ strayed' = (strayed \/ fds[s] # NoObj)
      /\ UNCHANGED <<pc, obj, fds, queue, events, missed>>
  BY DEF socket_close
<1>2. \A o \in Obj : \/ poll'[o] = poll[o]
                     \/ poll[o].at # "none" /\ poll'[o].at \in {"port", "batch"}
  BY <1>1 DEF IInv, TypeOK
<1>3. TypeOK' BY <1>1 DEF IInv, TypeOK
<1>4. Careful' BY <1>1 DEF IInv, Careful
<1>5. missed # {} => strayed' BY <1>1 DEF IInv, NothingForgotten
<1>. QED BY <1>1, <1>2, <1>3, <1>4, <1>5, PollsMove

LEMMA Others ==
  ASSUME IInv, \/ wait \/ timed_out \/ fed \/ (\E o \in Obj : update_failed(o))
               \/ (\E s \in Sock : socket_create(s) \/ Changes(s))
  PROVE  IInv'
<1>1. UNCHANGED <<obj, fds, queue, poll, missed, strayed>> /\ pc # "gone" /\ pc' # "gone"
  BY DEF wait, timed_out, fed, update_failed, socket_create, Changes, calls
<1>2. TypeOK'
  BY DEF wait, timed_out, fed, update_failed, socket_create, Changes, calls, IInv, TypeOK
<1>3. open \subseteq open'
  BY DEF wait, timed_out, fed, update_failed, socket_create, Changes, calls
<1>4. Careful' BY <1>1, <1>3 DEF IInv, Careful
<1>5. missed # {} => strayed' BY <1>1 DEF IInv, NothingForgotten
<1>. QED BY <1>1, <1>2, <1>4, <1>5, PollsMove

LEMMA BpollClose == ASSUME IInv, bpoll_close PROVE IInv'
<1>1. TypeOK' BY DEF bpoll_close, IInv, TypeOK, NoPoll
<1>2. Careful' /\ GoneIsEmpty' BY DEF bpoll_close, Careful, GoneIsEmpty
<1>3. ObjectsHeld' BY DEF bpoll_close, ObjectsHeld
<1>4. NothingForgotten' BY DEF bpoll_close, NothingForgotten
<1>5. PendIsAsked'
  <2>. SUFFICES ASSUME NEW o \in Obj, Registered(o)' PROVE FALSE
    BY DEF PendIsAsked
  <2>1. obj'[o] = IF \E s \in Sock : fds[s] = o THEN Freed ELSE obj[o] BY DEF bpoll_close
  <2>2. Registered(o) /\ obj[o] \in Poller_fd /\ ~\E s \in Sock : fds[s] = o
    BY <2>1 DEF Registered, IInv, TypeOK
  <2>. QED BY <2>2 DEF bpoll_close, IInv, ObjectsHeld, Poller_fd
<1>. QED BY <1>1, <1>2, <1>3, <1>4, <1>5 DEF IInv

LEMMA Stutter == ASSUME IInv, UNCHANGED vars PROVE IInv'
BY DEF IInv, TypeOK, ObjectsHeld, NothingForgotten, PendIsAsked, Careful, GoneIsEmpty, Registered,
       vars, calls

LEMMA NextInv == IInv /\ [Next]_vars => IInv'
<1>. SUFFICES ASSUME IInv, [Next]_vars PROVE IInv'
  OBVIOUS
<1>1. CASE \E s \in Sock : \E ev \in Masks : ctl_add(s, ev) \/ ctl_mod(s, ev)
  BY <1>1, CtlAdd, CtlMod
<1>2. CASE \E s \in Sock : ctl_del(s) \/ socket_close(s) \/ socket_create(s) \/ Changes(s)
  BY <1>2, CtlDel, SocketClose, Others
<1>3. CASE bpoll_close BY <1>3, BpollClose
<1>4. CASE InWait
  BY <1>4, Others, UpdateKept, UpdateCancels, UpdatePolls, UpdateCloses, FeedClosed, FeedEvent, Dequeue
  DEF InWait, update
<1>5. CASE \E o \in Obj : afd_ready(o) \/ afd_fails(o) BY <1>5, AfdReady, AfdFails
<1>6. CASE UNCHANGED vars BY <1>6, Stutter
<1>. QED BY <1>1, <1>2, <1>3, <1>4, <1>5, <1>6 DEF Next

-------------------------------------------------------------------------------
LEMMA Invariant == Spec => []IInv
BY InitInv, NextInv, PTL DEF Spec

(* Type correctness of the poller.                                         *)
THEOREM TypeCorrect == Spec => []TypeOK
BY Invariant, PTL DEF IInv

(* The driver and the completion port never hold the address of a freed    *)
(* poller_fd, and every poller_fd is registered or waits for its last poll.*)
THEOREM Memory == Spec => []ObjectsHeld
BY Invariant, PTL DEF IInv

(* Whatever fails, an event that is asked for is watched, or about to be.  *)
THEOREM Watching == Spec => []NothingForgotten
BY Invariant, PTL DEF IInv
===============================================================================
