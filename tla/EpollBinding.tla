----------------------------- MODULE EpollBinding -----------------------------
(***************************************************************************)
(* binding/lua_epoll.cpp over bpoll: bee.epoll.  A registration is known   *)
(* three times: by the kernel, under the socket's number; by a table of    *)
(* the binding, under the Lua object that the script passed; and, on       *)
(* kqueue, by a map that bpoll_osx.cpp keeps beside the kernel.  The value *)
(* to deliver with an event is in a luaref slot, whose reference is the    *)
(* registration's data in the kernel.  A script changes registrations and  *)
(* closes sockets while it iterates a batch of events fetched before.      *)
(***************************************************************************)
EXTENDS Integers, Sequences, FiniteSets, Functions

CONSTANTS Fd, Sock,      (* socket numbers; the script's socket objects    *)
          NoFd,          (* the number of an object that is not open       *)
          Gone,          (* history: the key of a registration that ended  *)
          Value,         (* what a script associates, besides the object   *)
          NIL, MaxStack, (* of LuaRef                                      *)
          Room,          (* max_events                                     *)
          Platforms      (* "linux": epoll; "osx": bpoll_osx over kqueue   *)

ASSUME KeysAreApart == Sock \cap Fd = {} /\ NoFd \notin Fd /\ Gone \notin Sock \cup Fd
ASSUME MaxStackIsNat == MaxStack \in Nat
ASSUME RoomIsPositive == Room \in Nat \ {0}
ASSUME PlatformsAreKnown == Platforms \subseteq {"linux", "osx"}

(* The Lua objects that name a socket: its userdata, or its number as      *)
(* lightuserdata.                                                          *)
Key == Sock \cup Fd
Values == Value \cup Key \cup {NIL}

VARIABLES open,     (* ep.fd is valid                                      *)
          refs,     (* ep.ref                                              *)
          refOf,    (* the first user value: from keys to references       *)
          rest,     (* ep.events from i to n                               *)
          fdOf,     (* the numbers of the script's sockets                 *)
          kernel,   (* the kernel: registrations, by number                *)
          half,     (* kqueue: references in registrations for one         *)
                    (* direction only, left by an add that failed          *)
          state,    (* poller::state of bpoll_osx                          *)
          platform, (* which bpoll it is                                   *)
          said,     (* history: the value last associated under each key   *)
          strayed   (* history: the script did what leaves something behind*)

bpoll == <<kernel, half, state>>
vars == <<open, refs, refOf, rest, fdOf, bpoll, platform, said, strayed>>

R == INSTANCE LuaRef WITH
         Value <- Values, tbl <- refs, given <- -2, peak <- 0

(* ep_tofd *)
ToFd(k) == IF k \in Fd THEN k ELSE fdOf[k]

Init ==
    /\ open = TRUE /\ refs = R!EmptyTable /\ refOf = <<>> /\ rest = <<>>
    /\ fdOf = [s \in Sock |-> NoFd] /\ kernel = <<>> /\ half = <<>> /\ state = {}
    /\ platform \in Platforms
    /\ said = <<>> /\ strayed = FALSE

With(f, x, y) == [z \in DOMAIN f \cup {x} |-> IF z = x THEN y ELSE f[z]]
Without(f, x) == Restrict(f, DOMAIN f \ {x})

(* History: events under key k are of a registration that has ended.       *)
Ended(k) == [j \in DOMAIN rest |->
                IF rest[j].key = k THEN [rest[j] EXCEPT !.key = Gone] ELSE rest[j]]

-------------------------------------------------------------------------------
(* bpoll                                                                   *)

IsOpen(fd) == fd \in Fd /\ \E s \in Sock : fdOf[s] = fd

(* kqueue has a registration for each direction, which one call changes    *)
(* both; an EV_ADD takes up one that is there.                             *)
CtlAdd(fd, r, k) ==
    /\ IsOpen(fd) /\ fd \notin DOMAIN kernel
    /\ platform = "osx" => fd \notin state
    /\ kernel' = With(kernel, fd, [ref |-> r, key |-> k])
    /\ half' = Without(half, fd)
    /\ state' = IF platform = "osx" THEN state \cup {fd} ELSE state

(* It registers one direction, fails for the other and reports failure.    *)
CtlAddHalf(fd, r) ==
    /\ platform = "osx" /\ IsOpen(fd) /\ fd \notin state
    /\ half' = With(half, fd, r)
    /\ UNCHANGED <<kernel, state>>

CtlMod(fd, r, k) ==
    /\ fd \in DOMAIN kernel
    /\ kernel' = With(kernel, fd, [ref |-> r, key |-> k])
    /\ UNCHANGED <<half, state>>

(* ENOENT for the other direction. *)
CtlModHalf(fd, r) ==
    /\ fd \in DOMAIN half /\ half' = With(half, fd, r)
    /\ UNCHANGED <<kernel, state>>

(* Mutant of CtlDel: set_state is not reached. *)
CtlDelKeepingState(fd) ==
    /\ fd \in DOMAIN kernel
    /\ kernel' = Without(kernel, fd)
    /\ UNCHANGED <<half, state>>

CtlDel(fd) ==
    /\ fd \in DOMAIN kernel
    /\ kernel' = Without(kernel, fd)
    /\ state' = state \ {fd}
    /\ UNCHANGED half

(* ENOENT likewise. *)
CtlDelHalf(fd) ==
    /\ fd \in DOMAIN half /\ half' = Without(half, fd)
    /\ UNCHANGED <<kernel, state>>

(* What the kernel has to report an event about, and with which data.      *)
Registered == DOMAIN kernel \cup DOMAIN half
DataOf(fd) == IF fd \in DOMAIN kernel THEN kernel[fd] ELSE [ref |-> half[fd], key |-> Gone]

(* kqueue reports the two directions of a socket as two events.            *)
EventsOf(fd) == IF platform = "osx" /\ fd \in DOMAIN kernel THEN 2 ELSE 1

(* What bpoll_wait may report, by number.                                  *)
Batches ==
    {b \in UNION {[1..n -> Registered] : n \in 0..Room} :
        \A fd \in Registered : Cardinality({j \in DOMAIN b : b[j] = fd}) <= EventsOf(fd)}

-------------------------------------------------------------------------------
(* The binding.  A call that fails without an effect is no step.           *)

event_add(k, v) ==
    /\ open /\ R!CanRef(refs)
    /\ \E r \in R!RefSlots(refs) :
        /\ CtlAdd(ToFd(k), r, k)
        /\ refs' = R!AfterRef(refs, r, v)
        /\ refOf' = With(refOf, k, r)
    /\ said' = With(said, k, v) /\ rest' = Ended(k)
    /\ UNCHANGED <<open, fdOf, platform, strayed>>

(* Mutant of event_add_refused: the reference is forgotten. *)
event_add_forgets(k, v) ==
    /\ open /\ R!CanRef(refs)
    /\ \E r \in R!RefSlots(refs) : refs' = R!AfterRef(refs, r, v)
    /\ UNCHANGED <<open, refOf, rest, fdOf, bpoll, platform, said, strayed>>

(* Mutant of event_add_refused: the key is stored first, and cleaned.      *)
event_add_cleans(k, v) ==
    /\ open /\ R!CanRef(refs)
    /\ \E r \in R!RefSlots(refs) : refs' = R!AfterUnref(R!AfterRef(refs, r, v), r)
    /\ refOf' = Without(refOf, k)
    /\ UNCHANGED <<open, rest, fdOf, bpoll, platform, said, strayed>>

(* The kernel refuses: the socket is registered or closed, or memory ends. *)
event_add_refused(k, v) ==
    /\ open /\ R!CanRef(refs)
    /\ \E r \in R!RefSlots(refs) :
        /\ refs' = R!AfterUnref(R!AfterRef(refs, r, v), r)
        /\ CtlAddHalf(ToFd(k), r) \/ UNCHANGED bpoll
    /\ UNCHANGED <<open, refOf, rest, fdOf, platform, said, strayed>>

(* luaL_checkinteger throws on events that are no integer, when the value  *)
(* has a reference already.                                                *)
event_add_throws(k, v) ==
    /\ open /\ R!CanRef(refs)
    /\ \E r \in R!RefSlots(refs) : refs' = R!AfterRef(refs, r, v)
    /\ strayed' = TRUE
    /\ UNCHANGED <<open, refOf, rest, fdOf, bpoll, platform, said>>

(* The script uses the key that the socket was registered with.            *)
SameKey(k) == k \in DOMAIN refOf /\ kernel[ToFd(k)].ref = refOf[k]

(* Mutant of NewValue: luaref_set is not called. *)
NewValueKept(k, vs) == refs

NewValue(k, vs) == IF vs = <<>> THEN refs ELSE R!AfterSet(refs, refOf[k], vs[1])

(* vs is the optional argument: no value, or one, which may be nil. *)
event_mod(k, vs) ==
    /\ open /\ k \in DOMAIN refOf
    /\ CtlMod(ToFd(k), refOf[k], k)
    /\ refs' = NewValue(k, vs)
    /\ said' = IF vs = <<>> THEN said ELSE With(said, k, vs[1])
    /\ strayed' = (strayed \/ ~SameKey(k))
    /\ UNCHANGED <<open, refOf, rest, fdOf, platform>>

event_mod_refused(k) ==
    /\ open /\ k \in DOMAIN refOf
    /\ CtlModHalf(ToFd(k), refOf[k])
    /\ UNCHANGED <<open, refs, refOf, rest, fdOf, platform, said, strayed>>

event_del(k) ==
    /\ open
    /\ CtlDel(ToFd(k))
    /\ IF k \in DOMAIN refOf
       THEN /\ refs' = R!AfterUnref(refs, refOf[k])
            /\ refOf' = Without(refOf, k)
       ELSE UNCHANGED <<refs, refOf>>
    /\ said' = Without(said, k) /\ rest' = Ended(k)
    /\ strayed' = (strayed \/ ~SameKey(k))
    /\ UNCHANGED <<open, fdOf, platform>>

event_del_refused(k) ==
    /\ open
    /\ CtlDelHalf(ToFd(k))
    /\ UNCHANGED <<open, refs, refOf, rest, fdOf, platform, said, strayed>>

wait ==
    /\ open
    /\ \E b \in Batches : rest' = [j \in DOMAIN b |-> DataOf(b[j])]
    /\ UNCHANGED <<open, refs, refOf, fdOf, bpoll, platform, said, strayed>>

(* One step of the iterator: luaref_get of the event's reference.          *)
ep_events ==
    /\ rest # <<>> /\ rest' = Tail(rest)
    /\ UNCHANGED <<open, refs, refOf, fdOf, bpoll, platform, said, strayed>>

ep_close ==
    /\ open /\ open' = FALSE
    /\ kernel' = <<>> /\ half' = <<>> /\ state' = {}
    /\ UNCHANGED <<refs, refOf, rest, fdOf, platform, said, strayed>>

-------------------------------------------------------------------------------
(* The script's sockets.  An object that is a key is not collected, so its *)
(* identity is not used again; a number is, as soon as it is free.         *)
socket_create(s, fd) ==
    /\ fdOf[s] = NoFd /\ s \notin DOMAIN refOf /\ ~IsOpen(fd)
    /\ fdOf' = [fdOf EXCEPT ![s] = fd]
    /\ UNCHANGED <<open, refs, refOf, rest, bpoll, platform, said, strayed>>

(* The kernel forgets the registrations of a closed socket.                *)
socket_close(s) ==
    /\ fdOf[s] # NoFd
    /\ fdOf' = [fdOf EXCEPT ![s] = NoFd]
    /\ kernel' = Without(kernel, fdOf[s]) /\ half' = Without(half, fdOf[s])
    /\ strayed' = (strayed \/ fdOf[s] \in DOMAIN kernel)
    /\ UNCHANGED <<open, refs, refOf, rest, state, platform, said>>

-------------------------------------------------------------------------------
Next ==
    \/ \E k \in Key :
        \/ \E v \in Value \cup {k} :
            event_add(k, v) \/ event_add_refused(k, v) \/ event_add_throws(k, v)
        \/ \E vs \in {<<>>} \cup {<<v>> : v \in Value \cup {NIL}} : event_mod(k, vs)
        \/ event_del(k) \/ event_mod_refused(k) \/ event_del_refused(k)
    \/ wait \/ ep_events \/ ep_close
    \/ \E s \in Sock : socket_close(s) \/ \E fd \in Fd : socket_create(s, fd)

Spec == Init /\ [][Next]_vars
-------------------------------------------------------------------------------
Registration == [ref : Nat, key : Key]

(* The batch never outgrows max_events.                                    *)
TypeOK ==
    /\ open \in BOOLEAN /\ strayed \in BOOLEAN /\ platform \in Platforms
    /\ refs \in [top : Nat \ {0}, free : SUBSET Nat, slot : [2..refs.top -> Values]]
    /\ refOf \in [DOMAIN refOf -> Nat] /\ DOMAIN refOf \subseteq Key
    /\ rest \in Seq([ref : Nat, key : Key \cup {Gone}]) /\ Len(rest) <= Room
    /\ fdOf \in [Sock -> Fd \cup {NoFd}]
    /\ kernel \in [DOMAIN kernel -> Registration] /\ DOMAIN kernel \subseteq Fd
    /\ half \in [DOMAIN half -> Nat] /\ DOMAIN half \subseteq Fd
    /\ state \subseteq Fd
    /\ said \in [DOMAIN said -> Values] /\ DOMAIN said \subseteq Key

Live == R!Live(refs)

(* Whatever the script does, the reference in a registration that the      *)
(* kernel accepted is a live one, kept under a key of that very socket,    *)
(* and no two keys share one: an event that is fetched now finds its own   *)
(* value.  (What kqueue is left with of an add that it refused has a       *)
(* reference that was released.)                                           *)
RegistrationsHeld ==
    /\ \A fd \in DOMAIN kernel :
        \E k \in DOMAIN refOf : ToFd(k) = fd /\ refOf[k] = kernel[fd].ref
    /\ \A k \in DOMAIN refOf : refOf[k] \in Live
    /\ \A k, l \in DOMAIN refOf : refOf[k] = refOf[l] => k = l

(* A script that deletes a registration before it closes the socket, under *)
(* the key it added it with, leaves no reference behind, though the kernel *)
(* refuses adds and takes up some of them by half: values and sockets can  *)
(* be collected.                                                           *)
NothingLeaks ==
    ~strayed =>
        /\ Live = {refOf[k] : k \in DOMAIN refOf}
        /\ open => Live = {kernel[fd].ref : fd \in DOMAIN kernel}

(* An event whose registration is still in place delivers the value last   *)
(* associated with it, even if that happened after the event was fetched,  *)
(* and whatever references were released and reused meanwhile.             *)
OwnValue ==
    \A j \in DOMAIN rest : rest[j].key # Gone =>
        rest[j].ref \in Live /\ refs.slot[rest[j].ref] = said[rest[j].key]

(* For such a script the map beside kqueue agrees with the registrations   *)
(* that kqueue accepted, so that a socket with a number used before can be *)
(* registered, and so can one whose add was refused.                       *)
StateAgrees == platform = "osx" /\ ~strayed => state = DOMAIN kernel

(* luaref_get's assertion: the iterator is given a live reference.         *)
GetIsValid == \A j \in DOMAIN rest : rest[j].ref \in Live

(* It should hold of what bpoll_wait reports to such a script, before      *)
(* anything else happens.                                                  *)
FetchedIsValid == open /\ ~strayed => \A fd \in Registered : DataOf(fd).ref \in Live
===============================================================================
