-------------------------------- MODULE LuaRef --------------------------------
(***************************************************************************)
(* bee/lua/luaref.cpp: a Lua stack used as an array of pinned values.      *)
(* Slot 1 holds the free list, slots 2..top hold values or are free.  The  *)
(* async and epoll bindings pin buffers and user data with it, so a slot   *)
(* handed out twice, or overwritten while held, delivers the wrong object  *)
(* to a script.                                                            *)
(*                                                                         *)
(* The table is a record and its operations are operators on it, so that   *)
(* the bindings' modules can use them on a table of their own.             *)
(***************************************************************************)
EXTENDS Integers, FiniteSets

CONSTANTS Value,    (* Lua values a caller may pin                         *)
          NIL,      (* Lua's nil: a legal value, and what a free slot holds*)
          MaxStack  (* LUAI_MAXSTACK: what lua_checkstack compares with    *)

ASSUME NilIsAValue == NIL \in Value
ASSUME MaxStackIsNat == MaxStack \in Nat

FREELIST == 1
NOREF == -2         (* LUA_NOREF *)

EmptyTable == [top |-> FREELIST, free |-> {}, slot |-> [i \in {} |-> NIL]]

(* References in use: what luaref_isvalid answers true for. *)
Live(t) == {r \in 2..t.top : r \notin t.free}

(* lua_checkstack(refL, 3): luaref_ref needs room for three temporaries. *)
CanRef(t) == t.top + 3 <= MaxStack

(* Mutant of RefSlots: the free list is never consulted. *)
RefSlotsGrowing(t) == {t.top + 1}

(* Mutant of RefSlots: the top is taken for the first slot that is unused. *)
RefSlotsTop(t) ==
    IF t.free # {} THEN t.free ELSE {IF t.top = FREELIST THEN 2 ELSE t.top}

(* lua_next takes any key of the free list; without one the stack grows. *)
RefSlots(t) == IF t.free = {} THEN {t.top + 1} ELSE t.free

(* The table after luaref_ref put v into slot r of RefSlots(t). *)
AfterRef(t, r, v) ==
    LET top == IF r > t.top THEN r ELSE t.top
    IN  [top  |-> top,
         free |-> t.free \ {r},
         slot |-> [i \in 2..top |-> IF i = r THEN v ELSE t.slot[i]]]

(* luaref_unref of the top slot walks down over free slots: the new top is *)
(* the highest slot below it that is not free, FREELIST when there is none.*)
ShrunkTop(t) ==
    CHOOSE k \in FREELIST..(t.top - 1) :
        /\ k = FREELIST \/ k \notin t.free
        /\ (k + 1)..(t.top - 1) \subseteq t.free

(* luaref_unref of a slot below the top: onto the free list, value dropped.*)
AfterFree(t, r) ==
    [top |-> t.top, free |-> t.free \cup {r}, slot |-> [t.slot EXCEPT ![r] = NIL]]

AfterShrink(t) ==
    LET k == ShrunkTop(t)
    IN  [top  |-> k,
         free |-> t.free \ ((k + 1)..(t.top - 1)),
         slot |-> [i \in 2..k |-> t.slot[i]]]

AfterUnref(t, r) ==
    IF r <= FREELIST \/ r > t.top THEN t
    ELSE IF r < t.top THEN AfterFree(t, r)
    ELSE AfterShrink(t)

AfterSet(t, r, v) ==
    [top |-> t.top, free |-> t.free, slot |-> [t.slot EXCEPT ![r] = v]]
-------------------------------------------------------------------------------
VARIABLES tbl,      (* the luaref table                                    *)
          given,    (* the reference the last call returned, or NOREF      *)
          peak      (* history: the most references ever held at once      *)

vars == <<tbl, given, peak>>

Init == tbl = EmptyTable /\ given = NOREF /\ peak = 0

Held(t) == Cardinality(Live(t))

Watermark == peak' = IF Held(tbl') > peak THEN Held(tbl') ELSE peak

Ref(v) ==
    /\ CanRef(tbl)
    /\ \E r \in RefSlots(tbl) : tbl' = AfterRef(tbl, r, v) /\ given' = r
    /\ Watermark

(* The stack is at its limit: LUA_NOREF, and nothing is pinned. *)
RefFails == ~CanRef(tbl) /\ given' = NOREF /\ UNCHANGED <<tbl, peak>>

(* A caller may release any integer: LUA_NOREF, a reference twice, one     *)
(* beyond the top.                                                         *)
Unref(r) == tbl' = AfterUnref(tbl, r) /\ given' = NOREF /\ Watermark

(* luaref_set; its assert is the guard. *)
Set(r, v) ==
    /\ r \in Live(tbl)
    /\ tbl' = AfterSet(tbl, r, v) /\ given' = NOREF
    /\ Watermark

Next == \/ \E v \in Value : Ref(v)
        \/ RefFails
        \/ \E r \in NOREF..MaxStack : Unref(r)
        \/ \E r \in 2..MaxStack, v \in Value : Set(r, v)

Spec == Init /\ [][Next]_vars
-------------------------------------------------------------------------------
TypeOK == /\ tbl \in [top : Nat \ {0}, free : SUBSET Nat,
                       slot : [2..tbl.top -> Value]]
          /\ given \in {NOREF} \cup Live(tbl)
          /\ peak \in Nat

(* Free slots are strictly below the top, however releases and reuses were *)
(* ordered: luaref_unref's walk leaves no free slot at the top, and no key *)
(* of the free list survives a shrink past it.  luaref_isvalid and the     *)
(* fast path of luaref_ref rely on it.                                     *)
FreeBelowTop == tbl.free \subseteq 2..(tbl.top - 1)

(* A released slot keeps nothing alive: its value can be collected.        *)
FreedSlotsHoldNothing == \A r \in tbl.free \cap 2..tbl.top : tbl.slot[r] = NIL

(* The stack never outgrows the most references ever held at once, in any  *)
(* order of releases: a long-running loop cannot creep up to LUAI_MAXSTACK.*)
BoundedByPeak == tbl.top - FREELIST <= peak

(* What was released is given back, in any order of releases: its slot to  *)
(* the stack, its value to the collector.                                  *)
ReleasedIsGivenBack == BoundedByPeak /\ FreedSlotsHoldNothing

(* luaref implements the abstract table of references (RefTable): the      *)
(* reference it hands out is held by nobody, a release removes exactly the *)
(* one it names, and no operation changes the value under another one.     *)
Pins == INSTANCE RefTable WITH
            Refs <- 2..MaxStack, NoRef <- NOREF,
            held <- [r \in Live(tbl) |-> tbl.slot[r]]

ImplementsRefTable == Pins!Spec
===============================================================================
