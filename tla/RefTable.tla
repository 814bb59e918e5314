------------------------------- MODULE RefTable -------------------------------
(***************************************************************************)
(* What luaref promises its callers (bee/lua/luaref.h): a reference is a   *)
(* key nobody else holds, and the value stored under it stays there until  *)
(* that reference is released.  How slots are recycled is not visible.     *)
(***************************************************************************)

CONSTANTS Refs,     (* the references that can ever be handed out          *)
          NoRef,    (* the answer that is no reference (LUA_NOREF)         *)
          Value     (* the Lua values a caller may pin                     *)

VARIABLES held,     (* reference -> value, over the references now held    *)
          given     (* the reference the last call returned, or NoRef      *)

vars == <<held, given>>

Init == held = [r \in {} |-> r] /\ given = NoRef

(* luaref_ref: a reference that nobody holds, bound to v. *)
Acquire(r, v) ==
    /\ r \notin DOMAIN held
    /\ held' = [x \in DOMAIN held \cup {r} |-> IF x = r THEN v ELSE held[x]]
    /\ given' = r

(* luaref_unref of a held reference: exactly that one disappears. *)
Release(r) ==
    /\ r \in DOMAIN held
    /\ held' = [x \in DOMAIN held \ {r} |-> held[x]]
    /\ given' = NoRef

(* luaref_set of a held reference. *)
Replace(r, v) ==
    /\ r \in DOMAIN held
    /\ held' = [held EXCEPT ![r] = v]
    /\ given' = NoRef

(* luaref_ref without room, luaref_unref of what is not held. *)
Refuse == UNCHANGED held /\ given' = NoRef

Next == \/ \E r \in Refs :
            \/ Release(r)
            \/ \E v \in Value : Acquire(r, v) \/ Replace(r, v)
        \/ Refuse

Spec == Init /\ [][Next]_vars
===============================================================================
