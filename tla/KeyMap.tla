-------------------------------- MODULE KeyMap ---------------------------------
(* What the interface of bee::flatmap (bee/utility/flatmap.h) promises: a  *)
(* finite map from keys to objects that knows its size.  Growing, moving   *)
(* buckets and reserving room do not show.                                 *)
EXTENDS Integers

CONSTANTS Key, Obj, NoObj

VARIABLES contents,  (* key -> its object, or NoObj                        *)
          size

vars == <<contents, size>>

Init == contents = [k \in Key |-> NoObj] /\ size = 0

insert(k, o) == /\ contents[k] = NoObj
                /\ contents' = [contents EXCEPT ![k] = o]
                /\ size' = size + 1

assign(k, o) == /\ contents[k] # NoObj
                /\ contents' = [contents EXCEPT ![k] = o]
                /\ size' = size

erase(k) == /\ contents[k] # NoObj
            /\ contents' = [contents EXCEPT ![k] = NoObj]
            /\ size' = size - 1

clear == contents' = [k \in Key |-> NoObj] /\ size' = 0

Next == \/ \E k \in Key, o \in Obj : insert(k, o) \/ assign(k, o)
        \/ \E k \in Key : erase(k)
        \/ clear

Spec == Init /\ [][Next]_vars
===============================================================================
