------------------------------- MODULE MCLuaRef -------------------------------
(* Two distinguishable values besides nil; eight stack slots leave room for *)
(* five references at once, so that free lists of every shape occur.        *)
EXTENDS LuaRef
CONSTANTS a, b

MCValue == {NIL, a, b}
===============================================================================
