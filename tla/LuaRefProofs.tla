----------------------------- MODULE LuaRefProofs -----------------------------
(***************************************************************************)
(* Proofs about luaref for every set of values and every stack limit: the  *)
(* inductive invariant of the slot table and the refinement of RefTable.   *)
(***************************************************************************)
EXTENDS LuaRef, FiniteSetTheorems, WellFoundedInduction, TLAPS

IInv == TypeOK /\ FreeBelowTop /\ FreedSlotsHoldNothing /\ BoundedByPeak

(* The walk of luaref_unref ends: a slot to stop at exists below the top,  *)
(* and every slot it passes was free.                                      *)
LEMMA ShrunkTopSpec ==
    ASSUME NEW t, t.top \in Nat, t.top > FREELIST
    PROVE  /\ ShrunkTop(t) \in FREELIST..(t.top - 1)
           /\ ShrunkTop(t) = FREELIST \/ ShrunkTop(t) \notin t.free
           /\ (ShrunkTop(t) + 1)..(t.top - 1) \subseteq t.free
<1> DEFINE stop(k) == k = FREELIST \/ k \notin t.free
           D == {n \in Nat : n <= t.top - 2 /\ stop(t.top - 1 - n)}
<1>1. t.top - 2 \in D
  BY DEF FREELIST
<1>2. PICK n \in D : \A m \in D : ~(<<m, n>> \in OpToRel(<, Nat))
  <2>1. D \subseteq Nat /\ D # {}
    BY <1>1
  <2>2. QED
    BY <2>1, NatLessThanWellFounded, WFMin
<1>3. \A m \in D : ~(m < n)
  BY <1>2 DEF OpToRel
<1> DEFINE k == t.top - 1 - n
<1>4. k \in FREELIST..(t.top - 1) /\ stop(k)
  <2>1. n \in Nat /\ n <= t.top - 2 /\ stop(t.top - 1 - n)
    OBVIOUS
  <2>2. QED
    BY <2>1 DEF FREELIST
<1>5. ASSUME NEW j \in (k + 1)..(t.top - 1)
      PROVE  j \in t.free
  <2>1. t.top - 1 - j \in Nat /\ t.top - 1 - j < n /\ t.top - 1 - (t.top - 1 - j) = j
    BY <1>4 DEF FREELIST
  <2>2. t.top - 1 - j \notin D
    BY <1>3, <2>1
  <2>3. QED
    BY <2>1, <2>2
<1>6. \E i \in FREELIST..(t.top - 1) :
        /\ i = FREELIST \/ i \notin t.free
        /\ (i + 1)..(t.top - 1) \subseteq t.free
  <2>1. (k + 1)..(t.top - 1) \subseteq t.free
    BY <1>5
  <2>2. QED
    BY <1>4, <2>1
<1>7. QED
  BY <1>6 DEF ShrunkTop

(* The held references of a table are finitely many.                       *)
LEMMA HeldIsNat ==
    ASSUME NEW t, t.top \in Nat
    PROVE  Held(t) \in Nat
<1>1. Live(t) \in SUBSET (2..t.top)
  BY DEF Live
<1>2. IsFiniteSet(2..t.top)
  BY FS_Interval
<1>3. IsFiniteSet(Live(t))
  BY <1>1, <1>2, FS_Subset, Zenon
<1>4. QED
  BY <1>3, FS_CardinalityType DEF Held

(* When nothing is free every slot above the free list is held.            *)
LEMMA HeldOfFullTable ==
    ASSUME NEW t, t.top \in Nat \ {0}, t.free = {}
    PROVE  Held(t) = t.top - FREELIST
<1>1. Live(t) = 2..t.top
  BY DEF Live
<1>2. Cardinality(2..t.top) = IF 2 > t.top THEN 0 ELSE t.top - 2 + 1
  <2>1. 2 \in Int /\ t.top \in Int
    OBVIOUS
  <2>2. QED
    BY <2>1, FS_Interval, Zenon
<1>3. QED
  BY <1>1, <1>2 DEF Held, FREELIST

LEMMA InitIInv == Init => IInv
BY NilIsAValue
DEF Init, EmptyTable, IInv, TypeOK, FreeBelowTop, FreedSlotsHoldNothing,
    BoundedByPeak, FREELIST

LEMMA WatermarkGrows ==
    ASSUME peak \in Nat, tbl'.top \in Nat, Watermark
    PROVE  peak' \in Nat /\ peak' >= peak /\ peak' >= Held(tbl')
<1>1. Held(tbl') \in Nat
  BY HeldIsNat
<1>2. QED
  BY <1>1 DEF Watermark
(* Each operation on the table preserves the table's part of the invariant.*)
TableOK(t) == /\ t \in [top : Nat \ {0}, free : SUBSET Nat, slot : [2..t.top -> Value]]
              /\ t.free \subseteq 2..(t.top - 1)
              /\ \A r \in t.free : t.slot[r] = NIL

LEMMA AfterRefOK ==
    ASSUME NEW t, TableOK(t), NEW v \in Value, NEW r \in RefSlots(t)
    PROVE  /\ TableOK(AfterRef(t, r, v))
           /\ AfterRef(t, r, v).top = IF t.free = {} THEN t.top + 1 ELSE t.top
           /\ r \notin Live(t)
           /\ Live(AfterRef(t, r, v)) = Live(t) \cup {r}
           /\ AfterRef(t, r, v).slot[r] = v
           /\ \A x \in Live(t) : AfterRef(t, r, v).slot[x] = t.slot[x]
<1>1. CASE t.free = {}
  BY <1>1 DEF TableOK, RefSlots, AfterRef, Live
<1>2. CASE t.free # {}
  BY <1>2 DEF TableOK, RefSlots, AfterRef, Live
<1>3. QED
  BY <1>1, <1>2

LEMMA AfterUnrefOK ==
    ASSUME NEW t, TableOK(t), NEW r \in Int
    PROVE  /\ TableOK(AfterUnref(t, r))
           /\ AfterUnref(t, r).top <= t.top
           /\ Live(AfterUnref(t, r)) = Live(t) \ {r}
           /\ \A x \in Live(t) \ {r} : AfterUnref(t, r).slot[x] = t.slot[x]
<1>1. CASE r <= FREELIST \/ r > t.top
  BY <1>1 DEF TableOK, AfterUnref, Live, FREELIST
<1>2. CASE r > FREELIST /\ r < t.top
  <2>1. AfterUnref(t, r) = AfterFree(t, r)
    BY <1>2 DEF AfterUnref, TableOK, FREELIST
  <2>2. QED
    BY <1>2, <2>1, NilIsAValue DEF AfterFree, TableOK, Live, FREELIST
<1>3. CASE r > FREELIST /\ r = t.top
  <2> DEFINE k == ShrunkTop(t)
  <2>1. AfterUnref(t, r) = AfterShrink(t)
    BY <1>3 DEF AfterUnref, TableOK, FREELIST
  <2>2. /\ k \in FREELIST..(t.top - 1)
        /\ k = FREELIST \/ k \notin t.free
        /\ (k + 1)..(t.top - 1) \subseteq t.free
    BY <1>3, ShrunkTopSpec DEF TableOK
  <2> HIDE DEF k
  <2>3. AfterShrink(t) = [top |-> k, free |-> t.free \ ((k + 1)..(t.top - 1)),
                          slot |-> [i \in 2..k |-> t.slot[i]]]
    BY DEF AfterShrink, k
  <2> DEFINE u == AfterShrink(t)
  <2>4. TableOK(u) /\ u.top <= t.top
    BY <1>3, <2>2, <2>3 DEF TableOK, FREELIST
  <2>5. Live(u) = Live(t) \ {r}
    <3>1. ASSUME NEW x \in Live(t) \ {r}
          PROVE  x \in Live(u)
      <4>1. x \in 2..(t.top - 1) /\ x \notin t.free
        BY <1>3 DEF Live, TableOK
      <4>2. x \in 2..k
        BY <2>2, <4>1 DEF TableOK, FREELIST
      <4>3. QED
        BY <2>3, <4>1, <4>2 DEF Live
    <3>2. ASSUME NEW x \in Live(u)
          PROVE  x \in Live(t) \ {r}
      <4>1. x \in 2..k /\ (x \notin t.free \/ x \in (k + 1)..(t.top - 1))
        BY <2>3 DEF Live
      <4>2. QED
        BY <1>3, <2>2, <4>1 DEF Live, TableOK, FREELIST
    <3>3. QED
      BY <3>1, <3>2
  <2>6. \A x \in Live(t) \ {r} : u.slot[x] = t.slot[x]
    <3>1. \A x \in Live(u) : x \in 2..k
      BY <2>3 DEF Live
    <3>2. QED
      BY <2>3, <2>5, <3>1
  <2>7. QED
    BY <2>1, <2>4, <2>5, <2>6
<1>4. QED
  BY <1>1, <1>2, <1>3 DEF TableOK, FREELIST

LEMMA AfterSetOK ==
    ASSUME NEW t, TableOK(t), NEW v \in Value, NEW r \in Live(t)
    PROVE  /\ TableOK(AfterSet(t, r, v))
           /\ AfterSet(t, r, v).top = t.top
           /\ Live(AfterSet(t, r, v)) = Live(t)
           /\ \A x \in Live(t) : AfterSet(t, r, v).slot[x] = IF x = r THEN v ELSE t.slot[x]
BY DEF AfterSet, TableOK, Live

LEMMA IInvTable == IInv <=> /\ TableOK(tbl)
                            /\ given \in {NOREF} \cup Live(tbl)
                            /\ peak \in Nat
                            /\ tbl.top - FREELIST <= peak
<1>1. TableOK(tbl) => tbl.free \cap 2..tbl.top = tbl.free
  BY DEF TableOK
<1>2. TableOK(tbl) <=> /\ tbl \in [top : Nat \ {0}, free : SUBSET Nat,
                                   slot : [2..tbl.top -> Value]]
                       /\ FreeBelowTop /\ FreedSlotsHoldNothing
  <2>1. FreeBelowTop /\ tbl.top \in Nat => tbl.free \cap 2..tbl.top = tbl.free
    BY DEF FreeBelowTop
  <2>2. QED
    BY <1>1, <2>1 DEF TableOK, FreeBelowTop, FreedSlotsHoldNothing
<1>3. QED
  BY <1>2 DEF IInv, TypeOK, BoundedByPeak

(* Growing the stack while nothing is free is the only way top rises, and  *)
(* then every slot is held: the watermark has just recorded as many.       *)
LEMMA NextIInv == IInv /\ [Next]_vars => IInv'
<1> SUFFICES ASSUME IInv, [Next]_vars
             PROVE  IInv'
  OBVIOUS
<1>0. /\ TableOK(tbl) /\ given \in {NOREF} \cup Live(tbl)
      /\ peak \in Nat /\ tbl.top - FREELIST <= peak
  BY IInvTable
<1>a. tbl.top \in Nat \ {0}
  BY <1>0 DEF TableOK
<1>g. ASSUME TableOK(tbl'), given' \in {NOREF} \cup Live(tbl'), Watermark,
             tbl'.top <= tbl.top \/ tbl'.free = {}
      PROVE  IInv'
  <2>1. tbl'.top \in Nat \ {0}
    BY <1>g DEF TableOK
  <2>2. peak' \in Nat /\ peak' >= peak /\ peak' >= Held(tbl')
    BY <1>0, <1>g, <2>1, WatermarkGrows
  <2>3. tbl'.top - FREELIST <= peak'
    <3>1. CASE tbl'.top <= tbl.top
      BY <1>0, <1>a, <2>1, <2>2, <3>1 DEF FREELIST
    <3>2. CASE tbl'.free = {}
      <4>1. Held(tbl') = tbl'.top - FREELIST
        BY <2>1, <3>2, HeldOfFullTable
      <4>2. QED
        BY <2>2, <4>1
    <3>3. QED
      BY <1>g, <3>1, <3>2
  <2>4. (/\ TableOK(tbl) /\ given \in {NOREF} \cup Live(tbl)
         /\ peak \in Nat /\ tbl.top - FREELIST <= peak)'
    BY <1>g, <2>2, <2>3
  <2>5. QED
    BY <2>4, IInvTable, PTL
<1>1. ASSUME NEW v \in Value, Ref(v)
      PROVE  IInv'
  <2>1. PICK r \in RefSlots(tbl) : tbl' = AfterRef(tbl, r, v) /\ given' = r
    BY <1>1 DEF Ref
  <2>2. /\ TableOK(tbl') /\ tbl'.top = IF tbl.free = {} THEN tbl.top + 1 ELSE tbl.top
        /\ given' \in Live(tbl')
    BY <1>0, <2>1, AfterRefOK
  <2>3. tbl.free = {} => tbl'.free = {}
    BY <2>1 DEF AfterRef
  <2>4. tbl'.top <= tbl.top \/ tbl'.free = {}
    BY <1>a, <2>2, <2>3
  <2>5. QED
    BY <1>1, <1>g, <2>2, <2>4 DEF Ref
<1>2. ASSUME NEW r \in NOREF..MaxStack, Unref(r)
      PROVE  IInv'
  <2>1. r \in Int
    BY MaxStackIsNat DEF NOREF
  <2>2. TableOK(tbl') /\ tbl'.top <= tbl.top
    BY <1>0, <1>2, <2>1, AfterUnrefOK DEF Unref
  <2>3. QED
    BY <1>2, <1>g, <2>2 DEF Unref
<1>3. ASSUME NEW r \in 2..MaxStack, NEW v \in Value, Set(r, v)
      PROVE  IInv'
  <2>1. TableOK(tbl') /\ tbl'.top = tbl.top
    BY <1>0, <1>3, AfterSetOK DEF Set
  <2>2. QED
    BY <1>3, <1>g, <1>a, <2>1 DEF Set
<1>4. CASE RefFails \/ UNCHANGED vars
  <2>1. (/\ TableOK(tbl) /\ given \in {NOREF} \cup Live(tbl)
         /\ peak \in Nat /\ tbl.top - FREELIST <= peak)'
    BY <1>0, <1>4 DEF vars, RefFails
  <2>2. QED
    BY <2>1, IInvTable, PTL
<1>5. QED
  BY <1>1, <1>2, <1>3, <1>4 DEF Next

(* The table's type and the three safety properties hold in every run.     *)
THEOREM Invariance == Spec => [](TypeOK /\ FreeBelowTop /\ ReleasedIsGivenBack)
<1>1. IInv => TypeOK /\ FreeBelowTop /\ ReleasedIsGivenBack
  BY DEF IInv, ReleasedIsGivenBack
<1>2. QED
  BY <1>1, InitIInv, NextIInv, PTL DEF Spec

(* The mapped state of RefTable: what Pins!held stands for.                *)
Mapped(t) == [r \in Live(t) |-> t.slot[r]]

(* Every operation on luaref is one step of RefTable or invisible to it: a *)
(* reference handed out is held by nobody, a release removes exactly the   *)
(* named reference, and no operation changes the value under another one.  *)
THEOREM Refinement == Spec => ImplementsRefTable
<1>1. Init => Pins!Init
  <2>1. ASSUME Init
        PROVE  given = NOREF /\ Mapped(tbl) = [r \in {} |-> r]
    <3>1. Live(tbl) = {}
      BY <2>1 DEF Init, EmptyTable, Live, FREELIST
    <3>2. QED
      BY <2>1, <3>1 DEF Init, Mapped
  <2>2. QED
    BY <2>1 DEF Pins!Init, Mapped
<1>2. IInv /\ [Next]_vars => [Pins!Next]_(Pins!vars)
  <2> SUFFICES ASSUME IInv, [Next]_vars
               PROVE  Pins!Next \/ UNCHANGED Pins!vars
    OBVIOUS
  <2>0. TableOK(tbl)
    BY IInvTable
  <2>1. ASSUME NEW v \in Value, Ref(v)
        PROVE  Pins!Next
    <3>1. PICK r \in RefSlots(tbl) : tbl' = AfterRef(tbl, r, v) /\ given' = r
      BY <2>1 DEF Ref
    <3>2. r \in 2..MaxStack
      BY <2>0, <2>1, MaxStackIsNat DEF Ref, CanRef, RefSlots, TableOK
    <3>3. /\ r \notin Live(tbl)
          /\ Live(tbl') = Live(tbl) \cup {r}
          /\ tbl'.slot[r] = v
          /\ \A x \in Live(tbl) : tbl'.slot[x] = tbl.slot[x]
      BY <2>0, <3>1, AfterRefOK
    <3>4. Mapped(tbl') = [x \in Live(tbl) \cup {r} |-> IF x = r THEN v ELSE Mapped(tbl)[x]]
      BY <3>3 DEF Mapped
    <3>5. DOMAIN Mapped(tbl) = Live(tbl)
      BY DEF Mapped
    <3>6. Pins!Acquire(r, v)
      BY <3>1, <3>3, <3>4, <3>5 DEF Pins!Acquire, Mapped
    <3>7. QED
      BY <3>2, <3>6 DEF Pins!Next
  <2>2. ASSUME NEW r \in NOREF..MaxStack, Unref(r)
        PROVE  Pins!Next
    <3>1. r \in Int
      BY MaxStackIsNat DEF NOREF
    <3>2. /\ Live(tbl') = Live(tbl) \ {r}
          /\ \A x \in Live(tbl) \ {r} : tbl'.slot[x] = tbl.slot[x]
      BY <2>0, <2>2, <3>1, AfterUnrefOK DEF Unref
    <3>3. Mapped(tbl') = [x \in Live(tbl) \ {r} |-> Mapped(tbl)[x]]
      BY <3>2 DEF Mapped
    <3>4. CASE r \in Live(tbl)
      <4>1. r \in 2..MaxStack
        BY <3>4 DEF Live, NOREF
      <4>2. DOMAIN Mapped(tbl) = Live(tbl)
        BY DEF Mapped
      <4>3. Pins!Release(r)
        BY <2>2, <3>3, <3>4, <4>2 DEF Unref, Pins!Release, Mapped
      <4>4. QED
        BY <4>1, <4>3 DEF Pins!Next
    <3>5. CASE r \notin Live(tbl)
      <4>1. Live(tbl') = Live(tbl) /\ \A x \in Live(tbl) : tbl'.slot[x] = tbl.slot[x]
        BY <3>2, <3>5
      <4>2. Pins!Refuse
        BY <2>2, <4>1 DEF Unref, Pins!Refuse
      <4>3. QED
        BY <4>2 DEF Pins!Next
    <3>6. QED
      BY <3>4, <3>5
  <2>3. ASSUME NEW r \in 2..MaxStack, NEW v \in Value, Set(r, v)
        PROVE  Pins!Next
    <3>1. r \in Live(tbl) /\ tbl' = AfterSet(tbl, r, v)
      BY <2>3 DEF Set
    <3>2. /\ Live(tbl') = Live(tbl)
          /\ \A x \in Live(tbl) : tbl'.slot[x] = IF x = r THEN v ELSE tbl.slot[x]
      BY <2>0, <3>1, AfterSetOK
    <3>3. Mapped(tbl') = [Mapped(tbl) EXCEPT ![r] = v]
      BY <3>1, <3>2 DEF Mapped
    <3>4. Pins!Replace(r, v)
      BY <2>3, <3>1, <3>3 DEF Set, Pins!Replace, Mapped
    <3>5. QED
      BY <3>4 DEF Pins!Next
  <2>4. CASE RefFails
    BY <2>4 DEF RefFails, Pins!Next, Pins!Refuse
  <2>5. CASE UNCHANGED vars
    BY <2>5 DEF vars, Pins!vars
  <2>6. QED
    BY <2>1, <2>2, <2>3, <2>4, <2>5 DEF Next
<1>3. QED
  BY <1>1, <1>2, InitIInv, NextIInv, PTL DEF Spec, ImplementsRefTable, Pins!Spec, Mapped
===============================================================================
