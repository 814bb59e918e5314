-------------------------------- MODULE Flatmap --------------------------------
(***************************************************************************)
(* bee/utility/flatmap.h: an open-addressing hash table with robin-hood    *)
(* displacement.  Every bucket records its distance from the slot its key  *)
(* hashes to (dib: 1 there, 0 when empty); a probe takes the bucket of an  *)
(* entry that is nearer to its home than the newcomer is, and erasure      *)
(* moves the following entries back by one.                                *)
(*                                                                         *)
(* An entry pushed kMaxDistance - 1 away makes the code grow the table in  *)
(* the middle of the insertion: the model stops there (strained).          *)
(***************************************************************************)
EXTENDS Integers, FiniteSets

CONSTANTS Key, Mapped,     (* key_type, mapped_type                        *)
          NoKey, NoMapped, (* what an empty bucket holds                   *)
          Hash,            (* KeyHash: Key -> Nat                          *)
          kMaxDistance,
          MinSize,         (* the smallest table, 8 in rehash              *)
          Shifts,          (* how often rehash can double it: 60           *)
          MaxSize          (* bound: the script reserves no more buckets   *)

ASSUME MapConstants == /\ Hash \in [Key -> Nat]
                       /\ NoKey \notin Key /\ NoMapped \notin Mapped
                       /\ kMaxDistance \in Nat \ {0} /\ MinSize \in Nat \ {0, 1}
                       /\ Shifts \in Nat /\ MaxSize \in Nat

kMaxLoadFactor == 80

VARIABLES buckets,   (* m_buckets: its domain is 0..m_mask                 *)
          m_maxsize,
          m_size,
          strained   (* an insertion reached kMaxDistance                  *)

fvars == <<buckets, m_maxsize, m_size, strained>>

Free == [key |-> NoKey, obj |-> NoMapped, dib |-> 0]
Entry(k, o, dib) == [key |-> k, obj |-> o, dib |-> dib]
Blank(n) == [slot \in 0..n - 1 |-> Free]

(* The table of a map without storage is the map's own zeroed header.      *)
MapInit == buckets = Blank(1) /\ m_maxsize = 0 /\ m_size = 0 /\ strained = FALSE

Size(b) == Cardinality(DOMAIN b)              (* m_mask + 1                 *)
Home(b, k) == Hash[k] % Size(b)
After(b, slot) == (slot + 1) % Size(b)

-------------------------------------------------------------------------------
(* find_key stops at the first bucket nearer to its home than key would be. *)
Way(b, k, i) == (Hash[k] + i) % Size(b)
Holds(bucket, k) == bucket.dib # 0 /\ bucket.key = k

(* The slot of a key, or none: the set has at most one element. *)
find_key(b, k) ==
    LET Stops(i) == Holds(b[Way(b, k, i)], k) \/ i + 1 > b[Way(b, k, i + 1)].dib
        last == CHOOSE i \in 0..Size(b) : Stops(i) /\ \A j \in 0..i - 1 : ~Stops(j)
    IN  {slot \in {Way(b, k, last)} : Holds(b[slot], k)}

(* One turn of the loop of internal_insert: the entry takes a free bucket, *)
(* or it, or the one it displaces, is to move on.                          *)
Turn(l) ==
    LET here == l.table[l.slot]
        swap == here.dib < l.tmp.dib
        kept == IF swap THEN l.tmp ELSE here
        moved == IF swap THEN here ELSE l.tmp
    IN  IF l.end # "none" THEN l
        ELSE IF here.dib = 0 THEN [l EXCEPT !.table[l.slot] = l.tmp, !.end = "placed"]
        ELSE IF moved.dib >= kMaxDistance - 1 THEN [l EXCEPT !.end = "far"]
        ELSE [l EXCEPT !.table[l.slot] = kept, !.slot = After(l.table, l.slot),
                       !.tmp = [moved EXCEPT !.dib = @ + 1]]

(* internal_insert, as the set of the table it ends with; {} when an entry *)
(* has moved too far.  One bucket is free: a turn per bucket is enough.    *)
Turns(b, slot, tmp) ==
    LET turns[i \in 0..Size(b)] ==
            IF i = 0 THEN [table |-> b, slot |-> slot, tmp |-> tmp, end |-> "none"]
                     ELSE Turn(turns[i - 1])
    IN  turns
internal_insert(b, slot, tmp) ==
    LET last == Turns(b, slot, tmp)[Size(b)]
    IN  {t \in {last.table} : last.end = "placed"}

calc_maxsize(n) == (n * kMaxLoadFactor) \div 100

(* rehash: the smallest table whose load stays within the factor.  When    *)
(* there is none, the call throws before it has done anything.             *)
Doubled == LET size[i \in 0..Shifts] == IF i = 0 THEN MinSize ELSE 2 * size[i - 1]
           IN  size
Enough(c) == {n \in {Doubled[i] : i \in 0..Shifts} : calc_maxsize(n) >= c}
NewSize(c) == CHOOSE n \in Enough(c) : \A m \in Enough(c) : n <= m

Rebuilt(old, n) ==
    LET tables[i \in 0..Size(old)] ==
            IF i = 0 THEN {Blank(n)}
            ELSE LET e == old[i - 1]
                 IN  IF e.dib = 0 THEN tables[i - 1]
                     ELSE UNION {internal_insert(b, Home(b, e.key), [e EXCEPT !.dib = 1]) :
                                     b \in tables[i - 1]}
    IN  tables
Rebuild(old, n) == Rebuilt(old, n)[Size(old)]

AtLeast(c) == IF c > m_size THEN c ELSE m_size
Larger(c) == NewSize(AtLeast(c))

(* The table that find_or_insert probes, grown first when it is full. *)
Full == m_size >= m_maxsize
Grown == IF Full THEN Rebuild(buckets, Larger(2 * Size(buckets))) ELSE {buckets}

-------------------------------------------------------------------------------
(* find_or_insert: the bucket where the probe ends, which is empty, the    *)
(* key's own, or one whose entry is nearer to its home.                    *)
Reached(b, k) ==
    LET Stops(i) == LET here == b[Way(b, k, i)]
                    IN  here.dib = 0 \/ here.key = k \/ here.dib < i + 1
        last == CHOOSE i \in 0..Size(b) : Stops(i) /\ \A j \in 0..i - 1 : ~Stops(j)
    IN  [slot |-> Way(b, k, last), dib |-> last + 1]

(* Mutant of Reinserted: the displaced entry keeps its distance. *)
ReinsertedSameDib(b, p) ==
    IF b[p.slot].dib = 0 THEN {b}
    ELSE internal_insert(b, After(b, p.slot), b[p.slot])

(* The bucket is free, or its entry is inserted again one slot further.    *)
Reinserted(b, p) ==
    IF b[p.slot].dib = 0 THEN {b}
    ELSE internal_insert(b, After(b, p.slot), [b[p.slot] EXCEPT !.dib = @ + 1])

Strain == strained' = TRUE /\ UNCHANGED <<buckets, m_maxsize, m_size>>

Install(b) == buckets' = b /\ m_maxsize' = calc_maxsize(Size(b)) /\ UNCHANGED strained

(* insert leaves an object that is there, insert_or_assign replaces it.    *)
Store(k, o, replace) ==
    /\ Full => Enough(AtLeast(2 * Size(buckets))) # {}
    /\ IF Grown = {} THEN Strain
       ELSE \E b \in Grown :
           LET p == Reached(b, k)
           IN  IF b[p.slot].key = k
               THEN /\ Install([b EXCEPT ![p.slot].obj = IF replace THEN o ELSE @])
                    /\ UNCHANGED m_size
               ELSE IF Reinserted(b, p) = {} THEN Strain
               ELSE /\ \E t \in Reinserted(b, p) :
                          Install([t EXCEPT ![p.slot] = Entry(k, o, p.dib)])
                    /\ m_size' = m_size + 1

insert(k, o) == ~strained /\ Store(k, o, FALSE)
insert_or_assign(k, o) == ~strained /\ Store(k, o, TRUE)

(* Mutant of Shift: the entries after the erased one stay where they are. *)
ShiftNone(b, slot) == [b EXCEPT ![slot] = Free]

(* erase: entries away from home move back, up to an empty bucket or one   *)
(* that is at home.                                                        *)
Back(l) ==
    LET next == After(l.table, l.slot)
        here == l.table[next]
    IN  IF l.end # "none" THEN l
        ELSE IF here.dib > 1
             THEN [l EXCEPT !.table[l.slot] = [here EXCEPT !.dib = @ - 1], !.slot = next]
             ELSE [l EXCEPT !.table[l.slot] = Free, !.end = "freed"]

Backs(b, slot) ==
    LET turns[i \in 0..Size(b)] ==
            IF i = 0 THEN [table |-> b, slot |-> slot, end |-> "none"] ELSE Back(turns[i - 1])
    IN  turns
Shift(b, slot) == Backs(b, slot)[Size(b)].table

erase(k) ==
    /\ ~strained
    /\ \E slot \in find_key(buckets, k) : buckets' = Shift(buckets, slot)
    /\ m_size' = m_size - 1
    /\ UNCHANGED <<m_maxsize, strained>>

clear == /\ ~strained
         /\ buckets' = Blank(1) /\ m_maxsize' = 0 /\ m_size' = 0
         /\ UNCHANGED strained

rehash(c, force) ==
    /\ Enough(AtLeast(c)) # {}
    /\ force \/ Larger(c) > Size(buckets)
    /\ \E bs \in {Rebuild(buckets, Larger(c))} :
          IF bs = {} THEN Strain
          ELSE UNCHANGED m_size /\ \E b \in bs : Install(b)

reserve(c) == ~strained /\ rehash((c * 100) \div kMaxLoadFactor, FALSE)

(* The public rehash may also make the table smaller. *)
Rehash(c) == ~strained /\ rehash(c, TRUE)

-------------------------------------------------------------------------------
MapNext == \/ \E k \in Key, o \in Mapped : insert(k, o) \/ insert_or_assign(k, o)
           \/ \E k \in Key : erase(k)
           \/ clear
           \/ \E c \in {0, MaxSize} : reserve(c) \/ Rehash(c)

MapSpec == MapInit /\ [][MapNext]_fvars
-------------------------------------------------------------------------------
MapTypeOK ==
    /\ DOMAIN buckets = 0..Size(buckets) - 1
    /\ \A slot \in DOMAIN buckets :
          buckets[slot] = Free \/ buckets[slot] \in [key : Key, obj : Mapped, dib : Nat \ {0}]
    /\ m_maxsize \in Nat /\ m_size \in Nat
    /\ strained \in BOOLEAN

(* flatmap is a map: after any sequence of insertions, displacements,      *)
(* erasures, growths and shrinkings, find reaches exactly the entries that *)
(* were put in and not erased, with their last objects, and size counts    *)
(* them; that is what makes its early stop right.                          *)
Found(k) == LET at == find_key(buckets, k)
            IN  IF at = {} THEN NoMapped ELSE buckets[CHOOSE slot \in at : TRUE].obj
Map == INSTANCE KeyMap WITH Obj <- Mapped, NoObj <- NoMapped,
                           contents <- [k \in Key |-> Found(k)], size <- m_size
ImplementsKeyMap == Map!Spec

(* A distance is never larger than the number of entries, so its 8 bits do *)
(* not wrap below 256 entries, though find_or_insert does not check them;  *)
(* and no insertion grows the table half-way with fewer than               *)
(* kMaxDistance - 1 entries, however the keys collide.                     *)
FarOnlyInCrowds ==
    /\ \A slot \in DOMAIN buckets : buckets[slot].dib <= m_size
    /\ strained => m_size >= kMaxDistance - 1
===============================================================================
