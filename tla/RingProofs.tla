------------------------------- MODULE RingProofs -----------------------------
(***************************************************************************)
(* Proofs about arrays whose index wraps: the rings of the io_uring        *)
(* backend and the buckets of flatmap.                                     *)
(* Of the io_uring backend, for any requests, any ring sizes that divide   *)
(* the range of the counters and either kernel: a ring is a queue, a       *)
(* request is in one place, its iovec lives as long as the kernel may read *)
(* it, and the backend implements AsyncIface.                              *)
(* Of flatmap, for any keys, any hash, any kMaxDistance and any sizes: the *)
(* robin-hood order, how far an entry can be from home, and KeyMap.        *)
(***************************************************************************)
EXTENDS AsyncUring, Flatmap, SequenceTheorems, FiniteSetTheorems, WellFoundedInduction, TLAPS

-------------------------------------------------------------------------------
(* Numbers that wrap                                                       *)

LEMMA ModRange ==
    ASSUME NEW a \in Int, NEW n \in Nat \ {0}
    PROVE  a % n \in 0..(n - 1) /\ a % n \in Int
OBVIOUS

LEMMA ModDiv ==
    ASSUME NEW a \in Int, NEW n \in Nat \ {0}
    PROVE  \E q \in Int : a = n * q + (a % n)
<1>1. a = n * (a \div n) + (a % n) /\ (a \div n) \in Int
  OBVIOUS
<1>2. QED
  BY <1>1

LEMMA ModUnique ==
    ASSUME NEW n \in Nat \ {0}, NEW q \in Int, NEW r \in 0..(n - 1)
    PROVE  (n * q + r) % n = r
OBVIOUS

LEMMA ModSmall ==
    ASSUME NEW n \in Nat \ {0}, NEW a \in 0..(n - 1)
    PROVE  a % n = a
OBVIOUS

(* Numbers that are a multiple of n apart are the same modulo n.           *)
LEMMA ModShift ==
    ASSUME NEW n \in Nat \ {0}, NEW a \in Int, NEW b \in Int, NEW q \in Int, a = b + n * q
    PROVE  a % n = b % n
<1>1. PICK p \in Int : b = n * p + (b % n)
  BY ModDiv
<1> DEFINE r == b % n
<1>2. r \in 0..(n - 1)
  BY ModRange
<1>3. b = n * p + r
  BY <1>1
<1> HIDE DEF r
<1>4. a = n * (p + q) + r /\ p + q \in Int
  BY <1>2, <1>3
<1>5. a % n = r
  BY <1>2, <1>4, ModUnique
<1>6. QED
  BY <1>5 DEF r

(* A number may be reduced before something is added to it.                *)
LEMMA ModSum ==
    ASSUME NEW n \in Nat \ {0}, NEW a \in Int, NEW b \in Int
    PROVE  ((a % n) + b) % n = (a + b) % n
<1>1. PICK p \in Int : a = n * p + (a % n)
  BY ModDiv
<1> DEFINE r == a % n
<1>2. r \in Int /\ a = n * p + r
  BY <1>1, ModRange
<1> HIDE DEF r
<1> DEFINE s == a + b
           t == r + b
<1>3. s = t + n * p /\ s \in Int /\ t \in Int
  BY <1>2
<1> HIDE DEF s, t
<1>4. s % n = t % n
  BY <1>3, ModShift
<1>5. QED
  BY <1>4 DEF r, s, t

LEMMA ModNext ==
    ASSUME NEW n \in Nat \ {0}, NEW a \in Int
    PROVE  ((a % n) + 1) % n = (a + 1) % n
<1> DEFINE one == 1
<1>1. one \in Int
  OBVIOUS
<1>2. ((a % n) + one) % n = (a + one) % n
  <2> HIDE DEF one
  <2>1. QED
    BY <1>1, ModSum
<1>3. QED
  BY <1>2

LEMMA ModMinus ==
    ASSUME NEW n \in Nat \ {0}, NEW a \in Int, NEW b \in Int
    PROVE  ((a % n) - b) % n = (a - b) % n
<1> DEFINE m == 0 - b
           r == a % n
<1>1. m \in Int /\ a - b = a + m
  OBVIOUS
<1>2. r \in Int
  BY ModRange
<1>3. r - b = r + m
  <2> HIDE DEF r
  <2>1. QED
    BY <1>2
<1> HIDE DEF m
<1>4. (r + m) % n = (a + m) % n
  BY <1>1, ModSum
<1>5. QED
  BY <1>1, <1>3, <1>4

LEMMA ModCancel ==
    ASSUME NEW n \in Nat \ {0}, NEW a \in Int, NEW b \in Int, NEW c \in Int, a % n = c % n
    PROVE  (b - a) % n = (b - c) % n
<1>1. PICK p \in Int : a = n * p + (a % n)
  BY ModDiv
<1>2. PICK q \in Int : c = n * q + (c % n)
  BY ModDiv
<1> DEFINE r == a % n
           x == b - a
           y == b - c
           k == q - p
<1>3. r \in Int /\ a = n * p + r /\ c = n * q + r
  BY <1>1, <1>2, ModRange
<1> HIDE DEF r
<1>4. x \in Int /\ y \in Int /\ k \in Int /\ x = y + n * k
  BY <1>3
<1> HIDE DEF x, y, k
<1>5. x % n = y % n
  <2>1. \A u, v, w \in Int : u = v + n * w => u % n = v % n
    BY ModShift
  <2>2. QED
    BY <1>4, <2>1, Zenon
<1>6. QED
  BY <1>5 DEF x, y

(* Reducing modulo a multiple first makes no difference.                   *)
LEMMA ModInner ==
    ASSUME NEW n \in Nat \ {0}, NEW w \in Nat \ {0}, w % n = 0, NEW a \in Int
    PROVE  (a % w) % n = a % n
<1>1. PICK p \in Int : a = w * p + (a % w)
  BY ModDiv
<1>2. PICK k \in Int : w = n * k
  <2>1. w \in Int
    OBVIOUS
  <2>2. PICK k \in Int : w = n * k + (w % n)
    BY <2>1, ModDiv
  <2>3. w = n * k
    <3> DEFINE m == n * k
    <3>1. m \in Int /\ w = m + 0
      BY <2>2
    <3>2. w = m
      BY <3>1
    <3>3. QED
      BY <3>2
  <2>4. QED
    BY <2>3
<1> DEFINE r == a % w
           q == k * p
<1>3. r \in Int /\ a = w * p + r
  BY <1>1, ModRange
<1> HIDE DEF r
<1>4. q \in Int /\ a = r + n * q
  BY <1>2, <1>3
<1> HIDE DEF q
<1>5. a % n = r % n
  BY <1>3, <1>4, ModShift
<1>6. QED
  BY <1>5 DEF r

(* Numbers less than n apart differ modulo n.                              *)
LEMMA ModDiffers ==
    ASSUME NEW n \in Nat \ {0}, NEW a \in Int, NEW b \in Int, a < b, b - a < n
    PROVE  a % n # b % n
<1> SUFFICES ASSUME a % n = b % n
             PROVE  FALSE
  OBVIOUS
<1>1. PICK p \in Int : a = n * p + (a % n)
  BY ModDiv
<1>2. PICK q \in Int : b = n * q + (b % n)
  BY ModDiv
<1> DEFINE r == a % n
           d == q - p
<1>3. r \in Int /\ a = n * p + r /\ b = n * q + r
  BY <1>1, <1>2, ModRange
<1> HIDE DEF r
<1>4. d \in Int /\ b - a = n * d
  BY <1>3
<1> HIDE DEF d
<1>5. 0 < n * d /\ n * d < n
  BY <1>4
<1>6. CASE d <= 0
  <2>1. n * d <= 0
    BY <1>4, <1>6
  <2>2. QED
    BY <1>4, <1>5, <2>1
<1>7. CASE d >= 1
  <2>1. n * d >= n
    BY <1>4, <1>7
  <2>2. QED
    BY <1>4, <1>5, <2>1
<1>8. QED
  BY <1>4, <1>6, <1>7

-------------------------------------------------------------------------------
(* Induction over the naturals, stated for a set so that it needs no       *)
(* operator parameter, and the recursive functions it gives.               *)

LEMMA Induction ==
    ASSUME NEW T, 0 \in T, \A n \in Nat : n \in T => n + 1 \in T
    PROVE  \A n \in Nat : n \in T
<1> DEFINE D == {n \in Nat : n \notin T}
<1>1. ASSUME D # {}
      PROVE  FALSE
  <2>1. PICK n \in D : \A m \in D : ~(<<m, n>> \in OpToRel(<, Nat))
    <3>1. D \subseteq Nat
      OBVIOUS
    <3>2. QED
      BY <1>1, <3>1, NatLessThanWellFounded, WFMin
  <2>2. \A m \in D : ~(m < n)
    BY <2>1 DEF OpToRel
  <2>3. n \in Nat /\ n # 0
    OBVIOUS
  <2>4. n - 1 \in Nat /\ n - 1 < n /\ (n - 1) + 1 = n
    BY <2>3
  <2>5. n - 1 \in T
    BY <2>2, <2>4
  <2>6. QED
    BY <2>4, <2>5
<1>2. QED
  BY <1>1

(* A recursive function over 0..N exists: f[0] is base, and step[n] takes  *)
(* f[n - 1] to f[n].                                                       *)
Steps(N, D) == [1..N -> [D -> D]]
Follows(f, N, D, base, step) ==
    f \in [0..N -> D] /\ f[0] = base /\ \A n \in 1..N : f[n] = step[n][f[n - 1]]

LEMMA Recursion ==
    ASSUME NEW N \in Nat, NEW D, NEW base \in D, NEW step \in Steps(N, D)
    PROVE  \E f : Follows(f, N, D, base, step)
<1> DEFINE T == {m \in Nat : m <= N => \E f : Follows(f, m, D, base, step)}
<1>0. step \in [1..N -> [D -> D]]
  BY DEF Steps
<1>1. 0 \in T
  <2>1. Follows([i \in 0..0 |-> base], 0, D, base, step)
    BY DEF Follows
  <2>2. QED
    BY <2>1
<1>2. ASSUME NEW m \in Nat, m \in T
      PROVE  m + 1 \in T
  <2>1. SUFFICES ASSUME m + 1 <= N
                 PROVE  \E g : Follows(g, m + 1, D, base, step)
    OBVIOUS
  <2>2. PICK f : Follows(f, m, D, base, step)
    BY <1>2, <2>1
  <2> DEFINE g == [i \in 0..(m + 1) |-> IF i = m + 1 THEN step[m + 1][f[m]] ELSE f[i]]
  <2>3. f[m] \in D /\ m + 1 \in 1..N /\ step[m + 1][f[m]] \in D
    BY <1>0, <2>1, <2>2 DEF Follows
  <2>4. g \in [0..(m + 1) -> D]
    BY <2>2, <2>3 DEF Follows
  <2>5. \A i \in 0..m : g[i] = f[i]
    OBVIOUS
  <2>6. g[m + 1] = step[m + 1][g[m]]
    <3>1. m + 1 \in 0..(m + 1) /\ m \in 0..m
      OBVIOUS
    <3>2. g[m + 1] = step[m + 1][f[m]]
      BY <3>1
    <3>3. QED
      BY <2>5, <3>1, <3>2
  <2>7. g[0] = base
    BY <2>2, <2>5 DEF Follows
  <2>8. ASSUME NEW n \in 1..(m + 1)
        PROVE  g[n] = step[n][g[n - 1]]
    <3>1. CASE n = m + 1
      BY <2>6, <3>1
    <3>2. CASE n # m + 1
      <4>1. n \in 1..m /\ n - 1 \in 0..m /\ n \in 0..m
        BY <3>2
      <4>2. QED
        BY <2>2, <2>5, <4>1 DEF Follows
    <3>3. QED
      BY <3>1, <3>2
  <2>9. QED
    BY <2>4, <2>7, <2>8 DEF Follows
<1> HIDE DEF T
<1>3. N \in T
  BY <1>1, <1>2, Induction
<1>4. QED
  BY <1>3 DEF T

-------------------------------------------------------------------------------
(* The counters of a ring                                                  *)

(* The tail is the head and what is used, and it may run on.               *)
LEMMA TailAdvances ==
    ASSUME NEW w \in Nat \ {0}, NEW head \in 0..(w - 1), NEW tail \in 0..(w - 1),
           NEW k \in Nat, ((tail - head) % w) + k < w
    PROVE  (((tail + k) % w) - head) % w = ((tail - head) % w) + k
<1> DEFINE a == tail + k
           m == 0 - head
           d == tail - head
           used == d % w
           x == a % w
<1>1. a \in Int /\ m \in Int /\ d \in Int /\ a + m = d + k /\ k \in Int
  OBVIOUS
<1>2. (x - head) % w = (x + m) % w
  <2>1. x \in Int
    BY <1>1, ModRange
  <2> HIDE DEF x
  <2>2. x - head = x + m
    BY <2>1
  <2>3. QED
    BY <2>2
<1> HIDE DEF a, m, d
<1>3. used \in 0..(w - 1) /\ used + k < w
  BY <1>1, ModRange DEF d
<1>4. (x + m) % w = (a + m) % w /\ (used + k) % w = (d + k) % w
  BY <1>1, ModSum
<1>5. (used + k) % w = used + k
  <2> HIDE DEF used
  <2>1. used + k \in 0..(w - 1)
    BY <1>3
  <2>2. QED
    BY <2>1, ModSmall
<1>6. QED
  BY <1>1, <1>2, <1>4, <1>5 DEF a, d

LEMMA HeadAdvances ==
    ASSUME NEW w \in Nat \ {0}, NEW head \in 0..(w - 1), NEW tail \in 0..(w - 1),
           NEW n \in 0..((tail - head) % w)
    PROVE  (tail - ((head + n) % w)) % w = ((tail - head) % w) - n
<1> DEFINE used == (tail - head) % w
           x == (head + n) % w
           y == tail - x
           z == tail - head + (0 - n)
<1>1. used \in 0..(w - 1) /\ n \in Nat /\ n <= used
  BY ModRange
<1> DEFINE b == head + n
<1>2. PICK q \in Int : b = w * q + x
  <2>1. b \in Int
    BY <1>1
  <2> HIDE DEF b
  <2>2. \E q \in Int : b = w * q + (b % w)
    BY <2>1, ModDiv
  <2>3. QED
    BY <2>2 DEF b
<1>3. x \in Int
  BY <1>1, ModRange
<1>4. y % w = z % w
  <2> HIDE DEF x
  <2>1. y = z + w * q /\ y \in Int /\ z \in Int
    BY <1>1, <1>2, <1>3
  <2> HIDE DEF y, z
  <2>2. QED
    BY <2>1, ModShift
<1>5. z % w = (used + (0 - n)) % w
  <2> DEFINE d == tail - head
             m == 0 - n
  <2>1. d \in Int /\ m \in Int
    BY <1>1
  <2> HIDE DEF d, m
  <2>2. ((d % w) + m) % w = (d + m) % w
    BY <2>1, ModSum
  <2>3. QED
    BY <2>2 DEF d, m
<1>6. (used + (0 - n)) % w = used - n
  <2> HIDE DEF used
  <2>1. used + (0 - n) \in 0..(w - 1) /\ used + (0 - n) = used - n
    BY <1>1
  <2>2. QED
    BY <2>1, ModSmall
<1>7. QED
  BY <1>4, <1>5, <1>6 DEF y, x, used

LEMMA TailIs ==
    ASSUME NEW w \in Nat \ {0}, NEW head \in 0..(w - 1), NEW tail \in 0..(w - 1)
    PROVE  tail = (head + ((tail - head) % w)) % w
<1> DEFINE d == tail - head
           used == d % w
<1>1. d \in Int /\ head \in Int /\ d + head = tail
  OBVIOUS
<1> HIDE DEF d
<1>2. used \in Int /\ (used + head) % w = (d + head) % w
  BY <1>1, ModSum, ModRange
<1>3. used + head = head + used
  <2> HIDE DEF used
  <2>1. QED
    BY <1>2, <1>1
<1>4. tail % w = tail
  BY ModSmall
<1>5. QED
  BY <1>1, <1>2, <1>3, <1>4 DEF d

-------------------------------------------------------------------------------
(* A ring is a queue                                                       *)

Sizes == {SqSize, CqSize}

(* What a ring holds, oldest first.                                        *)
Contents(ring, size) == Entries(ring, size, Used(ring))

LEMMA SizeFacts ==
    ASSUME NEW size \in Sizes
    PROVE  /\ size \in Nat \ {0} /\ Wrap \in Nat \ {0}
           /\ size < Wrap /\ Wrap % size = 0
BY RingsDivideWrap DEF Sizes

LEMMA RingFacts ==
    ASSUME NEW size \in Sizes, NEW ring, RingOK(ring, size)
    PROVE  /\ ring.head \in 0..(Wrap - 1) /\ ring.tail \in 0..(Wrap - 1)
           /\ ring.slot \in [0..(size - 1) -> UserData]
           /\ Used(ring) \in 0..size
           /\ ring.tail % size = (ring.head + Used(ring)) % size
<1>1. /\ ring.head \in 0..(Wrap - 1) /\ ring.tail \in 0..(Wrap - 1)
      /\ ring.slot \in [0..(size - 1) -> UserData]
  BY DEF RingOK
<1> DEFINE head == ring.head
           tail == ring.tail
           d == tail - head
<1>2. Used(ring) \in 0..size
  <2>1. d \in Int /\ Used(ring) = d % Wrap /\ Used(ring) <= size
    BY <1>1, SizeFacts DEF RingOK, Used
  <2> HIDE DEF d
  <2>2. d % Wrap \in 0..(Wrap - 1)
    BY <2>1, SizeFacts, ModRange
  <2>3. QED
    BY <2>1, <2>2, SizeFacts
<1>3. tail = (head + Used(ring)) % Wrap
  <2>1. Used(ring) = (tail - head) % Wrap
    BY DEF Used
  <2> HIDE DEF head, tail, d
  <2>2. head \in 0..(Wrap - 1) /\ tail \in 0..(Wrap - 1) /\ Wrap \in Nat \ {0}
    BY <1>1, SizeFacts DEF head, tail
  <2>3. QED
    BY <2>1, <2>2, TailIs
<1>4. ((ring.head + Used(ring)) % Wrap) % size = (ring.head + Used(ring)) % size
  <2>1. ring.head + Used(ring) \in Int
    BY <1>1, <1>2, SizeFacts
  <2>2. QED
    BY <2>1, SizeFacts, ModInner
<1>5. QED
  BY <1>1, <1>2, <1>3, <1>4

(* The place of the i-th oldest entry.                                     *)
Place(ring, size, i) == (ring.head + i - 1) % size

LEMMA PlaceFacts ==
    ASSUME NEW size \in Sizes, NEW ring, RingOK(ring, size), NEW i \in Nat \ {0}
    PROVE  /\ Place(ring, size, i) \in 0..(size - 1)
           /\ \A j \in Nat : i < j /\ j - i < size => Place(ring, size, i) # Place(ring, size, j)
<1>1. ring.head \in Nat
  BY RingFacts, SizeFacts
<1>2. Place(ring, size, i) \in 0..(size - 1)
  <2> DEFINE a == ring.head + i - 1
  <2>1. a \in Int
    BY <1>1
  <2> HIDE DEF a
  <2>2. a % size \in 0..(size - 1)
    BY <2>1, SizeFacts, ModRange
  <2>3. QED
    BY <2>2 DEF Place, a
<1>3. ASSUME NEW j \in Nat, i < j, j - i < size
      PROVE  Place(ring, size, i) # Place(ring, size, j)
  <2> DEFINE a == ring.head + i - 1
             b == ring.head + j - 1
  <2>1. a \in Int /\ b \in Int /\ a < b /\ b - a < size
    BY <1>1, <1>3
  <2> HIDE DEF a, b
  <2>2. a % size # b % size
    BY <2>1, SizeFacts, ModDiffers
  <2>3. QED
    BY <2>2 DEF Place, a, b
<1>4. QED
  BY <1>2, <1>3

LEMMA EntriesFacts ==
    ASSUME NEW size \in Sizes, NEW ring, RingOK(ring, size), NEW n \in Nat
    PROVE  /\ Entries(ring, size, n) \in Seq(UserData)
           /\ Len(Entries(ring, size, n)) = n
           /\ \A i \in 1..n : Entries(ring, size, n)[i] = ring.slot[Place(ring, size, i)]
<1>1. ASSUME NEW i \in 1..n
      PROVE  ring.slot[Place(ring, size, i)] \in UserData
  <2>1. Place(ring, size, i) \in 0..(size - 1)
    BY PlaceFacts
  <2>2. QED
    BY <2>1, RingFacts
<1>2. Entries(ring, size, n) = [i \in 1..n |-> ring.slot[Place(ring, size, i)]]
  BY DEF Entries, Place
<1>3. QED
  BY <1>1, <1>2, IsASeq

LEMMA ContentsFacts ==
    ASSUME NEW size \in Sizes, NEW ring, RingOK(ring, size)
    PROVE  /\ Contents(ring, size) \in Seq(UserData)
           /\ Len(Contents(ring, size)) = Used(ring)
           /\ \A i \in 1..Used(ring) : Contents(ring, size)[i] = ring.slot[Place(ring, size, i)]
<1> DEFINE n == Used(ring)
<1>1. n \in Nat
  BY RingFacts, SizeFacts
<1> HIDE DEF n
<1>2. /\ Entries(ring, size, n) \in Seq(UserData) /\ Len(Entries(ring, size, n)) = n
      /\ \A i \in 1..n : Entries(ring, size, n)[i] = ring.slot[Place(ring, size, i)]
  BY <1>1, EntriesFacts
<1>3. QED
  BY <1>2 DEF Contents, n

(* How far the place of an entry is from the head, and from the tail.      *)
LEMMA HeadOffset ==
    ASSUME NEW size \in Sizes, NEW ring, RingOK(ring, size), NEW i \in 1..size
    PROVE  (Place(ring, size, i) - ring.head) % size = i - 1
<1> DEFINE head == ring.head
           a == head + i - 1
           d == i - 1
<1>1. head \in Int /\ a \in Int /\ a - head = d /\ d \in 0..(size - 1) /\ size \in Nat \ {0}
  BY RingFacts, SizeFacts
<1>2. Place(ring, size, i) = a % size
  BY DEF Place
<1> HIDE DEF head, a, d
<1>3. ((a % size) - head) % size = (a - head) % size
  BY <1>1, ModMinus
<1>4. d % size = d
  BY <1>1, ModSmall
<1>5. QED
  BY <1>1, <1>2, <1>3, <1>4 DEF head, d

LEMMA TailOffset ==
    ASSUME NEW size \in Sizes, NEW ring, RingOK(ring, size), NEW i \in Nat \ {0}
    PROVE  /\ i <= Used(ring) =>
                (Place(ring, size, i) - ring.tail) % size = size + i - 1 - Used(ring)
           /\ i > Used(ring) /\ i <= size =>
                (Place(ring, size, i) - ring.tail) % size = i - 1 - Used(ring)
<1> DEFINE head == ring.head
           tail == ring.tail
           used == Used(ring)
           a == head + i - 1
           c == head + used
           d == i - 1 - used
           e == size + d
<1>0. tail % size = c % size
  BY RingFacts
<1>1. head \in Int /\ tail \in Int /\ used \in 0..size /\ size \in Nat \ {0}
  BY RingFacts, SizeFacts
<1>2. a \in Int /\ c \in Int /\ d \in Int /\ e \in Int /\ a - c = d
  <2> HIDE DEF head, used
  <2>1. QED
    BY <1>1
<1>3. Place(ring, size, i) = a % size
  BY DEF Place
<1>4. ((a % size) - tail) % size = d % size
  <2> HIDE DEF a, c, d, tail
  <2>1. ((a % size) - tail) % size = (a - tail) % size
    BY <1>1, <1>2, ModMinus
  <2>2. (a - tail) % size = (a - c) % size
    <3>1. \A u, v, w \in Int : u % size = v % size => (w - u) % size = (w - v) % size
      BY <1>1, ModCancel
    <3>2. QED
      BY <1>0, <1>1, <1>2, <3>1, Zenon
  <2>3. QED
    BY <1>2, <2>1, <2>2
<1>5. ASSUME i <= used
      PROVE  d % size = e
  <2>1. e \in 0..(size - 1)
    BY <1>1, <1>5
  <2>2. e = d + size * 1
    BY <1>1, <1>2
  <2> HIDE DEF d, e
  <2>3. e % size = d % size
    <3>1. 1 \in Int
      OBVIOUS
    <3>2. QED
      BY <1>1, <1>2, <2>2, <3>1, ModShift, Zenon
  <2>4. e % size = e
    BY <1>1, <2>1, ModSmall
  <2>5. QED
    BY <2>3, <2>4
<1>6. ASSUME i > used, i <= size
      PROVE  d % size = d
  <2>1. d \in 0..(size - 1)
    BY <1>1, <1>6
  <2> HIDE DEF d
  <2>2. QED
    BY <1>1, <2>1, ModSmall
<1>7. e = size + i - 1 - used
  BY <1>1
<1> HIDE DEF a, c, d, e
<1>8. QED
  BY <1>3, <1>4, <1>5, <1>6, <1>7 DEF used, tail, d

(* n entries of s are put behind those that are there.                     *)
Fills(ring, size, s, n, slot) ==
    \A j \in 0..(size - 1) :
        slot[j] = IF (j - ring.tail) % size < n
                  THEN s[((j - ring.tail) % size) + 1] ELSE ring.slot[j]

LEMMA Filled ==
    ASSUME NEW size \in Sizes, NEW ring, RingOK(ring, size),
           NEW s \in Seq(UserData), NEW n \in 0..Len(s), Used(ring) + n <= size,
           NEW slot \in [0..(size - 1) -> UserData], Fills(ring, size, s, n, slot),
           NEW full, full = [head |-> ring.head, tail |-> (ring.tail + n) % Wrap, slot |-> slot]
    PROVE  /\ RingOK(full, size) /\ Used(full) = Used(ring) + n
           /\ Contents(full, size) = Contents(ring, size) \o SubSeq(s, 1, n)
<1> DEFINE used == Used(ring)
<1>1. /\ used \in 0..size /\ n \in Nat /\ used + n <= size /\ size \in Nat \ {0}
      /\ size < Wrap /\ Wrap \in Nat \ {0} /\ Len(s) \in Nat
  BY RingFacts, SizeFacts
<1>2. Used(full) = used + n
  <2> DEFINE head == ring.head
             tail == ring.tail
  <2>1. head \in 0..(Wrap - 1) /\ tail \in 0..(Wrap - 1)
    BY RingFacts
  <2>2. used = (tail - head) % Wrap /\ Used(full) = (((tail + n) % Wrap) - head) % Wrap
    BY DEF Used
  <2>3. used + n < Wrap
    BY <1>1
  <2> HIDE DEF head, tail, used
  <2>4. QED
    BY <1>1, <2>1, <2>2, <2>3, TailAdvances
<1>3. RingOK(full, size)
  <2> DEFINE a == ring.tail + n
  <2>1. a \in Int
    BY <1>1, RingFacts
  <2> HIDE DEF a
  <2>2. a % Wrap \in 0..(Wrap - 1)
    BY <1>1, <2>1, ModRange
  <2>3. full.tail \in 0..(Wrap - 1)
    BY <2>2 DEF a
  <2>4. full \in [head : 0..(Wrap - 1), tail : 0..(Wrap - 1), slot : [0..(size - 1) -> UserData]]
    BY <2>3, RingFacts
  <2>5. QED
    BY <1>1, <1>2, <2>4 DEF RingOK
<1>4. /\ Contents(full, size) \in Seq(UserData) /\ Len(Contents(full, size)) = used + n
      /\ \A i \in 1..(used + n) : Contents(full, size)[i] = full.slot[Place(full, size, i)]
  BY <1>2, <1>3, ContentsFacts
<1>5. /\ Contents(ring, size) \in Seq(UserData) /\ Len(Contents(ring, size)) = used
      /\ \A i \in 1..used : Contents(ring, size)[i] = ring.slot[Place(ring, size, i)]
  BY ContentsFacts
<1>6. /\ SubSeq(s, 1, n) \in Seq(UserData) /\ Len(SubSeq(s, 1, n)) = n
      /\ \A i \in 1..n : SubSeq(s, 1, n)[i] = s[i]
  BY <1>1, SubSeqProperties
<1> DEFINE joined == Contents(ring, size) \o SubSeq(s, 1, n)
<1>7. /\ joined \in Seq(UserData) /\ Len(joined) = used + n
      /\ \A i \in 1..(used + n) : joined[i] = IF i <= used THEN Contents(ring, size)[i]
                                              ELSE SubSeq(s, 1, n)[i - used]
  <2> DEFINE q == Contents(ring, size)
             t == SubSeq(s, 1, n)
  <2>1. q \in Seq(UserData) /\ t \in Seq(UserData) /\ Len(q) = used /\ Len(t) = n
    BY <1>5, <1>6
  <2> HIDE DEF q, t, used
  <2>2. /\ q \o t \in Seq(UserData) /\ Len(q \o t) = used + n
        /\ \A i \in 1..(used + n) : (q \o t)[i] = IF i <= used THEN q[i] ELSE t[i - used]
    BY <2>1, ConcatProperties
  <2>3. QED
    BY <2>2 DEF q, t
<1>8. ASSUME NEW i \in 1..(used + n)
      PROVE  Contents(full, size)[i] = joined[i]
  <2> DEFINE p == Place(ring, size, i)
             k == (p - ring.tail) % size
  <2>1. i \in Nat \ {0} /\ i <= size /\ p \in 0..(size - 1) /\ Place(full, size, i) = p
    BY <1>1, PlaceFacts DEF Place
  <2>2. slot[p] = IF k < n THEN s[k + 1] ELSE ring.slot[p]
    BY <2>1 DEF Fills
  <2>3. Contents(full, size)[i] = slot[p]
    BY <1>4, <2>1
  <2>4. CASE i <= used
    <3>1. k = size + i - 1 - used
      BY <2>1, <2>4, TailOffset
    <3>2. ~(k < n)
      <4> HIDE DEF k
      <4>1. QED
        BY <1>1, <2>1, <3>1
    <3>3. QED
      BY <1>5, <1>7, <2>1, <2>2, <2>3, <2>4, <3>2
  <2>5. CASE i > used
    <3>1. k = i - 1 - used
      BY <2>1, <2>5, TailOffset
    <3>2. k < n /\ k + 1 = i - used /\ i - used \in 1..n
      <4> HIDE DEF k
      <4>1. QED
        BY <1>1, <2>1, <2>5, <3>1
    <3>3. joined[i] = s[i - used]
      <4>1. joined[i] = IF i <= used THEN Contents(ring, size)[i] ELSE SubSeq(s, 1, n)[i - used]
        BY <1>7
      <4>2. ~(i <= used)
        <5> HIDE DEF used
        <5>1. QED
          BY <1>1, <2>5
      <4>3. SubSeq(s, 1, n)[i - used] = s[i - used]
        BY <1>6, <3>2
      <4>4. QED
        BY <4>1, <4>2, <4>3
    <3>4. QED
      BY <2>2, <2>3, <3>2, <3>3
  <2>6. i <= used \/ i > used
    <3> HIDE DEF used
    <3>1. QED
      BY <1>1
  <2>7. QED
    BY <2>4, <2>5, <2>6
<1>9. Contents(full, size) = joined
  <2> HIDE DEF joined
  <2>1. QED
    BY <1>4, <1>7, <1>8, SeqEqual
<1>10. QED
  BY <1>2, <1>3, <1>9

(* The one slot at distance 0 from the tail is the tail's.                 *)
LEMMA TailSlot ==
    ASSUME NEW size \in Nat \ {0}, NEW tail \in Int, NEW j \in 0..(size - 1)
    PROVE  /\ (j - tail) % size \in Nat
           /\ (j - tail) % size = 0 <=> j = tail % size
<1> DEFINE p == tail % size
           d == j - tail
<1>1. p \in 0..(size - 1) /\ d \in Int
  BY ModRange
<1>2. d % size \in 0..(size - 1)
  <2> HIDE DEF d
  <2>1. QED
    BY <1>1, ModRange
<1>3. ASSUME j = p
      PROVE  d % size = 0
  <2>1. ((tail % size) - tail) % size = (tail - tail) % size
    BY ModMinus
  <2>2. tail - tail = 0 /\ 0 \in 0..(size - 1)
    OBVIOUS
  <2>3. 0 % size = 0
    BY <2>2, ModSmall
  <2>4. QED
    BY <1>3, <2>1, <2>2, <2>3
<1>4. ASSUME d % size = 0
      PROVE  j = p
  <2>1. PICK q \in Int : d = size * q + (d % size)
    <3> HIDE DEF d
    <3>1. QED
      BY <1>1, ModDiv
  <2>2. j = tail + size * q /\ j \in Int
    <3> DEFINE m == size * q
    <3>1. m \in Int /\ d = m
      <4> HIDE DEF d
      <4>1. QED
        BY <1>1, <1>4, <2>1
    <3> HIDE DEF m
    <3>2. j = tail + m
      BY <3>1
    <3>3. QED
      BY <3>2 DEF m
  <2>3. j % size = tail % size
    BY <2>2, ModShift
  <2>4. j % size = j
    BY ModSmall
  <2>5. QED
    BY <2>3, <2>4
<1>5. QED
  BY <1>2, <1>3, <1>4

LEMMA PutIs ==
    ASSUME NEW size \in Sizes, NEW ring, RingOK(ring, size), Used(ring) < size,
           NEW u \in UserData
    PROVE  /\ RingOK(Put(ring, size, u), size)
           /\ Used(Put(ring, size, u)) = Used(ring) + 1
           /\ Contents(Put(ring, size, u), size) = Contents(ring, size) \o <<u>>
<1> DEFINE full == Put(ring, size, u)
           tail == ring.tail
           p == tail % size
           slot == [ring.slot EXCEPT ![p] = u]
           s == <<u>>
<1>1. /\ Used(ring) \in Nat /\ Used(ring) + 1 <= size /\ size \in Nat \ {0} /\ tail \in Int
      /\ ring.slot \in [0..(size - 1) -> UserData]
  BY RingFacts, SizeFacts
<1>2. full = [head |-> ring.head, tail |-> (ring.tail + 1) % Wrap, slot |-> slot]
  <2>1. full = [ring EXCEPT !.tail = (tail + 1) % Wrap, !.slot = slot]
    BY DEF Put
  <2>2. ring = [head |-> ring.head, tail |-> ring.tail, slot |-> ring.slot]
    BY DEF RingOK
  <2> HIDE DEF full, slot
  <2>3. QED
    BY <2>1, <2>2
<1>3. slot \in [0..(size - 1) -> UserData]
  <2> HIDE DEF p
  <2>1. QED
    BY <1>1
<1>4. s \in Seq(UserData) /\ Len(s) = 1 /\ s[1] = u /\ 1 \in 0..Len(s) /\ SubSeq(s, 1, 1) = s
  <2>1. s \in Seq(UserData) /\ Len(s) = 1 /\ s[1] = u
    OBVIOUS
  <2> HIDE DEF s
  <2>2. SubSeq(s, 1, Len(s)) = s
    BY <2>1, SubSeqFull
  <2>3. QED
    BY <2>1, <2>2
<1>5. Fills(ring, size, s, 1, slot)
  <2> SUFFICES ASSUME NEW j \in 0..(size - 1)
               PROVE  slot[j] = IF (j - tail) % size < 1
                                THEN s[((j - tail) % size) + 1] ELSE ring.slot[j]
    BY DEF Fills
  <2> DEFINE k == (j - tail) % size
  <2>1. k \in Nat /\ (k = 0 <=> j = p)
    BY <1>1, TailSlot
  <2>2. slot[j] = IF j = p THEN u ELSE ring.slot[j]
    BY <1>1
  <2> HIDE DEF k, p, slot
  <2>3. slot[j] = IF k < 1 THEN s[k + 1] ELSE ring.slot[j]
    BY <1>4, <2>1, <2>2
  <2>4. QED
    BY <2>3 DEF k
<1> HIDE DEF slot, full, s
<1>6. /\ RingOK(full, size) /\ Used(full) = Used(ring) + 1
      /\ Contents(full, size) = Contents(ring, size) \o SubSeq(s, 1, 1)
  <2>1. ASSUME NEW n \in 0..Len(s), n = 1
        PROVE  /\ RingOK(full, size) /\ Used(full) = Used(ring) + n
               /\ Contents(full, size) = Contents(ring, size) \o SubSeq(s, 1, n)
    <3>1. /\ Used(ring) + n <= size /\ Fills(ring, size, s, n, slot)
          /\ full = [head |-> ring.head, tail |-> (ring.tail + n) % Wrap, slot |-> slot]
      BY <1>1, <1>2, <1>5, <2>1
    <3>2. QED
      BY <1>3, <1>4, <3>1, Filled
  <2>2. QED
    BY <1>4, <2>1
<1>7. QED
  BY <1>4, <1>6 DEF full, s

LEMMA EmptyIs ==
    ASSUME NEW size \in Sizes
    PROVE  RingOK(Empty(size), size) /\ Used(Empty(size)) = 0 /\ Contents(Empty(size), size) = <<>>
<1> DEFINE ring == Empty(size)
<1>1. Timeout \in UserData /\ size \in Nat \ {0} /\ Wrap \in Nat \ {0}
  BY SizeFacts DEF UserData
<1>2. ring = [head |-> 0, tail |-> 0, slot |-> [i \in 0..(size - 1) |-> Timeout]]
  BY DEF Empty
<1>3. Used(ring) = 0
  <2>1. 0 \in 0..(Wrap - 1) /\ 0 - 0 = 0
    BY <1>1
  <2>2. QED
    BY <1>1, <1>2, <2>1, ModSmall DEF Used
<1>4. RingOK(ring, size)
  BY <1>1, <1>2, <1>3 DEF RingOK
<1> HIDE DEF ring
<1>5. Contents(ring, size) = <<>>
  BY <1>3, <1>4, ContentsFacts, EmptySeq
<1>6. QED
  BY <1>3, <1>4, <1>5 DEF ring

(* The first n entries are a prefix of what the ring holds ...             *)
LEMMA PrefixIs ==
    ASSUME NEW size \in Sizes, NEW ring, RingOK(ring, size), NEW n \in 0..Used(ring)
    PROVE  Entries(ring, size, n) = SubSeq(Contents(ring, size), 1, n)
<1> DEFINE q == Contents(ring, size)
           used == Used(ring)
           e == Entries(ring, size, n)
<1>1. used \in Nat /\ n \in Nat /\ n <= used
  BY RingFacts, SizeFacts
<1>2. /\ q \in Seq(UserData) /\ Len(q) = used
      /\ \A i \in 1..used : q[i] = ring.slot[Place(ring, size, i)]
  BY ContentsFacts
<1>3. /\ e \in Seq(UserData) /\ Len(e) = n
      /\ \A i \in 1..n : e[i] = ring.slot[Place(ring, size, i)]
  BY <1>1, EntriesFacts
<1> HIDE DEF q, used, e
<1>4. \A i \in 1..n : q[i] \in UserData
  BY <1>1, <1>2, ElementOfSeq
<1>5. /\ SubSeq(q, 1, n) \in Seq(UserData) /\ Len(SubSeq(q, 1, n)) = n
      /\ \A i \in 1..n : SubSeq(q, 1, n)[i] = q[i]
  BY <1>1, <1>4, SubSeqProperties
<1>6. \A i \in 1..n : e[i] = SubSeq(q, 1, n)[i]
  BY <1>1, <1>2, <1>3, <1>5
<1>7. QED
  BY <1>3, <1>5, <1>6, SeqEqual DEF q, e

(* ... and when they were taken the rest is left.                          *)
LEMMA TakenIs ==
    ASSUME NEW size \in Sizes, NEW ring, RingOK(ring, size), NEW n \in 0..Used(ring)
    PROVE  /\ RingOK(Taken(ring, size, n), size)
           /\ Used(Taken(ring, size, n)) = Used(ring) - n
           /\ Contents(Taken(ring, size, n), size) =
                  SubSeq(Contents(ring, size), n + 1, Used(ring))
<1> DEFINE left == Taken(ring, size, n)
           head == ring.head
           h == head + n
           slot == [j \in DOMAIN ring.slot |->
                       IF (j - head) % size < n THEN Timeout ELSE ring.slot[j]]
           used == Used(ring)
           q == Contents(ring, size)
<1>1. /\ used \in 0..size /\ n \in 0..used /\ n \in Nat /\ size \in Nat \ {0} /\ head \in Nat
      /\ size < Wrap /\ Wrap \in Nat \ {0}
      /\ ring.slot \in [0..(size - 1) -> UserData] /\ Timeout \in UserData
  BY RingFacts, SizeFacts DEF UserData
<1>2. left = [head |-> h % Wrap, tail |-> ring.tail, slot |-> slot]
  <2>1. left = [ring EXCEPT !.head = h % Wrap, !.slot = slot]
    BY DEF Taken
  <2>2. ring = [head |-> ring.head, tail |-> ring.tail, slot |-> ring.slot]
    BY DEF RingOK
  <2> HIDE DEF left, slot
  <2>3. QED
    BY <2>1, <2>2
<1>3. /\ slot \in [0..(size - 1) -> UserData]
      /\ \A j \in 0..(size - 1) : slot[j] = IF (j - head) % size < n THEN Timeout ELSE ring.slot[j]
  BY <1>1
<1>4. Used(left) = used - n
  <2> DEFINE tail == ring.tail
  <2>1. head \in 0..(Wrap - 1) /\ tail \in 0..(Wrap - 1)
    BY RingFacts
  <2>2. used = (tail - head) % Wrap /\ Used(left) = (tail - ((head + n) % Wrap)) % Wrap
    <3>1. left.tail = tail /\ left.head = h % Wrap
      <4> HIDE DEF left, h, slot
      <4>1. QED
        BY <1>2
    <3> HIDE DEF left
    <3>2. QED
      BY <3>1 DEF Used
  <2> HIDE DEF head, tail, used
  <2>3. n \in 0..((tail - head) % Wrap)
    BY <1>1, <2>2
  <2>4. QED
    BY <1>1, <2>1, <2>2, <2>3, HeadAdvances
<1>5. RingOK(left, size)
  <2>1. h \in Int
    BY <1>1
  <2> HIDE DEF h
  <2>2. h % Wrap \in 0..(Wrap - 1)
    BY <1>1, <2>1, ModRange
  <2> HIDE DEF slot
  <2>3. left \in [head : 0..(Wrap - 1), tail : 0..(Wrap - 1), slot : [0..(size - 1) -> UserData]]
    BY <1>2, <1>3, <2>2, RingFacts
  <2>4. used - n <= size
    <3> HIDE DEF used, left
    <3>1. QED
      BY <1>1
  <2>5. QED
    BY <1>4, <2>3, <2>4 DEF RingOK
<1>6. /\ Contents(left, size) \in Seq(UserData) /\ Len(Contents(left, size)) = used - n
      /\ \A i \in 1..(used - n) : Contents(left, size)[i] = slot[Place(left, size, i)]
  <2> HIDE DEF left, slot
  <2>1. /\ Contents(left, size) \in Seq(UserData) /\ Len(Contents(left, size)) = Used(left)
        /\ \A i \in 1..Used(left) : Contents(left, size)[i] = left.slot[Place(left, size, i)]
    BY <1>5, ContentsFacts
  <2>2. QED
    BY <1>2, <1>4, <2>1
<1>7. /\ q \in Seq(UserData) /\ Len(q) = used
      /\ \A i \in 1..used : q[i] = ring.slot[Place(ring, size, i)]
  BY ContentsFacts
<1>8. /\ SubSeq(q, n + 1, used) \in Seq(UserData) /\ Len(SubSeq(q, n + 1, used)) = used - n
      /\ \A i \in 1..(used - n) : SubSeq(q, n + 1, used)[i] = q[n + i]
  <2> HIDE DEF q, used
  <2>1. \A i \in (n + 1)..used : q[i] \in UserData
    BY <1>1, <1>7, ElementOfSeq
  <2> DEFINE m == n + 1
  <2>2. m \in Int /\ used \in Int /\ \A i \in m..used : q[i] \in UserData
    BY <1>1, <2>1
  <2>3. /\ SubSeq(q, m, used) \in Seq(UserData)
        /\ Len(SubSeq(q, m, used)) = IF m <= used THEN used - m + 1 ELSE 0
        /\ \A i \in 1..(used - m + 1) : SubSeq(q, m, used)[i] = q[m + i - 1]
    <3> HIDE DEF m
    <3>1. QED
      BY <2>2, SubSeqProperties
  <2>4. used - m + 1 = used - n /\ \A i \in Int : m + i - 1 = n + i
    BY <1>1
  <2>5. Len(SubSeq(q, m, used)) = used - n
    <3>1. m <= used \/ used = n
      BY <1>1
    <3>2. QED
      BY <1>1, <2>3, <3>1
  <2>6. QED
    BY <2>3, <2>4, <2>5
<1>9. ASSUME NEW i \in 1..(used - n)
      PROVE  Contents(left, size)[i] = SubSeq(q, n + 1, used)[i]
  <2> DEFINE m == n + i
             p == Place(ring, size, m)
             a == h + i - 1
             d == i - 1
  <2>1. i \in Nat /\ i >= 1 /\ m \in 1..size /\ m \in 1..used /\ h \in Int /\ d \in Int
    <3> HIDE DEF head, used
    <3>1. QED
      BY <1>1
  <2>2. Place(left, size, i) = p
    <3>1. Place(left, size, i) = ((h % Wrap) + i - 1) % size
      BY <1>2 DEF Place
    <3> DEFINE x == h % Wrap
    <3>2. x \in Int
      <4> HIDE DEF h
      <4>1. QED
        BY <1>1, <2>1, ModRange
    <3>3. x + i - 1 = x + d
      <4> HIDE DEF x
      <4>1. QED
        BY <2>1, <3>2
    <3>4. (x % size) = h % size
      <4> HIDE DEF h
      <4>1. QED
        BY <1>1, <2>1, SizeFacts, ModInner
    <3>5. (x + d) % size = ((x % size) + d) % size
      <4> HIDE DEF x, d
      <4>1. QED
        BY <1>1, <2>1, <3>2, ModSum
    <3>6. ((h % size) + d) % size = (h + d) % size
      <4> HIDE DEF h, d
      <4>1. QED
        BY <1>1, <2>1, ModSum
    <3>7. h + d = head + m - 1
      <4> HIDE DEF head
      <4>1. QED
        BY <1>1, <2>1
    <3> HIDE DEF x, d, h
    <3>8. Place(left, size, i) = (head + m - 1) % size
      BY <3>1, <3>3, <3>4, <3>5, <3>6, <3>7 DEF x
    <3>9. QED
      BY <3>8 DEF Place
  <2>3. p \in 0..(size - 1)
    BY <2>1, PlaceFacts
  <2>4. (p - head) % size = m - 1
    BY <2>1, HeadOffset
  <2>5. ~(m - 1 < n)
    BY <1>1, <2>1
  <2> HIDE DEF slot, left, q, p, used, head
  <2>6. slot[p] = ring.slot[p]
    BY <1>3, <2>3, <2>4, <2>5
  <2>7. Contents(left, size)[i] = slot[p]
    BY <1>6, <2>2
  <2>8. q[m] = ring.slot[p]
    BY <1>7, <2>1 DEF p
  <2>9. SubSeq(q, n + 1, used)[i] = q[m]
    BY <1>8
  <2>10. QED
    BY <2>6, <2>7, <2>8, <2>9
<1>10. Contents(left, size) = SubSeq(q, n + 1, used)
  <2> HIDE DEF left, q, used
  <2>1. QED
    BY <1>6, <1>8, <1>9, SeqEqual
<1>11. QED
  BY <1>4, <1>5, <1>10

-------------------------------------------------------------------------------
(* The completion ring and its overflow list are one queue                 *)

Comps == InCq \o backlog

LEMMA QueueFacts ==
    ASSUME RingOK(sq, SqSize), RingOK(cq, CqSize), backlog \in Seq(UserData)
    PROVE  /\ InSq = Contents(sq, SqSize) /\ InSq \in Seq(UserData)
           /\ InCq = Contents(cq, CqSize) /\ InCq \in Seq(UserData)
           /\ Comps \in Seq(UserData)
<1>1. SqSize \in Sizes /\ CqSize \in Sizes
  BY DEF Sizes
<1>2. InSq = Contents(sq, SqSize) /\ InCq = Contents(cq, CqSize)
  BY DEF InSq, InCq, Contents
<1>3. InSq \in Seq(UserData) /\ InCq \in Seq(UserData)
  BY <1>1, <1>2, ContentsFacts
<1>4. QED
  BY <1>2, <1>3, ConcatProperties DEF Comps

LEMMA FlushIs ==
    ASSUME RingOK(cq, CqSize), backlog \in Seq(UserData), FlushBacklog
    PROVE  /\ RingOK(cq, CqSize)' /\ backlog' \in Seq(UserData)
           /\ Comps' = Comps
           /\ cq'.head = cq.head /\ Used(cq) <= Used(cq)'
<1> DEFINE n == Fitting
           tail == cq.tail
           slot == [i \in DOMAIN cq.slot |->
                       LET k == (i - cq.tail) % CqSize
                       IN  IF k < Fitting THEN backlog[k + 1] ELSE cq.slot[i]]
           moved == SubSeq(backlog, 1, n)
           rest == SubSeq(backlog, n + 1, Len(backlog))
<1>1. CqSize \in Sizes /\ CqSize \in Nat \ {0}
  BY SizeFacts DEF Sizes
<1>2. Used(cq) \in 0..CqSize /\ Len(backlog) \in Nat /\ tail \in Int
      /\ cq.slot \in [0..(CqSize - 1) -> UserData]
  BY <1>1, RingFacts
<1>3. n \in 0..Len(backlog) /\ Used(cq) + n <= CqSize
  <2> DEFINE u == Used(cq)
  <2>1. n = IF Len(backlog) < CqSize - u THEN Len(backlog) ELSE CqSize - u
    BY DEF Fitting
  <2> HIDE DEF u, n
  <2>2. u \in 0..CqSize
    BY <1>2 DEF u
  <2>3. n \in 0..Len(backlog) /\ u + n <= CqSize
    BY <1>1, <1>2, <2>1, <2>2
  <2>4. QED
    BY <2>3 DEF u
<1>4. ASSUME NEW j \in 0..(CqSize - 1)
      PROVE  /\ slot[j] = IF (j - cq.tail) % CqSize < n
                          THEN backlog[((j - cq.tail) % CqSize) + 1] ELSE cq.slot[j]
             /\ slot[j] \in UserData
  <2> DEFINE k == (j - tail) % CqSize
  <2>1. k \in Nat
    BY <1>1, <1>2, TailSlot
  <2>2. slot[j] = IF k < n THEN backlog[k + 1] ELSE cq.slot[j]
    BY <1>2
  <2> HIDE DEF k, n, slot
  <2>3. k < n => backlog[k + 1] \in UserData
    <3>1. k < n => k + 1 \in 1..Len(backlog)
      BY <1>2, <1>3, <2>1
    <3>2. QED
      BY <3>1, ElementOfSeq
  <2>4. cq.slot[j] \in UserData
    BY <1>2
  <2>5. QED
    BY <2>2, <2>3, <2>4 DEF k
<1>5. slot \in [0..(CqSize - 1) -> UserData]
  <2>1. DOMAIN slot = 0..(CqSize - 1) /\ slot = [i \in DOMAIN slot |-> slot[i]]
    BY <1>2
  <2> HIDE DEF slot
  <2>2. QED
    BY <1>4, <2>1
<1>6. Fills(cq, CqSize, backlog, n, slot)
  <2> HIDE DEF slot, n
  <2>1. QED
    BY <1>4 DEF Fills
<1>7. cq' = [head |-> cq.head, tail |-> (cq.tail + n) % Wrap, slot |-> slot]
  <2>1. cq' = [cq EXCEPT !.tail = (cq.tail + n) % Wrap, !.slot = slot]
    BY DEF FlushBacklog
  <2>2. cq = [head |-> cq.head, tail |-> cq.tail, slot |-> cq.slot]
    BY DEF RingOK
  <2> HIDE DEF slot, n
  <2>3. QED
    BY <2>1, <2>2
<1>8. backlog' = rest
  BY DEF FlushBacklog
<1> HIDE DEF slot, n, moved, rest
<1>9. /\ RingOK(cq', CqSize) /\ Used(cq') = Used(cq) + n
      /\ Contents(cq', CqSize) = Contents(cq, CqSize) \o SubSeq(backlog, 1, n)
  BY <1>1, <1>3, <1>5, <1>6, <1>7, Filled
<1>10. moved \in Seq(UserData) /\ rest \in Seq(UserData) /\ moved \o rest = backlog
  <2> DEFINE len == Len(backlog)
  <2>1. len \in Nat /\ n \in Nat /\ n <= len /\ \A i \in 1..len : backlog[i] \in UserData
    BY <1>2, <1>3, ElementOfSeq
  <2> HIDE DEF len
  <2>2. SubSeq(backlog, 1, n) \in Seq(UserData)
    BY <2>1, SubSeqProperties
  <2>3. SubSeq(backlog, n + 1, len) \in Seq(UserData)
    <3> DEFINE m == n + 1
    <3>1. m \in Int /\ \A i \in m..len : backlog[i] \in UserData
      BY <2>1
    <3> HIDE DEF m
    <3>2. SubSeq(backlog, m, len) \in Seq(UserData)
      BY <2>1, <3>1, SubSeqProperties
    <3>3. QED
      BY <3>2 DEF m
  <2>4. SubSeq(backlog, 1, n) \o SubSeq(backlog, n + 1, len) = SubSeq(backlog, 1, len)
    <3>1. 1 \in 1..(Len(backlog) + 1) /\ n \in 0..Len(backlog) /\ len \in n..Len(backlog)
      BY <2>1 DEF len
    <3>2. QED
      BY <3>1, ConcatAdjacentSubSeq
  <2>5. SubSeq(backlog, 1, len) = backlog
    BY SubSeqFull DEF len
  <2>6. QED
    BY <2>2, <2>3, <2>4, <2>5 DEF moved, rest, len
<1>11. InCq = Contents(cq, CqSize) /\ InCq' = Contents(cq', CqSize) /\ InCq \in Seq(UserData)
  BY <1>1, ContentsFacts DEF InCq, Contents
<1>12. Comps' = Comps
  <2>1. InCq' = InCq \o moved /\ backlog' = rest
    BY <1>8, <1>9, <1>11 DEF moved
  <2>2. (InCq \o moved) \o rest = InCq \o (moved \o rest)
    <3>1. InCq \in Seq(UserData) /\ moved \in Seq(UserData) /\ rest \in Seq(UserData)
      BY <1>10, <1>11
    <3> DEFINE q == InCq
    <3> HIDE DEF q
    <3>2. (q \o moved) \o rest = q \o (moved \o rest)
      BY <3>1, ConcatAssociative DEF q
    <3>3. QED
      BY <3>2 DEF q
  <2>3. QED
    BY <1>10, <2>1, <2>2 DEF Comps
<1>13. Used(cq) <= Used(cq')
  BY <1>2, <1>3, <1>9
<1>14. QED
  BY <1>7, <1>8, <1>9, <1>10, <1>12, <1>13

LEMMA PostIs ==
    ASSUME RingOK(cq, CqSize), backlog \in Seq(UserData), NEW u \in UserData, Post(u)
    PROVE  /\ RingOK(cq, CqSize)' /\ backlog' \in Seq(UserData)
           /\ Comps' = Comps \o <<u>>
           /\ cq'.head = cq.head /\ Used(cq) <= Used(cq)'
<1>1. CqSize \in Sizes
  BY DEF Sizes
<1>2. Used(cq) \in Nat /\ <<u>> \in Seq(UserData)
  BY <1>1, RingFacts, SizeFacts
<1>3. InCq = Contents(cq, CqSize) /\ InCq' = Contents(cq', CqSize) /\ InCq \in Seq(UserData)
  BY <1>1, ContentsFacts DEF InCq, Contents
<1>4. CASE Used(cq) < CqSize /\ backlog = <<>>
  <2>1. cq' = Put(cq, CqSize, u) /\ backlog' = backlog
    BY <1>4 DEF Post
  <2>2. RingOK(cq', CqSize) /\ Used(cq') = Used(cq) + 1 /\ Contents(cq', CqSize) = InCq \o <<u>>
    BY <1>1, <1>3, <1>4, <2>1, PutIs
  <2>3. cq'.head = cq.head
    BY <2>1 DEF Put, RingOK
  <2>4. Comps = InCq /\ Comps' = InCq \o <<u>>
    <3>1. Contents(cq', CqSize) \in Seq(UserData)
      BY <1>1, <2>2, ContentsFacts
    <3>2. QED
      BY <1>3, <1>4, <2>1, <2>2, <3>1, ConcatEmptySeq DEF Comps
  <2>5. Used(cq) <= Used(cq')
    BY <1>2, <2>2
  <2>6. QED
    BY <2>1, <2>2, <2>3, <2>4, <2>5
<1>5. CASE ~(Used(cq) < CqSize /\ backlog = <<>>)
  <2>1. cq' = cq /\ backlog' = Append(backlog, u)
    BY <1>5 DEF Post
  <2>2. backlog' = backlog \o <<u>> /\ backlog' \in Seq(UserData)
    BY <2>1, AppendIsConcat, AppendProperties
  <2>3. Comps' = Comps \o <<u>>
    <3>1. InCq \o (backlog \o <<u>>) = (InCq \o backlog) \o <<u>>
      BY <1>2, <1>3, ConcatAssociative
    <3>2. QED
      BY <1>3, <2>1, <2>2, <3>1 DEF Comps
  <2>4. Used(cq) <= Used(cq')
    BY <1>2, <2>1
  <2>5. QED
    BY <2>1, <2>2, <2>3, <2>4
<1>6. QED
  BY <1>4, <1>5

-------------------------------------------------------------------------------
(* The requests among entries                                              *)

LEMMA UserDataFacts ==
    /\ UserData = Request \cup {Timeout} /\ Timeout \notin Request
    /\ \A u \in UserData : u # Timeout => u \in Request
<1>1. \A r \in Request : r.op # "timeout"
  BY DEF Request, Iov
<1>2. Timeout.op = "timeout"
  BY DEF Timeout
<1>3. QED
  BY <1>1, <1>2 DEF UserData

LEMMA InFacts ==
    ASSUME NEW s \in Seq(UserData)
    PROVE  /\ In(s) \subseteq Request
           /\ \A r : r \in In(s) <=> r # Timeout /\ \E i \in 1..Len(s) : r = s[i]
<1>1. DOMAIN s = 1..Len(s) /\ \A i \in 1..Len(s) : s[i] \in UserData
  BY ElementOfSeq, LenProperties
<1>2. QED
  BY <1>1, UserDataFacts DEF In

(* No id occurs twice in a queue of entries.                               *)
Once(s) == \A i, j \in DOMAIN s :
               s[i] # Timeout /\ s[j] # Timeout /\ s[i].id = s[j].id => i = j
Lone(S) == \A x, y \in S : x.id = y.id => x = y
Foreign(S, T) == \A x \in S, y \in T : x.id # y.id

LEMMA JoinedIs ==
    ASSUME NEW s \in Seq(UserData), NEW t \in Seq(UserData)
    PROVE  /\ In(s \o t) = In(s) \cup In(t)
           /\ Once(s \o t) <=> Once(s) /\ Once(t) /\ Foreign(In(s), In(t))
<1> DEFINE m == Len(s)
           n == Len(t)
           q == s \o t
<1>1. /\ m \in Nat /\ n \in Nat /\ q \in Seq(UserData) /\ Len(q) = m + n
      /\ \A i \in 1..(m + n) : q[i] = IF i <= m THEN s[i] ELSE t[i - m]
  BY ConcatProperties, LenProperties
<1>2. DOMAIN s = 1..m /\ DOMAIN t = 1..n /\ DOMAIN q = 1..(m + n)
  BY <1>1, LenProperties
<1> HIDE DEF m, n, q
<1>3. \A i \in 1..m : i \in 1..(m + n) /\ q[i] = s[i]
  BY <1>1
<1>4. ASSUME NEW i \in 1..n
      PROVE  m + i \in 1..(m + n) /\ q[m + i] = t[i]
  <2>1. m + i \in 1..(m + n) /\ ~(m + i <= m) /\ (m + i) - m = i
    BY <1>1
  <2>2. QED
    BY <1>1, <2>1
<1>5. \A i \in 1..(m + n) : i \in 1..m \/ \E j \in 1..n : i = m + j
  <2>1. \A i \in 1..(m + n) : i \notin 1..m => i - m \in 1..n /\ i = m + (i - m)
    BY <1>1
  <2>2. QED
    BY <2>1
<1>6. In(q) = In(s) \cup In(t)
  <2>1. In(q) \subseteq In(s) \cup In(t)
    BY <1>2, <1>3, <1>4, <1>5 DEF In
  <2>2. In(s) \cup In(t) \subseteq In(q)
    BY <1>2, <1>3, <1>4 DEF In
  <2>3. QED
    BY <2>1, <2>2
<1>7. ASSUME Once(q)
      PROVE  Once(s) /\ Once(t) /\ Foreign(In(s), In(t))
  <2>1. Once(s)
    BY <1>2, <1>3, <1>7 DEF Once
  <2>2. Once(t)
    <3> SUFFICES ASSUME NEW i \in 1..n, NEW j \in 1..n,
                        t[i] # Timeout, t[j] # Timeout, t[i].id = t[j].id
                 PROVE  i = j
      BY <1>2 DEF Once
    <3>1. m + i = m + j
      BY <1>2, <1>4, <1>7 DEF Once
    <3>2. QED
      BY <1>1, <3>1
  <2>3. Foreign(In(s), In(t))
    <3> SUFFICES ASSUME NEW i \in 1..m, NEW j \in 1..n,
                        s[i] # Timeout, t[j] # Timeout, s[i].id = t[j].id
                 PROVE  FALSE
      BY <1>2 DEF Foreign, In
    <3>1. i = m + j
      BY <1>2, <1>3, <1>4, <1>7 DEF Once
    <3>2. QED
      BY <1>1, <3>1
  <2>4. QED
    BY <2>1, <2>2, <2>3
<1>8. ASSUME Once(s), Once(t), Foreign(In(s), In(t))
      PROVE  Once(q)
  <2> SUFFICES ASSUME NEW i \in 1..(m + n), NEW j \in 1..(m + n),
                      q[i] # Timeout, q[j] # Timeout, q[i].id = q[j].id
               PROVE  i = j
    BY <1>2 DEF Once
  <2>1. ASSUME NEW k \in 1..m, NEW l \in 1..n, q[k] # Timeout, q[m + l] # Timeout
        PROVE  q[k].id # q[m + l].id
    <3>1. s[k] \in In(s) /\ t[l] \in In(t)
      BY <1>2, <1>3, <1>4, <2>1 DEF In
    <3>2. QED
      BY <1>3, <1>4, <1>8, <3>1 DEF Foreign
  <2>2. CASE i \in 1..m /\ j \in 1..m
    BY <1>2, <1>3, <1>8, <2>2 DEF Once
  <2>3. CASE i \in 1..m /\ j \notin 1..m
    BY <1>5, <2>1, <2>3
  <2>4. CASE i \notin 1..m /\ j \in 1..m
    BY <1>5, <2>1, <2>4
  <2>5. CASE i \notin 1..m /\ j \notin 1..m
    <3>1. PICK k \in 1..n, l \in 1..n : i = m + k /\ j = m + l
      BY <1>5, <2>5
    <3>2. k = l
      BY <1>2, <1>4, <1>8, <3>1 DEF Once
    <3>3. QED
      BY <3>1, <3>2
  <2>6. QED
    BY <2>2, <2>3, <2>4, <2>5
<1>9. QED
  BY <1>6, <1>7, <1>8 DEF q

LEMMA OneIs ==
    ASSUME NEW u \in UserData
    PROVE  /\ <<u>> \in Seq(UserData) /\ Once(<<u>>)
           /\ In(<<u>>) = IF u = Timeout THEN {} ELSE {u}
<1>1. <<u>> \in Seq(UserData) /\ DOMAIN <<u>> = {1} /\ <<u>>[1] = u
  OBVIOUS
<1>2. QED
  BY <1>1 DEF Once, In

(* A queue is its first n entries and the others.                          *)
LEMMA SplitIs ==
    ASSUME NEW s \in Seq(UserData), NEW n \in 0..Len(s)
    PROVE  /\ SubSeq(s, 1, n) \in Seq(UserData) /\ SubSeq(s, n + 1, Len(s)) \in Seq(UserData)
           /\ SubSeq(s, 1, n) \o SubSeq(s, n + 1, Len(s)) = s
           /\ Len(SubSeq(s, 1, n)) = n
           /\ \A i \in 1..n : SubSeq(s, 1, n)[i] = s[i]
<1> DEFINE len == Len(s)
           m == n + 1
<1>1. len \in Nat /\ n \in Nat /\ n <= len /\ m \in Int /\ m >= 1
      /\ \A i \in 1..len : s[i] \in UserData
  BY ElementOfSeq, LenProperties
<1> HIDE DEF len
<1>2. /\ SubSeq(s, 1, n) \in Seq(UserData) /\ Len(SubSeq(s, 1, n)) = n
      /\ \A i \in 1..n : SubSeq(s, 1, n)[i] = s[i]
  BY <1>1, SubSeqProperties
<1>3. SubSeq(s, m, len) \in Seq(UserData)
  <2>1. \A i \in m..len : s[i] \in UserData
    BY <1>1
  <2> HIDE DEF m
  <2>2. QED
    BY <1>1, <2>1, SubSeqProperties
<1>4. SubSeq(s, 1, n) \o SubSeq(s, m, len) = SubSeq(s, 1, len)
  <2>1. 1 \in 1..(Len(s) + 1) /\ n \in 0..Len(s) /\ len \in n..Len(s)
    BY <1>1 DEF len
  <2>2. QED
    BY <2>1, ConcatAdjacentSubSeq
<1>5. SubSeq(s, 1, len) = s
  BY SubSeqFull DEF len
<1>6. QED
  BY <1>2, <1>3, <1>4, <1>5 DEF len

-------------------------------------------------------------------------------
(* The loop of harvest_cqes                                                *)

(* What the loop adds to the span for entry u.                             *)
Copied(q, u) == IF u = Timeout THEN q ELSE Append(q, u)

LEMMA ScanDef ==
    ASSUME NEW s \in Seq(UserData)
    PROVE  /\ Scan(s) \in [0..Len(s) -> Seq(Request)]
           /\ Scan(s)[0] = <<>>
           /\ \A k \in 1..Len(s) : Scan(s)[k] = Copied(Scan(s)[k - 1], s[k])
<1> DEFINE n == Len(s)
           D == Seq(Request)
           step == [k \in 1..n |-> [q \in D |-> Copied(q, s[k])]]
           Is(f) == f = [k \in 0..n |-> IF k = 0 THEN <<>>
                                        ELSE IF s[k] = Timeout THEN f[k - 1]
                                             ELSE Append(f[k - 1], s[k])]
<1>1. n \in Nat /\ \A k \in 1..n : s[k] \in UserData
  BY LenProperties, ElementOfSeq
<1>2. step \in Steps(n, D)
  <2>1. \A k \in 1..n : \A q \in D : Copied(q, s[k]) \in D
    BY <1>1, UserDataFacts, AppendProperties DEF Copied
  <2> HIDE DEF D, n
  <2>2. QED
    BY <2>1 DEF Steps
<1>3. <<>> \in D
  BY EmptySeq
<1>4. PICK f : Follows(f, n, D, <<>>, step)
  <2> HIDE DEF step, D, n
  <2>1. QED
    BY <1>1, <1>2, <1>3, Recursion
<1>5. ASSUME NEW k \in 1..n
      PROVE  f[k - 1] \in D /\ f[k] = Copied(f[k - 1], s[k])
  <2>1. f[k - 1] \in D /\ f[k] = step[k][f[k - 1]]
    <3>1. k - 1 \in 0..n
      BY <1>1
    <3> HIDE DEF step, D, n
    <3>2. QED
      BY <1>4, <3>1 DEF Follows
  <2>2. \A q \in D : step[k][q] = Copied(q, s[k])
    <3> HIDE DEF D, n
    <3>1. QED
      OBVIOUS
  <2>3. QED
    BY <2>1, <2>2
<1>6. Is(f)
  <2> HIDE DEF step, D, n
  <2>1. \A k \in 0..n : f[k] = IF k = 0 THEN <<>>
                               ELSE IF s[k] = Timeout THEN f[k - 1] ELSE Append(f[k - 1], s[k])
    <3>1. \A k \in 0..n : k = 0 \/ k \in 1..n
      BY <1>1
    <3>2. f[0] = <<>>
      BY <1>4 DEF Follows
    <3>3. \A k \in 1..n : /\ k # 0
                          /\ f[k] = IF s[k] = Timeout THEN f[k - 1] ELSE Append(f[k - 1], s[k])
      BY <1>5 DEF Copied
    <3>4. QED
      BY <3>1, <3>2, <3>3
  <2>2. f = [k \in 0..n |-> f[k]]
    BY <1>4 DEF Follows
  <2>3. QED
    BY <2>1, <2>2
<1>7. Is(Scan(s))
  <2>1. Scan(s) = CHOOSE g : Is(g)
    BY DEF Scan
  <2> HIDE DEF Is
  <2>2. QED
    BY <1>6, <2>1
<1> DEFINE g == Scan(s)
<1>8. /\ g[0] = <<>> /\ DOMAIN g = 0..n /\ g = [k \in 0..n |-> g[k]]
      /\ \A k \in 1..n : g[k] = Copied(g[k - 1], s[k])
  <2> HIDE DEF g, n
  <2>1. Is(g)
    BY <1>7 DEF g
  <2>2. \A k \in 0..n : g[k] = IF k = 0 THEN <<>>
                               ELSE IF s[k] = Timeout THEN g[k - 1] ELSE Append(g[k - 1], s[k])
    BY <2>1
  <2>3. \A k \in 1..n : k \in 0..n /\ k # 0
    BY <1>1
  <2>4. 0 \in 0..n
    BY <1>1
  <2>5. DOMAIN g = 0..n /\ g = [k \in 0..n |-> g[k]]
    BY <2>1
  <2>6. QED
    BY <2>2, <2>3, <2>4, <2>5 DEF Copied
<1>9. \A k \in 0..n : g[k] \in D
  <2> DEFINE T == {k \in Nat : k <= n => g[k] \in D}
  <2> HIDE DEF g, n, D
  <2>1. 0 \in T
    BY <1>3, <1>8
  <2>2. ASSUME NEW k \in Nat, k \in T
        PROVE  k + 1 \in T
    <3> SUFFICES ASSUME k + 1 <= n
                 PROVE  g[k + 1] \in D
      OBVIOUS
    <3>1. k + 1 \in 1..n /\ (k + 1) - 1 = k /\ g[k] \in D
      BY <1>1, <2>2
    <3>2. g[k + 1] = Copied(g[k], s[k + 1])
      BY <1>8, <3>1
    <3>3. QED
      BY <1>1, <3>1, <3>2, UserDataFacts, AppendProperties DEF Copied, D
  <2> HIDE DEF T
  <2>3. \A k \in Nat : k \in T
    BY <2>1, <2>2, Induction
  <2>4. QED
    BY <1>1, <2>3 DEF T
<1>10. QED
  <2> HIDE DEF g, n, D
  <2>1. g \in [0..n -> D]
    BY <1>8, <1>9
  <2>2. QED
    BY <1>8, <2>1 DEF g, n, D

(* After k entries the span holds their requests, at most k.               *)
LEMMA ScanIs ==
    ASSUME NEW s \in Seq(UserData), NEW n \in 0..Len(s)
    PROVE  /\ Scan(s)[n] \in Seq(Request)
           /\ In(Scan(s)[n]) = In(SubSeq(s, 1, n))
<1> DEFINE g == Scan(s)
           len == Len(s)
           Seen(k) == {r \in UserData : r # Timeout /\ \E i \in 1..k : r = s[i]}
           T == {k \in Nat : k <= len => In(g[k]) = Seen(k)}
<1>1. /\ len \in Nat /\ n \in 0..len
      /\ \A k \in 1..len : s[k] \in UserData
  BY ElementOfSeq, LenProperties
<1>2. /\ g \in [0..len -> Seq(Request)] /\ g[0] = <<>>
      /\ \A k \in 1..len : g[k] = Copied(g[k - 1], s[k])
  BY ScanDef
<1> HIDE DEF g, len
<1>3. 0 \in T
  <2>1. In(<<>>) = {} /\ Seen(0) = {}
    BY DEF In
  <2>2. QED
    BY <1>2, <2>1
<1>4. ASSUME NEW k \in Nat, k \in T
      PROVE  k + 1 \in T
  <2> SUFFICES ASSUME k + 1 <= len
               PROVE  In(g[k + 1]) = Seen(k + 1)
    OBVIOUS
  <2> DEFINE u == s[k + 1]
  <2>1. k + 1 \in 1..len /\ (k + 1) - 1 = k /\ k \in 0..len /\ In(g[k]) = Seen(k)
    BY <1>1, <1>4
  <2>2. u \in UserData /\ g[k + 1] = Copied(g[k], u) /\ g[k] \in Seq(Request)
    <3>1. g[k + 1] = Copied(g[(k + 1) - 1], s[k + 1])
      BY <1>2, <2>1
    <3>2. QED
      BY <1>1, <1>2, <2>1, <3>1
  <2>3. Seen(k + 1) = Seen(k) \cup (IF u = Timeout THEN {} ELSE {u})
    <3>1. \A i : i \in 1..(k + 1) <=> i \in 1..k \/ i = k + 1
      OBVIOUS
    <3>2. QED
      BY <2>2, <3>1
  <2>4. CASE u = Timeout
    BY <2>1, <2>2, <2>3, <2>4 DEF Copied
  <2>5. CASE u # Timeout
    <3>1. g[k] \in Seq(UserData)
      BY <2>2, UserDataFacts, SeqMonotonic
    <3>2. g[k + 1] = g[k] \o <<u>>
      BY <2>2, <2>5, <3>1, AppendIsConcat DEF Copied
    <3>3. In(g[k + 1]) = In(g[k]) \cup In(<<u>>) /\ In(<<u>>) = {u}
      BY <2>2, <2>5, <3>1, <3>2, OneIs, JoinedIs
    <3> HIDE DEF Seen
    <3>4. QED
      BY <2>1, <2>3, <2>5, <3>3
  <2>6. QED
    BY <2>4, <2>5
<1>5. In(g[n]) = Seen(n)
  <2> HIDE DEF T, Seen
  <2>1. \A k \in Nat : k \in T
    BY <1>3, <1>4, Induction
  <2>2. n \in T /\ n \in Nat /\ n <= len
    BY <1>1, <2>1
  <2>3. QED
    BY <2>2 DEF T
<1>6. In(SubSeq(s, 1, n)) = Seen(n)
  <2> DEFINE t == SubSeq(s, 1, n)
  <2>1. t \in Seq(UserData) /\ Len(t) = n /\ \A i \in 1..n : t[i] = s[i]
    BY SplitIs
  <2> HIDE DEF t
  <2>2. \A r : r \in In(t) <=> r # Timeout /\ \E i \in 1..n : r = t[i]
    BY <2>1, InFacts
  <2>3. \A i \in 1..n : t[i] \in UserData
    BY <1>1, <2>1
  <2>4. In(t) = Seen(n)
    BY <2>1, <2>2, <2>3
  <2>5. QED
    BY <2>4 DEF t
<1>7. QED
  <2> HIDE DEF Seen, T
  <2>1. g[n] \in Seq(Request) /\ In(g[n]) = In(SubSeq(s, 1, n))
    BY <1>1, <1>2, <1>5, <1>6
  <2>2. QED
    BY <2>1 DEF g

(* The loop stops with the entries or with the span full.                  *)
LEMMA ScannedIs ==
    ASSUME NEW s \in Seq(UserData)
    PROVE  Scanned(s) \in 0..Len(s) /\ Len(Scan(s)[Scanned(s)]) <= Room
<1> DEFINE g == Scan(s)
           len == Len(s)
           Stops(k) == k = len \/ Len(g[k]) = Room
           Ends(n) == Stops(n) /\ \A k \in 0..(n - 1) : Len(g[k]) < Room
           T == {n \in Nat : n <= len => \/ \E m \in 0..n : Ends(m)
                                         \/ \A k \in 0..n : Len(g[k]) < Room}
<1>1. len \in Nat /\ Room \in Nat \ {0}
  BY LenProperties, RoomIsPositive
<1>2. /\ g \in [0..len -> Seq(Request)] /\ g[0] = <<>>
      /\ \A k \in 1..len : g[k] = Copied(g[k - 1], s[k])
  BY ScanDef
<1>3. \A k \in 0..len : Len(g[k]) \in Nat
  BY <1>2, LenProperties
<1>4. Scanned(s) = CHOOSE n \in 0..len : Ends(n)
  BY DEF Scanned
<1> HIDE DEF g, len
<1>5. Len(g[0]) = 0
  BY <1>2, EmptySeq
<1>6. ASSUME NEW k \in 1..len
      PROVE  Len(g[k]) <= Len(g[k - 1]) + 1
  <2>1. k - 1 \in 0..len /\ g[k] = Copied(g[k - 1], s[k])
    BY <1>1, <1>2
  <2>2. g[k - 1] \in Seq(Request) /\ s[k] \in UserData /\ Len(g[k - 1]) \in Nat
    BY <1>2, <1>3, <2>1, ElementOfSeq DEF len
  <2>3. CASE s[k] = Timeout
    BY <2>1, <2>2, <2>3 DEF Copied
  <2>4. CASE s[k] # Timeout
    BY <2>1, <2>2, <2>4, UserDataFacts, AppendProperties DEF Copied
  <2>5. QED
    BY <2>3, <2>4
<1>7. 0 \in T
  BY <1>1, <1>5
<1>8. ASSUME NEW n \in Nat, n \in T
      PROVE  n + 1 \in T
  <2> SUFFICES ASSUME n + 1 <= len, ~\E m \in 0..(n + 1) : Ends(m)
               PROVE  \A k \in 0..(n + 1) : Len(g[k]) < Room
    OBVIOUS
  <2> HIDE DEF Ends
  <2>1. 0..n \subseteq 0..(n + 1) /\ n <= len
    BY <1>1
  <2>2. \A k \in 0..n : Len(g[k]) < Room
    BY <1>8, <2>1
  <2>3. n \in 0..n /\ n \in 0..len /\ n + 1 \in 1..len /\ n + 1 \in 0..len /\ (n + 1) - 1 = n
    BY <1>1
  <2>4. Len(g[n + 1]) <= Len(g[n]) + 1 /\ Len(g[n]) < Room
    BY <1>6, <2>2, <2>3
  <2>5. Len(g[n + 1]) # Room
    <3>1. Len(g[n + 1]) = Room => Ends(n + 1)
      BY <2>2, <2>3 DEF Ends
    <3>2. n + 1 \in 0..(n + 1)
      BY <2>3
    <3>3. QED
      BY <3>1, <3>2
  <2>6. Len(g[n + 1]) < Room
    BY <1>1, <1>3, <2>3, <2>4, <2>5
  <2>7. \A k \in 0..(n + 1) : k \in 0..n \/ k = n + 1
    OBVIOUS
  <2>8. QED
    BY <2>2, <2>6, <2>7
<1>9. \E n \in 0..len : Ends(n)
  <2> HIDE DEF T
  <2>1. \A n \in Nat : n \in T
    BY <1>7, <1>8, Induction
  <2>2. len \in T
    BY <1>1, <2>1
  <2>3. CASE \A k \in 0..len : Len(g[k]) < Room
    <3>1. \A k \in 0..(len - 1) : k \in 0..len
      BY <1>1
    <3>2. Ends(len) /\ len \in 0..len
      BY <1>1, <2>3, <3>1
    <3>3. QED
      BY <3>2
  <2>4. QED
    BY <2>2, <2>3 DEF T
<1>10. Scanned(s) \in 0..len /\ Ends(Scanned(s))
  <2> HIDE DEF Ends
  <2>1. QED
    BY <1>4, <1>9
<1>11. Len(g[Scanned(s)]) <= Room
  <2> DEFINE n == Scanned(s)
  <2>1. n \in 0..len /\ Ends(n)
    BY <1>10
  <2> HIDE DEF n
  <2>2. n = 0 => Len(g[n]) <= Room
    BY <1>1, <1>5
  <2>3. ASSUME n # 0
        PROVE  Len(g[n]) <= Room
    <3>1. n \in 1..len /\ n - 1 \in 0..(n - 1) /\ n - 1 \in 0..len
      BY <1>1, <2>1, <2>3
    <3>2. Len(g[n - 1]) < Room /\ Len(g[n]) <= Len(g[n - 1]) + 1
      BY <1>6, <2>1, <3>1
    <3>3. QED
      BY <1>1, <1>3, <2>1, <3>1, <3>2
  <2>4. Len(g[n]) <= Room
    BY <2>2, <2>3
  <2>5. QED
    BY <2>4 DEF n
<1>12. QED
  BY <1>10, <1>11 DEF g, len
LEMMA SqKept ==
    ASSUME RingOK(sq, SqSize), UNCHANGED sq
    PROVE  RingOK(sq, SqSize)' /\ InSq' = InSq
BY DEF RingOK, Used, InSq, Entries

LEMMA CqKept ==
    ASSUME RingOK(cq, CqSize), backlog \in Seq(UserData), UNCHANGED <<cq, backlog>>
    PROVE  RingOK(cq, CqSize)' /\ backlog' \in Seq(UserData) /\ Comps' = Comps
BY DEF RingOK, Used, Comps, InCq, Entries

LEMMA TypeFacts ==
    ASSUME TypeOK
    PROVE  /\ RingOK(sq, SqSize) /\ RingOK(cq, CqSize)
           /\ InSq \in Seq(UserData) /\ Comps \in Seq(UserData) /\ backlog \in Seq(UserData)
           /\ flight \subseteq Request /\ out \in Seq(Request) /\ out \in Seq(UserData)
           /\ Completed = In(Comps) /\ Pending = In(InSq) \cup flight \cup In(Comps)
           /\ Pending \subseteq Request
<1>1. /\ RingOK(sq, SqSize) /\ RingOK(cq, CqSize) /\ backlog \in Seq(UserData)
      /\ flight \subseteq Request /\ out \in Seq(Request)
  BY DEF TypeOK
<1>2. InSq \in Seq(UserData) /\ InCq \in Seq(UserData) /\ Comps \in Seq(UserData)
  BY <1>1, QueueFacts
<1>3. out \in Seq(UserData)
  BY <1>1, UserDataFacts, SeqMonotonic
<1>4. In(Comps) = In(InCq) \cup In(backlog)
  BY <1>1, <1>2, JoinedIs DEF Comps
<1>5. In(InSq) \subseteq Request /\ In(Comps) \subseteq Request
  BY <1>2, InFacts
<1>6. QED
  BY <1>1, <1>2, <1>3, <1>4, <1>5 DEF Completed, Pending, InKernel

LEMMA PutSq ==
    ASSUME RingOK(sq, SqSize), SqFree, NEW u \in UserData, sq' = Put(sq, SqSize, u)
    PROVE  RingOK(sq, SqSize)' /\ InSq' = InSq \o <<u>>
<1>1. SqSize \in Sizes /\ SqSize \in Nat \ {0} /\ Used(sq) < SqSize
  BY SizeFacts DEF Sizes, SqFree
<1>2. /\ RingOK(Put(sq, SqSize, u), SqSize)
      /\ Contents(Put(sq, SqSize, u), SqSize) = Contents(sq, SqSize) \o <<u>>
  BY <1>1, PutIs
<1>3. InSq = Contents(sq, SqSize) /\ InSq' = Contents(sq', SqSize)
  BY DEF InSq, Contents, Used, Entries
<1>4. RingOK(sq', SqSize) => RingOK(sq, SqSize)'
  BY DEF RingOK, Used
<1>5. QED
  BY <1>2, <1>3, <1>4

LEMMA TimerPut ==
    ASSUME RingOK(sq, SqSize), sq' = WithTimer \/ sq' = sq
    PROVE  /\ RingOK(sq, SqSize)' /\ InSq' \in Seq(UserData)
           /\ In(InSq') = In(InSq)
           /\ Once(InSq) => Once(InSq')
<1>1. InSq \in Seq(UserData) /\ Timeout \in UserData
  <2>1. SqSize \in Sizes
    BY DEF Sizes
  <2>2. InSq = Contents(sq, SqSize)
    BY DEF InSq, Contents
  <2>3. QED
    BY <2>1, <2>2, ContentsFacts, UserDataFacts
<1>2. CASE sq' = sq
  BY <1>1, <1>2, SqKept
<1>3. CASE SqFree /\ sq' = Put(sq, SqSize, Timeout)
  <2>1. RingOK(sq, SqSize)' /\ InSq' = InSq \o <<Timeout>>
    BY <1>1, <1>3, PutSq
  <2>2. <<Timeout>> \in Seq(UserData) /\ Once(<<Timeout>>) /\ In(<<Timeout>>) = {}
    BY <1>1, OneIs
  <2>3. /\ In(InSq \o <<Timeout>>) = In(InSq)
        /\ Once(InSq) => Once(InSq \o <<Timeout>>)
    <3>1. Foreign(In(InSq), In(<<Timeout>>))
      BY <2>2 DEF Foreign
    <3> DEFINE t == <<Timeout>>
    <3>2. t \in Seq(UserData) /\ Once(t) /\ In(t) = {} /\ Foreign(In(InSq), In(t))
      BY <2>2, <3>1
    <3> HIDE DEF t
    <3>3. In(InSq \o t) = In(InSq) \cup In(t) /\ (Once(InSq) => Once(InSq \o t))
      BY <1>1, <3>2, JoinedIs
    <3>4. QED
      BY <3>2, <3>3 DEF t
  <2>4. InSq \o <<Timeout>> \in Seq(UserData)
    BY <1>1, <2>2, ConcatProperties
  <2>5. QED
    BY <2>1, <2>3, <2>4
<1>4. QED
  BY <1>2, <1>3 DEF WithTimer

LEMMA SubmitIs ==
    ASSUME TypeOK, NEW r \in Wanted, Submit(r)
    PROVE  TypeOK' /\ InSq' = InSq \o <<r>> /\ Comps' = Comps
<1>1. r \in Request /\ r \in UserData /\ r.id \in Id
  BY WantedAreRequests, UserDataFacts DEF Request
<1>2. RingOK(sq, SqSize)' /\ InSq' = InSq \o <<r>>
  BY <1>1, TypeFacts, PutSq DEF Submit
<1>3. RingOK(cq, CqSize)' /\ backlog' \in Seq(UserData) /\ Comps' = Comps
  BY TypeFacts, CqKept DEF Submit, kernel
<1>4. iov' \subseteq Id
  BY <1>1 DEF Submit, TypeOK
<1>5. TypeOK'
  BY <1>2, <1>3, <1>4 DEF Submit, TypeOK, call, kernel
<1>6. QED
  BY <1>2, <1>3, <1>5

LEMMA StopIs ==
    ASSUME TypeOK, Stop
    PROVE  TypeOK' /\ InSq' = <<>> /\ Comps' = <<>>
<1>1. SqSize \in Sizes /\ CqSize \in Sizes
  BY DEF Sizes
<1>2. /\ RingOK(sq', SqSize) /\ Contents(sq', SqSize) = <<>>
      /\ RingOK(cq', CqSize) /\ Contents(cq', CqSize) = <<>>
  BY <1>1, EmptyIs DEF Stop
<1>3. /\ RingOK(sq', SqSize) => RingOK(sq, SqSize)'
      /\ RingOK(cq', CqSize) => RingOK(cq, CqSize)'
  BY DEF RingOK, Used
<1>4. InSq' = Contents(sq', SqSize) /\ InCq' = Contents(cq', CqSize)
  BY DEF InSq, InCq, Contents, Used, Entries
<1>5. backlog' = <<>> /\ backlog' \in Seq(UserData)
  BY EmptySeq DEF Stop
<1>6. Comps' = <<>>
  <2>1. Comps' = InCq' \o backlog'
    BY DEF Comps
  <2>2. QED
    BY <1>2, <1>4, <1>5, <2>1, EmptySeq, ConcatEmptySeq
<1>7. TypeOK'
  BY <1>2, <1>3, <1>5 DEF Stop, TypeOK, call
<1>8. QED
  BY <1>2, <1>4, <1>6, <1>7

LEMMA CallIs ==
    ASSUME TypeOK, Calls
    PROVE  /\ TypeOK' /\ Comps' = Comps /\ In(InSq') = In(InSq)
           /\ Once(InSq) => Once(InSq')
<1>1. PICK m \in {"none", "timed", "forever"} : Call(m)
  BY DEF Calls
<1>2. /\ RingOK(sq, SqSize)' /\ In(InSq') = In(InSq)
      /\ Once(InSq) => Once(InSq')
  BY <1>1, TypeFacts, TimerPut DEF Call
<1>3. RingOK(cq, CqSize)' /\ backlog' \in Seq(UserData) /\ Comps' = Comps
  BY <1>1, TypeFacts, CqKept DEF Call, kernel
<1>4. out' = <<>> /\ out' \in Seq(Request) /\ Len(out') <= Room
  BY <1>1, EmptySeq, RoomIsPositive DEF Call
<1>5. TypeOK'
  BY <1>1, <1>2, <1>3, <1>4 DEF Call, TypeOK, kernel
<1>6. QED
  BY <1>2, <1>3, <1>5

LEMMA ProbeIs ==
    ASSUME TypeOK, Probe
    PROVE  /\ TypeOK' /\ Comps' = Comps /\ In(InSq') = In(InSq)
           /\ Once(InSq) => Once(InSq')
<1>1. /\ RingOK(sq, SqSize)' /\ In(InSq') = In(InSq)
      /\ Once(InSq) => Once(InSq')
  BY TypeFacts, TimerPut DEF Probe
<1>2. RingOK(cq, CqSize)' /\ backlog' \in Seq(UserData) /\ Comps' = Comps
  BY TypeFacts, CqKept DEF Probe, kernel
<1>3. TypeOK'
  BY <1>1, <1>2 DEF Probe, TypeOK, kernel, call
<1>4. QED
  BY <1>1, <1>2, <1>3

(* Of n entries at most n are requests.                                    *)
LEMMA TimeoutsAre ==
    ASSUME NEW s \in Seq(UserData)
    PROVE  Timeouts(s) \in Nat
<1> DEFINE g == Scan(s)
           len == Len(s)
           T == {k \in Nat : k <= len => Len(g[k]) <= k}
<1>1. len \in Nat /\ \A k \in 1..len : s[k] \in UserData
  BY ElementOfSeq, LenProperties
<1>2. /\ g \in [0..len -> Seq(Request)] /\ g[0] = <<>>
      /\ \A k \in 1..len : g[k] = Copied(g[k - 1], s[k])
  BY ScanDef
<1> HIDE DEF g, len
<1>3. 0 \in T
  BY <1>2, EmptySeq
<1>4. ASSUME NEW k \in Nat, k \in T
      PROVE  k + 1 \in T
  <2> SUFFICES ASSUME k + 1 <= len
               PROVE  Len(g[k + 1]) <= k + 1
    OBVIOUS
  <2>1. k + 1 \in 1..len /\ (k + 1) - 1 = k /\ k \in 0..len /\ Len(g[k]) <= k
    BY <1>1, <1>4
  <2>2. g[k + 1] = Copied(g[(k + 1) - 1], s[k + 1])
    BY <1>2, <2>1
  <2>3. g[k + 1] = Copied(g[k], s[k + 1]) /\ g[k] \in Seq(Request) /\ s[k + 1] \in UserData
    BY <1>1, <1>2, <2>1, <2>2
  <2>4. Len(g[k]) \in Nat
    BY <2>3, LenProperties
  <2>5. Len(g[k + 1]) = Len(g[k]) \/ Len(g[k + 1]) = Len(g[k]) + 1
    BY <2>3, UserDataFacts, AppendProperties DEF Copied
  <2>6. QED
    BY <2>1, <2>4, <2>5
<1>5. Len(g[len]) <= len
  <2> HIDE DEF T
  <2>1. len \in T
    BY <1>1, <1>3, <1>4, Induction
  <2>2. QED
    BY <1>1, <2>1 DEF T
<1>6. Len(g[len]) \in Nat
  BY <1>1, <1>2, LenProperties
<1>7. len - Len(g[len]) \in Nat
  BY <1>1, <1>5, <1>6
<1>8. QED
  BY <1>7 DEF Timeouts, Requests, g, len

LEMMA EnterIs ==
    ASSUME TypeOK, Enter
    PROVE  /\ TypeOK' /\ Comps' = Comps
           /\ \E a \in Seq(UserData) : InSq = a \o InSq' /\ flight' = flight \cup In(a)
<1>1. PICK n \in 0..Used(sq) :
          /\ phase' \in {"harvest"} \cup IF n = Used(sq) THEN {"blocked"} ELSE {}
          /\ sq' = Taken(sq, SqSize, n)
          /\ flight' = flight \cup In(Entries(sq, SqSize, n))
          /\ timers' = timers + Timeouts(Entries(sq, SqSize, n))
  BY DEF Enter
<1> DEFINE q == Contents(sq, SqSize)
           a == SubSeq(q, 1, n)
<1>2. SqSize \in Sizes /\ RingOK(sq, SqSize)
  BY TypeFacts DEF Sizes
<1>3. q \in Seq(UserData) /\ Len(q) = Used(sq) /\ InSq = q /\ InSq' = Contents(sq', SqSize)
  BY <1>2, ContentsFacts DEF InSq, Contents, Used, Entries
<1>4. /\ RingOK(sq', SqSize)
      /\ Contents(sq', SqSize) = SubSeq(q, n + 1, Used(sq))
  BY <1>1, <1>2, TakenIs
<1>5. Entries(sq, SqSize, n) = a
  BY <1>1, <1>2, PrefixIs
<1> HIDE DEF q
<1>6. a \in Seq(UserData) /\ a \o SubSeq(q, n + 1, Len(q)) = q
  BY <1>1, <1>3, SplitIs
<1> HIDE DEF a
<1>7. InSq = a \o InSq' /\ flight' = flight \cup In(a)
  BY <1>1, <1>3, <1>4, <1>5, <1>6
<1>8. flight' \subseteq Request
  BY <1>1, <1>5, <1>6, InFacts DEF TypeOK
<1>9. timers' \in Nat
  <2>1. Timeouts(a) \in Nat /\ timers \in Nat /\ timers' = timers + Timeouts(a)
    BY <1>1, <1>5, <1>6, TimeoutsAre DEF TypeOK
  <2>2. QED
    BY <2>1
<1>10. RingOK(cq, CqSize)' /\ backlog' \in Seq(UserData) /\ Comps' = Comps
  BY TypeFacts, CqKept DEF Enter
<1>11. RingOK(sq, SqSize)'
  BY <1>4 DEF RingOK, Used
<1>12. TypeOK'
  <2>1. phase' \in {"harvest", "blocked"}
    BY <1>1
  <2>2. QED
    BY <1>8, <1>9, <1>10, <1>11, <2>1 DEF TypeOK, Enter
<1>13. QED
  BY <1>6, <1>7, <1>10, <1>12
LEMMA UnblockIs ==
    ASSUME TypeOK, Unblock
    PROVE  /\ TypeOK' /\ InSq' = InSq /\ Comps' = Comps
           /\ phase' = "harvest" /\ UNCHANGED <<valid, iov, out, flight>>
<1>1. RingOK(sq, SqSize)' /\ InSq' = InSq
  BY TypeFacts, SqKept DEF Unblock
<1>2. RingOK(cq, CqSize)' /\ backlog' \in Seq(UserData) /\ Comps' = Comps
  <2>1. CASE mode = "none"
    <3>1. UNCHANGED <<cq, backlog>>
      BY <2>1 DEF Unblock
    <3>2. QED
      BY <3>1, TypeFacts, CqKept
  <2>2. CASE mode # "none"
    <3>1. FlushBacklog
      BY <2>2 DEF Unblock
    <3>2. QED
      BY <3>1, TypeFacts, FlushIs
  <2>3. QED
    BY <2>1, <2>2
<1>3. phase' = "harvest" /\ UNCHANGED <<valid, ext, extArg, iov, mode, seen, out, flight, timers>>
  BY DEF Unblock
<1>4. TypeOK'
  BY <1>1, <1>2, <1>3 DEF TypeOK
<1>5. QED
  BY <1>1, <1>2, <1>3, <1>4

LEMMA LoadIs ==
    ASSUME TypeOK, Load
    PROVE  /\ TypeOK' /\ InSq' = InSq /\ Comps' = Comps
           /\ seen' = cq.tail /\ cq' = cq
<1>1. RingOK(sq, SqSize)' /\ InSq' = InSq
  BY TypeFacts, SqKept DEF Load
<1>2. RingOK(cq, CqSize)' /\ backlog' \in Seq(UserData) /\ Comps' = Comps
  BY TypeFacts, CqKept DEF Load, kernel
<1>3. seen' \in 0..(Wrap - 1)
  BY DEF Load, TypeOK, RingOK
<1>4. TypeOK'
  BY <1>1, <1>2, <1>3 DEF Load, TypeOK, kernel
<1>5. QED
  BY <1>1, <1>2, <1>4 DEF Load

LEMMA FlushEnds ==
    ASSUME TypeOK, Flush
    PROVE  TypeOK' /\ InSq' = InSq /\ Comps' = Comps
<1>1. RingOK(sq, SqSize)' /\ InSq' = InSq
  BY TypeFacts, SqKept DEF Flush
<1>2. RingOK(cq, CqSize)' /\ backlog' \in Seq(UserData) /\ Comps' = Comps
  BY TypeFacts, FlushIs DEF Flush
<1>3. seen' \in 0..(Wrap - 1)
  BY RingsDivideWrap DEF Flush, Return
<1>4. TypeOK'
  BY <1>1, <1>2, <1>3 DEF Flush, Return, TypeOK
<1>5. QED
  BY <1>1, <1>2, <1>4

LEMMA CompleteIs ==
    ASSUME TypeOK, NEW r, Complete(r)
    PROVE  /\ TypeOK' /\ InSq' = InSq /\ Comps' = Comps \o <<r>>
           /\ r \in Request /\ r \in UserData
           /\ cq'.head = cq.head /\ Used(cq) <= Used(cq)'
<1>1. r \in Request /\ r \in UserData /\ flight' \subseteq Request
  BY UserDataFacts DEF Complete, TypeOK
<1>2. RingOK(sq, SqSize)' /\ InSq' = InSq
  BY TypeFacts, SqKept DEF Complete
<1>3. /\ RingOK(cq, CqSize)' /\ backlog' \in Seq(UserData) /\ Comps' = Comps \o <<r>>
      /\ cq'.head = cq.head /\ Used(cq) <= Used(cq)'
  BY <1>1, TypeFacts, PostIs DEF Complete
<1>4. TypeOK'
  BY <1>1, <1>2, <1>3 DEF Complete, TypeOK, call
<1>5. QED
  BY <1>1, <1>2, <1>3, <1>4

LEMMA ExpireIs ==
    ASSUME TypeOK, Expire
    PROVE  /\ TypeOK' /\ InSq' = InSq /\ Comps' = Comps \o <<Timeout>>
           /\ cq'.head = cq.head /\ Used(cq) <= Used(cq)'
<1>1. Timeout \in UserData /\ timers' \in Nat
  BY UserDataFacts DEF Expire, TypeOK
<1>2. RingOK(sq, SqSize)' /\ InSq' = InSq
  BY TypeFacts, SqKept DEF Expire
<1>3. /\ RingOK(cq, CqSize)' /\ backlog' \in Seq(UserData) /\ Comps' = Comps \o <<Timeout>>
      /\ cq'.head = cq.head /\ Used(cq) <= Used(cq)'
  BY <1>1, TypeFacts, PostIs DEF Expire
<1>4. TypeOK'
  BY <1>1, <1>2, <1>3 DEF Expire, TypeOK, call
<1>5. QED
  BY <1>2, <1>3, <1>4

(* The tail that harvest_cqes loaded is not ahead of the ring's.           *)
Snapshot == phase = "copy" => (seen - cq.head) % Wrap <= Used(cq)

LEMMA CopyIs ==
    ASSUME TypeOK, Snapshot, Copy
    PROVE  /\ TypeOK' /\ InSq' = InSq
           /\ \E a \in Seq(UserData) : Comps = a \o Comps' /\ In(out') = In(a)
<1> DEFINE m == (seen - cq.head) % Wrap
           all == Entries(cq, CqSize, m)
           n == Scanned(all)
           q == Contents(cq, CqSize)
           a == SubSeq(q, 1, n)
<1>1. /\ CqSize \in Sizes /\ RingOK(cq, CqSize) /\ backlog \in Seq(UserData)
      /\ Used(cq) \in Nat
  <2>1. CqSize \in Sizes /\ RingOK(cq, CqSize) /\ backlog \in Seq(UserData)
    BY TypeFacts DEF Sizes
  <2>2. Used(cq) \in 0..CqSize /\ CqSize \in Nat
    BY <2>1, RingFacts, SizeFacts
  <2>3. QED
    BY <2>1, <2>2
<1>2. /\ out' = Scan(all)[n]
      /\ cq' = IF out' # <<>> THEN Taken(cq, CqSize, n) ELSE cq
      /\ iov' = iov \ IovOf(out')
  BY DEF Copy
<1>3. m \in 0..Used(cq)
  <2>1. seen \in Int /\ cq.head \in Int /\ Wrap \in Nat \ {0}
    BY <1>1, RingFacts, SizeFacts DEF TypeOK
  <2>2. m \in Nat
    <3> DEFINE d == seen - cq.head
    <3>1. d \in Int
      BY <2>1
    <3> HIDE DEF d
    <3>2. d % Wrap \in 0..(Wrap - 1)
      BY <2>1, <3>1, ModRange
    <3>3. QED
      BY <2>1, <3>2 DEF d
  <2>3. m <= Used(cq)
    BY DEF Snapshot, Copy
  <2> HIDE DEF m
  <2>4. QED
    BY <1>1, <2>2, <2>3
<1> HIDE DEF m
<1>4. q \in Seq(UserData) /\ Len(q) = Used(cq) /\ InCq = q /\ InCq' = Contents(cq', CqSize)
  BY <1>1, ContentsFacts DEF InCq, Contents, Used, Entries
<1>5. all \in Seq(UserData) /\ Len(all) = m /\ all = SubSeq(q, 1, m)
  <2>1. m \in Nat
    BY <1>3
  <2>2. QED
    BY <1>1, <1>3, <2>1, EntriesFacts, PrefixIs
<1> HIDE DEF all, q
<1>6. n \in 0..m /\ Len(Scan(all)[n]) <= Room
  BY <1>5, ScannedIs
<1> HIDE DEF n
<1>7. n \in 0..Used(cq) /\ n \in 0..Len(all) /\ n \in 0..Len(q)
  BY <1>1, <1>3, <1>4, <1>5, <1>6
<1>8. out' \in Seq(Request) /\ Len(out') <= Room /\ In(out') = In(SubSeq(all, 1, n))
  BY <1>2, <1>5, <1>6, <1>7, ScanIs
<1>9. SubSeq(all, 1, n) = a
  <2>1. /\ SubSeq(all, 1, n) \in Seq(UserData) /\ Len(SubSeq(all, 1, n)) = n
        /\ \A i \in 1..n : SubSeq(all, 1, n)[i] = all[i]
    BY <1>5, <1>7, SplitIs
  <2>2. \A i \in 1..n : all[i] = q[i]
    <3>1. m \in 0..Len(q)
      BY <1>3, <1>4
    <3>2. \A i \in 1..m : all[i] = q[i]
      BY <1>4, <1>5, <3>1, SplitIs
    <3>3. QED
      BY <1>3, <1>6, <3>2
  <2>3. a \in Seq(UserData) /\ Len(a) = n /\ \A i \in 1..n : a[i] = q[i]
    BY <1>4, <1>7, SplitIs
  <2> HIDE DEF a
  <2>4. QED
    BY <2>1, <2>2, <2>3, SeqEqual
<1>10. a \in Seq(UserData) /\ a \o SubSeq(q, n + 1, Len(q)) = q
  BY <1>4, <1>7, SplitIs
<1> HIDE DEF a
<1>11. In(out') = In(a)
  BY <1>8, <1>9
<1>12. ASSUME out' # <<>>
       PROVE  RingOK(cq', CqSize) /\ q = a \o InCq'
  <2>1. cq' = Taken(cq, CqSize, n)
    BY <1>2, <1>12
  <2>2. /\ RingOK(cq', CqSize)
        /\ Contents(cq', CqSize) = SubSeq(q, n + 1, Used(cq))
    BY <1>1, <1>7, <2>1, TakenIs DEF q
  <2>3. QED
    BY <1>4, <1>10, <2>2
<1>13. UNCHANGED <<sq, backlog, flight, timers, extArg, valid, ext, mode, seen>> /\ phase' = "flush"
  BY DEF Copy, kernel
<1>14. RingOK(sq, SqSize)' /\ InSq' = InSq
  BY <1>13, TypeFacts, SqKept
<1>15. RingOK(cq, CqSize)'
  <2>1. RingOK(cq', CqSize)
    BY <1>1, <1>2, <1>12
  <2>2. QED
    BY <2>1 DEF RingOK, Used
<1>16. InCq' \in Seq(UserData)
  BY <1>1, <1>4, <1>15, ContentsFacts DEF RingOK, Used
<1>17. \E b \in Seq(UserData) : Comps = b \o Comps' /\ In(out') = In(b)
  <2>1. CASE out' # <<>>
    <3>1. Comps = (a \o InCq') \o backlog
      BY <1>4, <1>12, <2>1 DEF Comps
    <3>2. (a \o InCq') \o backlog = a \o (InCq' \o backlog)
      BY <1>1, <1>10, <1>16, ConcatAssociative
    <3>3. Comps' = InCq' \o backlog
      BY <1>13 DEF Comps
    <3>4. Comps = a \o Comps'
      BY <3>1, <3>2, <3>3
    <3>5. QED
      BY <1>10, <1>11, <3>4
  <2>2. CASE out' = <<>>
    <3>1. Comps' = Comps
      BY <1>1, <1>2, <1>13, <2>2, CqKept
    <3>2. <<>> \in Seq(UserData) /\ Comps = <<>> \o Comps
      BY TypeFacts, EmptySeq, ConcatEmptySeq
    <3>3. QED
      BY <2>2, <3>1, <3>2
  <2>3. QED
    BY <2>1, <2>2
<1>18. TypeOK'
  BY <1>2, <1>8, <1>13, <1>14, <1>15 DEF TypeOK
<1>19. QED
  BY <1>14, <1>17, <1>18
-------------------------------------------------------------------------------
(* The inductive invariant: an id is in one place.                         *)

Apart ==
    /\ Once(InSq) /\ Once(Comps) /\ Lone(flight)
    /\ Foreign(In(InSq), flight) /\ Foreign(In(InSq), In(Comps)) /\ Foreign(flight, In(Comps))

(* Until it is copied to, the span is empty.                               *)
SpanEmpty == phase \in {"enter", "blocked", "harvest", "copy"} => out = <<>>

IInv == TypeOK /\ Apart /\ Snapshot /\ SpanEmpty /\ IovHeld

(* Requests of a queue that have the same id are the same.                 *)
LEMMA OnceIsLone ==
    ASSUME NEW s \in Seq(UserData), Once(s)
    PROVE  Lone(In(s))
<1>1. \A r : r \in In(s) <=> r # Timeout /\ \E i \in 1..Len(s) : r = s[i]
  BY InFacts
<1>2. DOMAIN s = 1..Len(s)
  BY LenProperties
<1>3. QED
  BY <1>1, <1>2 DEF Once, Lone

LEMMA PendingIsLone ==
    ASSUME TypeOK, Apart
    PROVE  Lone(Pending)
<1>1. Lone(In(InSq)) /\ Lone(In(Comps)) /\ Pending = In(InSq) \cup flight \cup In(Comps)
  BY TypeFacts, OnceIsLone DEF Apart
<1>2. QED
  BY <1>1 DEF Apart, Lone, Foreign

(* Where the requests are after a step.                                    *)
LEMMA PendingNext ==
    ASSUME TypeOK'
    PROVE  /\ Pending' = In(InSq') \cup flight' \cup In(Comps')
           /\ InSq' \in Seq(UserData) /\ Comps' \in Seq(UserData)
<1>1. /\ RingOK(sq, SqSize)' /\ RingOK(cq, CqSize)' /\ backlog' \in Seq(UserData)
  BY DEF TypeOK
<1>2. RingOK(sq', SqSize) /\ RingOK(cq', CqSize) /\ SqSize \in Sizes /\ CqSize \in Sizes
  BY <1>1 DEF RingOK, Used, Sizes
<1>3. /\ InSq' = Contents(sq', SqSize) /\ InCq' = Contents(cq', CqSize)
      /\ Comps' = InCq' \o backlog'
  BY DEF InSq, InCq, Comps, Contents, Used, Entries
<1>4. InSq' \in Seq(UserData) /\ InCq' \in Seq(UserData)
  BY <1>2, <1>3, ContentsFacts
<1>5. In(InCq' \o backlog') = In(InCq') \cup In(backlog') /\ InCq' \o backlog' \in Seq(UserData)
  BY <1>1, <1>4, JoinedIs, ConcatProperties
<1>6. Pending' = In(InSq') \cup flight' \cup (In(InCq') \cup In(backlog'))
  BY DEF Pending, InKernel, Completed, In
<1>7. QED
  BY <1>3, <1>4, <1>5, <1>6

LEMMA ApartNext ==
    ASSUME Once(InSq'), Once(Comps'), Lone(flight'), Foreign(In(InSq'), flight'),
           Foreign(In(InSq'), In(Comps')), Foreign(flight', In(Comps'))
    PROVE  Apart'
BY DEF Apart, Once, Lone, Foreign, In

(* A request leaves the queues and the kernel when it is reported.         *)
LEMMA CopyTakes ==
    ASSUME TypeOK, Apart, Snapshot, Copy
    PROVE  /\ Apart'
           /\ In(out') \subseteq Pending /\ Pending' = Pending \ In(out')
<1>1. TypeOK' /\ InSq' = InSq /\ flight' = flight
  BY CopyIs DEF Copy, kernel
<1>2. PICK a \in Seq(UserData) : Comps = a \o Comps' /\ In(out') = In(a)
  BY CopyIs
<1>3. /\ Pending' = In(InSq) \cup flight \cup In(Comps')
      /\ Comps' \in Seq(UserData)
  BY <1>1, PendingNext
<1>4. Pending = In(InSq) \cup flight \cup In(Comps)
  BY TypeFacts
<1> DEFINE c == Comps'
           all == Comps
<1>5. /\ In(all) = In(a) \cup In(c)
      /\ Once(all) => Once(c) /\ Foreign(In(a), In(c))
  <2>1. c \in Seq(UserData) /\ all = a \o c
    BY <1>2, <1>3
  <2> HIDE DEF c, all
  <2>2. QED
    BY <2>1, JoinedIs
<1>6. /\ Once(InSq) /\ Once(all) /\ Lone(flight)
      /\ Foreign(In(InSq), flight) /\ Foreign(In(InSq), In(all)) /\ Foreign(flight, In(all))
  BY DEF Apart
<1> HIDE DEF c, all
<1>7. Once(c) /\ Foreign(In(a), In(c)) /\ In(a) \subseteq In(all) /\ In(c) \subseteq In(all)
  BY <1>5, <1>6
<1>8. Foreign(In(InSq), In(c)) /\ Foreign(flight, In(c))
  BY <1>6, <1>7 DEF Foreign
<1>9. Apart'
  <2> USE DEF c
  <2>1. QED
    BY <1>1, <1>6, <1>7, <1>8, ApartNext
<1>10. In(a) \subseteq Pending
  BY <1>4, <1>7 DEF all
<1>11. (In(InSq) \cup flight \cup In(all)) \ In(a) = In(InSq) \cup flight \cup In(c)
  <2>1. /\ \A x \in In(a) : x \notin In(c) /\ x \notin flight /\ x \notin In(InSq)
    BY <1>6, <1>7 DEF Foreign
  <2>2. QED
    BY <1>5, <2>1
<1>12. QED
  BY <1>2, <1>3, <1>4, <1>9, <1>10, <1>11 DEF c, all

(* What else moves a request moves it within Pending.                      *)
LEMMA SubmitAdds ==
    ASSUME TypeOK, Apart, NEW r \in Wanted, Unused(r.id), Submit(r)
    PROVE  Apart' /\ Pending' = Pending \cup {r}
<1>1. /\ TypeOK' /\ InSq' = InSq \o <<r>> /\ Comps' = Comps /\ flight' = flight
      /\ r \in Request /\ r \in UserData /\ r # Timeout
  BY SubmitIs, WantedAreRequests, UserDataFacts DEF Submit, kernel
<1> DEFINE t == <<r>>
           q == InSq
           c == Comps
<1>2. t \in Seq(UserData) /\ Once(t) /\ In(t) = {r} /\ q \in Seq(UserData)
  BY <1>1, OneIs, TypeFacts
<1>3. /\ Once(q) /\ Once(c) /\ Lone(flight)
      /\ Foreign(In(q), flight) /\ Foreign(In(q), In(c)) /\ Foreign(flight, In(c))
  BY DEF Apart
<1>4. \A x \in In(q) \cup flight \cup In(c) : x.id # r.id
  BY TypeFacts DEF Unused
<1>5. InSq' = q \o t /\ Comps' = c
  BY <1>1
<1>6. Pending = In(q) \cup flight \cup In(c) /\ Pending' = In(InSq') \cup flight \cup In(c)
  BY <1>1, TypeFacts, PendingNext
<1> HIDE DEF t, q, c
<1>7. Foreign(In(q), In(t))
  BY <1>2, <1>4 DEF Foreign
<1>8. In(q \o t) = In(q) \cup {r} /\ Once(q \o t)
  BY <1>2, <1>3, <1>7, JoinedIs
<1>9. Foreign(In(q \o t), flight) /\ Foreign(In(q \o t), In(c))
  BY <1>3, <1>4, <1>8 DEF Foreign
<1>10. Apart'
  BY <1>1, <1>3, <1>5, <1>8, <1>9, ApartNext
<1>11. QED
  BY <1>5, <1>6, <1>8, <1>10

LEMMA EnterMoves ==
    ASSUME TypeOK, Apart, Enter
    PROVE  Apart' /\ Pending' = Pending
<1>1. PICK a \in Seq(UserData) :
          TypeOK' /\ Comps' = Comps /\ InSq = a \o InSq' /\ flight' = flight \cup In(a)
  BY EnterIs
<1> DEFINE q == InSq'
           all == InSq
           c == Comps
           f == flight'
<1>2. /\ Once(all) /\ Once(c) /\ Lone(flight)
      /\ Foreign(In(all), flight) /\ Foreign(In(all), In(c)) /\ Foreign(flight, In(c))
  BY DEF Apart
<1>3. /\ Pending = In(all) \cup flight \cup In(c) /\ Pending' = In(q) \cup f \cup In(c)
      /\ q \in Seq(UserData)
  BY <1>1, TypeFacts, PendingNext
<1>4. f = flight \cup In(a) /\ all = a \o q
  BY <1>1
<1> HIDE DEF q, all, c, f
<1>5. /\ In(all) = In(a) \cup In(q) /\ Once(a) /\ Once(q) /\ Foreign(In(a), In(q))
  BY <1>2, <1>3, <1>4, JoinedIs
<1>6. Lone(In(a))
  BY <1>5, OnceIsLone
<1>7. Lone(f) /\ Foreign(In(q), f) /\ Foreign(In(q), In(c)) /\ Foreign(f, In(c))
  <2>1. Lone(f)
    BY <1>2, <1>4, <1>5, <1>6 DEF Lone, Foreign
  <2>2. Foreign(In(q), f)
    BY <1>2, <1>4, <1>5 DEF Foreign
  <2>3. Foreign(In(q), In(c)) /\ Foreign(f, In(c))
    BY <1>2, <1>4, <1>5 DEF Foreign
  <2>4. QED
    BY <2>1, <2>2, <2>3
<1>8. Apart'
  <2>1. Comps' = c
    BY <1>1 DEF c
  <2> USE DEF q, f
  <2>2. QED
    BY <1>2, <1>5, <1>7, <2>1, ApartNext
<1>9. QED
  BY <1>3, <1>4, <1>5, <1>8

LEMMA CompleteMoves ==
    ASSUME TypeOK, Apart, NEW r, Complete(r)
    PROVE  Apart' /\ Pending' = Pending
<1>1. /\ TypeOK' /\ InSq' = InSq /\ Comps' = Comps \o <<r>>
      /\ r \in flight /\ flight' = flight \ {r} /\ r \in UserData /\ r # Timeout
  BY CompleteIs, UserDataFacts DEF Complete
<1> DEFINE t == <<r>>
           q == InSq
           c == Comps
           f == flight'
<1>2. /\ Once(q) /\ Once(c) /\ Lone(flight)
      /\ Foreign(In(q), flight) /\ Foreign(In(q), In(c)) /\ Foreign(flight, In(c))
  BY DEF Apart
<1>3. /\ Pending = In(q) \cup flight \cup In(c) /\ Pending' = In(q) \cup f \cup In(Comps')
      /\ c \in Seq(UserData)
  BY <1>1, TypeFacts, PendingNext
<1>4. /\ t \in Seq(UserData) /\ Once(t) /\ In(t) = {r}
      /\ Comps' = c \o t /\ InSq' = q /\ f = flight \ {r}
  BY <1>1, OneIs
<1> HIDE DEF t, q, c, f
<1>5. Foreign(In(c), In(t))
  BY <1>1, <1>2, <1>4 DEF Foreign
<1>6. In(c \o t) = In(c) \cup {r} /\ Once(c \o t)
  BY <1>2, <1>3, <1>4, <1>5, JoinedIs
<1>7. /\ Lone(f) /\ Foreign(In(q), f) /\ Foreign(In(q), In(c \o t)) /\ Foreign(f, In(c \o t))
  BY <1>1, <1>2, <1>4, <1>6 DEF Lone, Foreign
<1>8. Apart'
  <2> USE DEF f
  <2>1. QED
    BY <1>2, <1>4, <1>6, <1>7, ApartNext
<1>9. QED
  BY <1>1, <1>3, <1>4, <1>6, <1>8

LEMMA ExpireMoves ==
    ASSUME TypeOK, Apart, Expire
    PROVE  Apart' /\ Pending' = Pending
<1>1. TypeOK' /\ InSq' = InSq /\ Comps' = Comps \o <<Timeout>> /\ flight' = flight
  BY ExpireIs DEF Expire
<1> DEFINE t == <<Timeout>>
           q == InSq
           c == Comps
<1>2. /\ Once(q) /\ Once(c) /\ Lone(flight)
      /\ Foreign(In(q), flight) /\ Foreign(In(q), In(c)) /\ Foreign(flight, In(c))
  BY DEF Apart
<1>3. /\ Pending = In(q) \cup flight \cup In(c) /\ Pending' = In(q) \cup flight \cup In(Comps')
      /\ c \in Seq(UserData)
  BY <1>1, TypeFacts, PendingNext
<1>4. /\ t \in Seq(UserData) /\ Once(t) /\ In(t) = {}
      /\ Comps' = c \o t /\ InSq' = q
  BY <1>1, OneIs, UserDataFacts
<1> HIDE DEF t, q, c
<1>5. Foreign(In(c), In(t))
  BY <1>4 DEF Foreign
<1>6. In(c \o t) = In(c) /\ Once(c \o t)
  <2>1. /\ In(c \o t) = In(c) \cup In(t)
        /\ Once(c \o t) <=> Once(c) /\ Once(t) /\ Foreign(In(c), In(t))
    BY <1>3, <1>4, JoinedIs
  <2>2. QED
    BY <1>2, <1>4, <1>5, <2>1
<1>7. Apart'
  BY <1>1, <1>2, <1>4, <1>6, ApartNext
<1>8. QED
  BY <1>3, <1>4, <1>6, <1>7

(* A step that only adds or drops timeouts, or moves completions on.       *)
LEMMA RestStays ==
    ASSUME TypeOK, Apart, TypeOK', Comps' = Comps, In(InSq') = In(InSq), flight' = flight,
           Once(InSq) => Once(InSq')
    PROVE  Apart' /\ Pending' = Pending
<1>1. /\ Pending = In(InSq) \cup flight \cup In(Comps)
      /\ Pending' = In(InSq) \cup flight \cup In(Comps)
  BY TypeFacts, PendingNext
<1>2. Once(InSq') /\ Once(Comps') /\ Lone(flight')
  BY DEF Apart
<1>3. Foreign(In(InSq'), flight') /\ Foreign(In(InSq'), In(Comps')) /\ Foreign(flight', In(Comps'))
  BY DEF Apart
<1>4. QED
  BY <1>1, <1>2, <1>3, ApartNext
Held(S) == {r.id : r \in {u \in S : u.op \in Iov}}

LEMMA HeldStays ==
    ASSUME IovHeld, UNCHANGED <<valid, iov>>, Pending' = Pending
    PROVE  IovHeld'
BY DEF IovHeld

(* The ids of the iovecs that harvest_cqes frees are those of its span.    *)
LEMMA IovOfIs ==
    ASSUME NEW s \in Seq(Request)
    PROVE  IovOf(s) = Held(In(s))
<1>1. s \in Seq(UserData)
  BY UserDataFacts, SeqMonotonic
<1>2. \A i \in 1..Len(s) : s[i] \in Request /\ s[i] # Timeout
  BY ElementOfSeq, UserDataFacts
<1>3. DOMAIN s = 1..Len(s) /\ In(s) = {s[i] : i \in DOMAIN s}
  BY <1>2, LenProperties DEF In
<1>4. \A x : x \in IovOf(s) <=> \E i \in DOMAIN s : s[i].op \in Iov /\ x = s[i].id
  BY DEF IovOf
<1>5. \A x : x \in Held(In(s)) <=> \E i \in DOMAIN s : s[i].op \in Iov /\ x = s[i].id
  BY <1>3 DEF Held
<1>6. QED
  BY <1>4, <1>5

LEMMA HeldWithout ==
    ASSUME NEW S, Lone(S), NEW T \in SUBSET S
    PROVE  Held(S \ T) = Held(S) \ Held(T)
<1>1. \A x : x \in Held(S) <=> \E r \in S : r.op \in Iov /\ x = r.id
  BY DEF Held
<1>2. \A x : x \in Held(T) <=> \E r \in T : r.op \in Iov /\ x = r.id
  BY DEF Held
<1>3. \A x : x \in Held(S \ T) <=> \E r \in S : r \notin T /\ r.op \in Iov /\ x = r.id
  BY DEF Held
<1>4. \A r, u \in S : r.id = u.id => r = u
  BY DEF Lone
<1>5. QED
  BY <1>1, <1>2, <1>3, <1>4

LEMMA CopyFrees ==
    ASSUME TypeOK, Apart, Snapshot, IovHeld, Copy
    PROVE  IovHeld'
<1>1. out' \in Seq(Request)
  BY CopyIs DEF TypeOK
<1>2. In(out') \subseteq Pending /\ Pending' = Pending \ In(out') /\ Lone(Pending)
  BY CopyTakes, PendingIsLone
<1>3. iov' = iov \ IovOf(out') /\ valid' = valid
  BY DEF Copy
<1>4. IovOf(out') = Held(In(out'))
  BY <1>1, IovOfIs
<1>5. Held(Pending') = Held(Pending) \ Held(In(out'))
  BY <1>2, HeldWithout
<1>6. ASSUME valid
      PROVE  iov' = Held(Pending')
  <2>1. iov = Held(Pending)
    BY <1>6 DEF IovHeld, Held
  <2>2. QED
    BY <1>3, <1>4, <1>5, <2>1
<1>7. QED
  BY <1>3, <1>6 DEF IovHeld, Held

LEMMA SubmitHolds ==
    ASSUME TypeOK, Apart, IovHeld, NEW r \in Wanted, Unused(r.id), Submit(r)
    PROVE  IovHeld'
<1>1. Pending' = Pending \cup {r}
  BY SubmitAdds
<1>2. iov' = (IF r.op \in Iov THEN iov \cup {r.id} ELSE iov) /\ valid
  BY DEF Submit
<1>3. Held(Pending \cup {r}) = IF r.op \in Iov THEN Held(Pending) \cup {r.id} ELSE Held(Pending)
  <2>1. \A x : x \in Held(Pending) <=> \E u \in Pending : u.op \in Iov /\ x = u.id
    BY DEF Held
  <2>2. \A x : x \in Held(Pending \cup {r}) <=>
                   \E u \in Pending \cup {r} : u.op \in Iov /\ x = u.id
    BY DEF Held
  <2>3. QED
    BY <2>1, <2>2
<1>4. iov = Held(Pending)
  BY <1>2 DEF IovHeld, Held
<1>5. iov' = Held(Pending')
  BY <1>1, <1>2, <1>3, <1>4
<1>6. QED
  BY <1>5 DEF IovHeld, Held

LEMMA InitIInv ==
    ASSUME Init
    PROVE  IInv /\ Pending = {}
<1>1. SqSize \in Sizes /\ CqSize \in Sizes /\ sq = Empty(SqSize) /\ cq = Empty(CqSize)
  BY DEF Init, Sizes
<1>2. /\ RingOK(sq, SqSize) /\ Contents(sq, SqSize) = <<>>
      /\ RingOK(cq, CqSize) /\ Contents(cq, CqSize) = <<>>
  BY <1>1, EmptyIs
<1>3. InSq = <<>> /\ InCq = <<>> /\ backlog = <<>>
  BY <1>2 DEF InSq, InCq, Contents, Init
<1>4. Comps = <<>>
  BY <1>3, EmptySeq, ConcatEmptySeq DEF Comps
<1>5. TypeOK
  <2>1. extArg \in BOOLEAN
    BY KernelsAreBoolean DEF Init
  <2>2. seen \in 0..(Wrap - 1) /\ out \in Seq(Request) /\ Len(out) <= Room
        /\ backlog \in Seq(UserData)
    BY RingsDivideWrap, RoomIsPositive, EmptySeq DEF Init
  <2>3. QED
    BY <1>2, <2>1, <2>2 DEF TypeOK, Init
<1>6. In(<<>>) = {} /\ Once(<<>>) /\ flight = {}
  BY DEF In, Once, Init
<1>7. Apart
  BY <1>3, <1>4, <1>6 DEF Apart, Lone, Foreign
<1>8. Pending = {}
  BY <1>3, <1>4, <1>5, <1>6, TypeFacts
<1>9. Snapshot /\ SpanEmpty
  BY DEF Init, Snapshot, SpanEmpty
<1>10. IovHeld
  BY <1>8 DEF IovHeld, Init
<1>11. QED
  BY <1>5, <1>7, <1>8, <1>9, <1>10 DEF IInv

LEMMA SubmitKeeps ==
    ASSUME IInv, NEW r \in Wanted, Unused(r.id), Submit(r)
    PROVE  IInv'
<1>1. TypeOK /\ Apart /\ IovHeld
  BY DEF IInv
<1>2. TypeOK' /\ Apart' /\ IovHeld'
  BY <1>1, SubmitIs, SubmitAdds, SubmitHolds
<1>3. Snapshot' /\ SpanEmpty'
  BY DEF Submit, call, Snapshot, SpanEmpty
<1>4. QED
  BY <1>2, <1>3 DEF IInv

LEMMA StopEmpties ==
    ASSUME IInv, Stop
    PROVE  IInv' /\ Pending' = {}
<1>1. TypeOK' /\ InSq' = <<>> /\ Comps' = <<>> /\ flight' = {}
  BY StopIs DEF IInv, Stop
<1>2. In(<<>>) = {} /\ Once(<<>>)
  BY DEF In, Once
<1>3. Apart'
  <2>1. Lone(flight') /\ Foreign(In(InSq'), flight') /\ Foreign(In(InSq'), In(Comps'))
        /\ Foreign(flight', In(Comps'))
    BY <1>1, <1>2 DEF Lone, Foreign
  <2>2. QED
    BY <1>1, <1>2, <2>1, ApartNext
<1>4. Pending' = {}
  BY <1>1, <1>2, PendingNext
<1>5. Snapshot' /\ SpanEmpty' /\ IovHeld'
  BY DEF Stop, call, Snapshot, SpanEmpty, IovHeld
<1>6. QED
  BY <1>1, <1>3, <1>4, <1>5 DEF IInv

(* A step that moves no request.                                           *)
LEMMA StaysKeeps ==
    ASSUME IInv, Calls \/ Probe \/ Unblock \/ Load \/ Flush
    PROVE  IInv' /\ Pending' = Pending
<1>1. TypeOK /\ Apart /\ IovHeld /\ SpanEmpty
  BY DEF IInv
<1>2. TypeOK' /\ Comps' = Comps /\ In(InSq') = In(InSq) /\ (Once(InSq) => Once(InSq'))
  BY <1>1, CallIs, ProbeIs, UnblockIs, LoadIs, FlushEnds
<1>3. flight' = flight /\ UNCHANGED <<valid, iov>>
  BY DEF Calls, Call, Probe, Unblock, Load, Flush, kernel
<1>4. Apart' /\ Pending' = Pending
  BY <1>1, <1>2, <1>3, RestStays
<1>5. IovHeld'
  BY <1>1, <1>3, <1>4, HeldStays
<1>6. SpanEmpty'
  BY <1>1 DEF SpanEmpty, Calls, Call, Probe, Unblock, Load, Flush, Return, call
<1>7. Snapshot'
  <2>1. CASE Load
    <3>1. seen' = cq.tail /\ cq' = cq
      BY <1>1, <2>1, LoadIs
    <3>2. (seen' - cq'.head) % Wrap = Used(cq) /\ Used(cq)' = Used(cq) /\ Used(cq) <= Used(cq)
      <4>1. Used(cq) \in 0..CqSize /\ CqSize \in Nat
        BY <1>1, TypeFacts, RingFacts, SizeFacts DEF Sizes
      <4>2. Used(cq) <= Used(cq)
        BY <4>1
      <4>3. QED
        BY <3>1, <4>2 DEF Used
    <3>3. QED
      BY <3>2 DEF Snapshot
  <2>2. CASE Calls \/ Probe \/ Unblock \/ Flush
    BY <2>2 DEF Snapshot, Calls, Call, Probe, Unblock, Flush, Return, call
  <2>3. QED
    BY <2>1, <2>2
<1>8. QED
  BY <1>2, <1>4, <1>5, <1>6, <1>7 DEF IInv

LEMMA EnterKeeps ==
    ASSUME IInv, Enter
    PROVE  IInv' /\ Pending' = Pending
<1>1. TypeOK /\ Apart /\ IovHeld /\ SpanEmpty
  BY DEF IInv
<1>2. TypeOK' /\ Apart' /\ Pending' = Pending
  BY <1>1, EnterIs, EnterMoves
<1>3. IovHeld'
  BY <1>1, <1>2, HeldStays DEF Enter
<1>4. phase = "enter" /\ phase' \in {"harvest", "blocked"} /\ out' = out
  BY DEF Enter
<1>5. SpanEmpty' /\ Snapshot'
  BY <1>1, <1>4 DEF SpanEmpty, Snapshot
<1>6. QED
  BY <1>2, <1>3, <1>5 DEF IInv

(* A completion that arrives between Load and Copy is behind the snapshot. *)
LEMMA SnapshotStays ==
    ASSUME TypeOK, TypeOK', Snapshot, UNCHANGED <<phase, seen>>,
           cq'.head = cq.head, Used(cq) <= Used(cq)'
    PROVE  Snapshot'
<1> DEFINE m == (seen - cq.head) % Wrap
           used == Used(cq)
           next == Used(cq)'
<1>1. (seen' - cq'.head) % Wrap = m
  OBVIOUS
<1>2. m \in Int /\ used \in Int /\ next \in Int
  <2>1. RingOK(cq, CqSize) /\ RingOK(cq', CqSize) /\ CqSize \in Sizes /\ next = Used(cq')
    BY DEF TypeOK, RingOK, Used, Sizes
  <2>2. used \in Int /\ Used(cq') \in Int
    BY <2>1, RingFacts, SizeFacts
  <2>3. seen \in Int /\ cq.head \in Int /\ Wrap \in Nat \ {0}
    BY <2>1, RingFacts, SizeFacts DEF TypeOK
  <2>4. m \in Int
    <3> DEFINE d == seen - cq.head
    <3>1. d \in Int
      BY <2>3
    <3> HIDE DEF d
    <3>2. d % Wrap \in Int
      BY <2>3, <3>1, ModRange
    <3>3. QED
      BY <3>2 DEF d
  <2>5. QED
    BY <2>1, <2>2, <2>4
<1>3. phase = "copy" => m <= used
  BY DEF Snapshot
<1>4. used <= next
  OBVIOUS
<1>5. phase = "copy" => m <= next
  <2> HIDE DEF m, used, next
  <2>1. QED
    BY <1>2, <1>3, <1>4
<1>6. QED
  BY <1>1, <1>5 DEF Snapshot

LEMMA PostKeeps ==
    ASSUME IInv, Expire \/ \E r \in Wanted : Complete(r)
    PROVE  IInv' /\ Pending' = Pending
<1>1. TypeOK /\ Apart /\ IovHeld /\ SpanEmpty /\ Snapshot
  BY DEF IInv
<1>2. TypeOK' /\ Apart' /\ Pending' = Pending /\ cq'.head = cq.head /\ Used(cq) <= Used(cq)'
  BY <1>1, ExpireIs, ExpireMoves, CompleteIs, CompleteMoves
<1>3. UNCHANGED <<valid, iov, phase, seen, out>>
  BY DEF Expire, Complete, call
<1>4. IovHeld' /\ Snapshot'
  BY <1>1, <1>2, <1>3, HeldStays, SnapshotStays
<1>5. SpanEmpty'
  BY <1>1, <1>3 DEF SpanEmpty
<1>6. QED
  BY <1>2, <1>4, <1>5 DEF IInv

LEMMA CopyKeeps ==
    ASSUME IInv, Copy
    PROVE  IInv' /\ In(out') \subseteq Pending /\ Pending' = Pending \ In(out')
<1>1. TypeOK /\ Apart /\ IovHeld /\ Snapshot
  BY DEF IInv
<1>2. /\ TypeOK' /\ Apart' /\ IovHeld'
      /\ In(out') \subseteq Pending /\ Pending' = Pending \ In(out')
  BY <1>1, CopyIs, CopyTakes, CopyFrees
<1>3. phase' = "flush"
  BY DEF Copy
<1>4. SpanEmpty' /\ Snapshot'
  BY <1>3 DEF SpanEmpty, Snapshot
<1>5. QED
  BY <1>2, <1>4 DEF IInv

LEMMA StutterKeeps ==
    ASSUME IInv, UNCHANGED vars
    PROVE  IInv' /\ Pending' = Pending
BY DEF IInv, vars, call, kernel, TypeOK, RingOK, Used, Apart, Snapshot, SpanEmpty, IovHeld,
       InSq, InCq, Comps, Entries, Pending, InKernel, Completed

LEMMA NextKeeps ==
    ASSUME IInv, [Next]_vars
    PROVE  IInv'
<1>1. ASSUME NEW r \in Wanted, Unused(r.id) /\ Submit(r)
      PROVE  IInv'
  BY <1>1, SubmitKeeps
<1>2. CASE Expire \/ \E r \in Wanted : Complete(r)
  BY <1>2, PostKeeps
<1>3. CASE Stop
  BY <1>3, StopEmpties
<1>4. CASE Calls \/ Probe \/ Unblock \/ Load \/ Flush
  BY <1>4, StaysKeeps
<1>5. CASE Enter
  BY <1>5, EnterKeeps
<1>6. CASE Copy
  BY <1>6, CopyKeeps
<1>7. CASE UNCHANGED vars
  BY <1>7, StutterKeeps
<1>8. QED
  BY <1>1, <1>2, <1>3, <1>4, <1>5, <1>6, <1>7 DEF Next

LEMMA IInvAlways == Spec => []IInv
<1>1. Init => IInv
  BY InitIInv
<1>2. IInv /\ [Next]_vars => IInv'
  BY NextKeeps
<1>3. QED
  BY <1>1, <1>2, PTL DEF Spec

(* Whatever is submitted, completed, dropped or timed out, in any order:   *)
(* both rings hold entries of their kind and no more than they have room   *)
(* for, their counters stay below Wrap, and wait returns requests only.    *)
THEOREM TypeCorrect == Spec => []TypeOK
<1>1. IInv => TypeOK
  BY DEF IInv
<1>2. QED
  BY <1>1, IInvAlways, PTL

(* The msghdr a read or a write gave to the kernel is held in io_pending   *)
(* as long as the request is in the submission ring, in the kernel or      *)
(* among the completions that were not taken, and no longer.               *)
THEOREM IovsHeld == Spec => []IovHeld
<1>1. IInv => IovHeld
  BY DEF IInv
<1>2. QED
  BY <1>1, IInvAlways, PTL
-------------------------------------------------------------------------------
(* The refinement: what the interface sees of the requests.                *)

Filed(S) == {<<r.id, "ring">> : r \in S}
Names(S) == {r.id : r \in S}

LEMMA FiledFacts ==
    ASSUME NEW S
    PROVE  /\ Iface!Ids(Filed(S)) = Names(S)
           /\ Lone(S) => \A T \in SUBSET S : Filed(S \ T) = Filed(S) \ Filed(T)
           /\ \A T \in SUBSET S : Filed(T) \in SUBSET Filed(S)
           /\ \A r : Filed(S \cup {r}) = Filed(S) \cup {<<r.id, "ring">>}
<1>1. \A x, y : <<x, "ring">> = <<y, "ring">> => x = y
  OBVIOUS
<1>2. Iface!Ids(Filed(S)) = Names(S)
  <2>1. \A x : x \in Filed(S) <=> \E r \in S : x = <<r.id, "ring">>
    BY DEF Filed
  <2>2. \A x : x \in Iface!Ids(Filed(S)) <=> \E p \in Filed(S) : x = p[1]
    BY DEF Iface!Ids
  <2>3. \A x : x \in Iface!Ids(Filed(S)) <=> \E r \in S : x = r.id
    <3>1. \A r \in S : <<r.id, "ring">> \in Filed(S) /\ <<r.id, "ring">>[1] = r.id
      BY <2>1
    <3>2. \A p \in Filed(S) : \E r \in S : p = <<r.id, "ring">> /\ p[1] = r.id
      BY <2>1
    <3>3. ASSUME NEW x, NEW r \in S, x = r.id
          PROVE  \E p \in Filed(S) : x = p[1]
      BY <3>1, <3>3
    <3>4. ASSUME NEW x, NEW p \in Filed(S), x = p[1]
          PROVE  \E r \in S : x = r.id
      BY <3>2, <3>4
    <3>5. QED
      BY <2>2, <3>3, <3>4, Zenon
  <2>4. QED
    BY <2>3 DEF Names
<1>3. ASSUME Lone(S), NEW T \in SUBSET S
      PROVE  Filed(S \ T) = Filed(S) \ Filed(T)
  <2>1. \A x : x \in Filed(S) <=> \E r \in S : x = <<r.id, "ring">>
    BY DEF Filed
  <2>2. \A x : x \in Filed(T) <=> \E r \in T : x = <<r.id, "ring">>
    BY DEF Filed
  <2>3. \A x : x \in Filed(S \ T) <=> \E r \in S : r \notin T /\ x = <<r.id, "ring">>
    BY DEF Filed
  <2>4. \A r, u \in S : <<r.id, "ring">> = <<u.id, "ring">> => r = u
    BY <1>1, <1>3 DEF Lone
  <2>5. QED
    BY <2>1, <2>2, <2>3, <2>4
<1>4. QED
  BY <1>2, <1>3 DEF Filed

LEMMA InitImplements ==
    ASSUME Init
    PROVE  Iface!Init
<1>1. Pending = {}
  BY InitIInv
<1>2. out = <<>> /\ In(<<>>) = {} /\ phase = "lua" /\ valid = TRUE
  BY DEF Init, In
<1>3. QED
  BY <1>1, <1>2 DEF Iface!Init

LEMMA SubmitImplements ==
    ASSUME IInv, NEW r \in Wanted, Unused(r.id), Submit(r)
    PROVE  Iface!Submit(r.id, "ring") /\ r.id \in Id
<1>1. TypeOK /\ Apart
  BY DEF IInv
<1>2. Pending' = Pending \cup {r} /\ r.id \in Id
  BY <1>1, SubmitAdds, WantedAreRequests DEF Request
<1>3. r.id \notin Iface!Ids(Filed(Pending))
  <2>1. r.id \notin Names(Pending)
    BY DEF Unused, Names
  <2>2. QED
    BY <2>1, FiledFacts
<1>4. Filed(Pending') = Filed(Pending) \cup {<<r.id, "ring">>}
  BY <1>2, FiledFacts
<1>5. UNCHANGED <<out, phase, valid>> /\ phase = "lua"
  BY DEF Submit, call
<1>6. In(out)' = In(out)
  BY <1>5 DEF In
<1>7. QED
  BY <1>2, <1>3, <1>4, <1>5, <1>6 DEF Iface!Submit, Filed

LEMMA StopImplements ==
    ASSUME IInv, Stop
    PROVE  Iface!Stop
<1>1. Pending' = {}
  BY StopEmpties
<1>2. phase = "lua" /\ UNCHANGED <<out, phase>> /\ valid' = FALSE
  BY DEF Stop, call
<1>3. In(out)' = In(out)
  BY <1>2 DEF In
<1>4. Filed(Pending) \in SUBSET Filed(Pending) /\ Filed(Pending') = Filed(Pending) \ Filed(Pending)
  BY <1>1 DEF Filed
<1>5. QED
  BY <1>2, <1>3, <1>4 DEF Iface!Stop, Filed

LEMMA CallImplements ==
    ASSUME IInv, Calls
    PROVE  Iface!Begin
<1>1. Pending' = Pending
  BY StaysKeeps
<1>2. phase = "lua" /\ out' = <<>> /\ valid' = valid /\ phase' \in {"harvest", "enter"}
  BY DEF Calls, Call
<1>3. {r.id : r \in In(out)}' = Iface!Ids({})
  BY <1>2 DEF In, Iface!Ids
<1>4. {} \in SUBSET Filed(Pending) /\ Filed(Pending') = Filed(Pending) \ {}
  BY <1>1
<1>5. QED
  BY <1>2, <1>3, <1>4 DEF Iface!Begin, Filed

LEMMA CopyImplements ==
    ASSUME IInv, Copy
    PROVE  Iface!Report
<1>1. TypeOK /\ Apart /\ SpanEmpty
  BY DEF IInv
<1>2. In(out') \in SUBSET Pending /\ Pending' = Pending \ In(out') /\ Lone(Pending)
  BY <1>1, CopyKeeps, PendingIsLone
<1> DEFINE S == Filed(In(out'))
<1>3. /\ S \in SUBSET Filed(Pending) /\ Filed(Pending') = Filed(Pending) \ S
      /\ Iface!Ids(S) = Names(In(out'))
  BY <1>2, FiledFacts
<1>4. phase = "copy" /\ phase' = "flush" /\ valid' = valid
  BY DEF Copy
<1>5. {r.id : r \in In(out)} = {}
  BY <1>1, <1>4 DEF SpanEmpty, In
<1>6. {r.id : r \in In(out)}' = {r.id : r \in In(out)} \cup Iface!Ids(S)
  <2>1. {r.id : r \in In(out)}' = Names(In(out'))
    BY DEF Names, In
  <2>2. QED
    BY <1>3, <1>5, <2>1
<1> HIDE DEF S
<1>7. QED
  BY <1>3, <1>4, <1>6 DEF Iface!Report, Filed

LEMMA FlushImplements ==
    ASSUME IInv, Flush
    PROVE  Iface!Report
<1>1. Pending' = Pending
  BY StaysKeeps
<1>2. phase = "flush" /\ phase' = "lua" /\ UNCHANGED <<out, valid>>
  BY DEF Flush, Return
<1>3. {r.id : r \in In(out)}' = {r.id : r \in In(out)} \cup Iface!Ids({})
  BY <1>2 DEF In, Iface!Ids
<1>4. {} \in SUBSET Filed(Pending) /\ Filed(Pending') = Filed(Pending) \ {}
  BY <1>1
<1>5. QED
  BY <1>2, <1>3, <1>4 DEF Iface!Report, Filed

LEMMA InsideStutters ==
    ASSUME Pending' = Pending, out' = out, valid' = valid, (phase # "lua")' <=> phase # "lua"
    PROVE  UNCHANGED Iface!vars
<1>1. In(out)' = In(out)
  BY DEF In
<1>2. QED
  BY <1>1 DEF Iface!vars

LEMMA InsideImplements ==
    ASSUME IInv, \/ Probe \/ Enter \/ Unblock \/ Load \/ Expire \/ UNCHANGED vars
                 \/ \E r \in Wanted : Complete(r)
    PROVE  UNCHANGED Iface!vars
<1>1. Pending' = Pending
  BY StaysKeeps, EnterKeeps, PostKeeps, StutterKeeps
<1>2. UNCHANGED <<out, valid>>
  BY DEF Probe, Enter, Unblock, Load, Expire, Complete, vars, call
<1>3. (phase # "lua")' <=> phase # "lua"
  BY DEF Probe, Enter, Unblock, Load, Expire, Complete, vars, call
<1>4. QED
  BY <1>1, <1>2, <1>3, InsideStutters

LEMMA NextImplements ==
    ASSUME IInv, [Next]_vars
    PROVE  [Iface!Next]_Iface!vars
<1>1. ASSUME NEW r \in Wanted, Unused(r.id) /\ Submit(r)
      PROVE  Iface!Next
  BY <1>1, SubmitImplements DEF Iface!Next
<1>2. CASE Stop
  BY <1>2, StopImplements DEF Iface!Next
<1>3. CASE Calls
  BY <1>3, CallImplements DEF Iface!Next
<1>4. CASE Copy
  BY <1>4, CopyImplements DEF Iface!Next
<1>5. CASE Flush
  BY <1>5, FlushImplements DEF Iface!Next
<1>6. CASE \/ Probe \/ Enter \/ Unblock \/ Load \/ Expire \/ UNCHANGED vars
           \/ \E r \in Wanted : Complete(r)
  BY <1>6, InsideImplements
<1>7. QED
  BY <1>1, <1>2, <1>3, <1>4, <1>5, <1>6 DEF Next

(* The io_uring backend does what async.h promises: only accepted requests *)
(* are reported, and each at most once, in one call.                       *)
THEOREM Refinement == Spec => ImplementsIface
<1>1. Init => Iface!Init
  BY InitImplements
<1>2. IInv /\ [Next]_vars => [Iface!Next]_Iface!vars
  BY NextImplements
<1>3. QED
  BY <1>1, <1>2, IInvAlways, PTL DEF Spec, ImplementsIface, Iface!Spec

-------------------------------------------------------------------------------
(* flatmap: walking round a table of n slots                               *)

Follow(s, n) == (s + 1) % n
Along(h, i, n) == (h + i) % n      (* the slot i steps on from h           *)
Far(h, s, n) == (s - h) % n        (* how far slot s is from h             *)

LEMMA FarFollow ==
    ASSUME NEW n \in Nat \ {0}, NEW h \in Nat, NEW s \in 0..n - 1
    PROVE  /\ Follow(s, n) \in 0..n - 1
           /\ Far(h, Follow(s, n), n) = IF Far(h, s, n) = n - 1 THEN 0 ELSE Far(h, s, n) + 1
<1> DEFINE a == s + 1
           d == s - h
           r == d % n
           e == d + 1
<1>1. a \in Int /\ d \in Int /\ h \in Int /\ e \in Int /\ a - h = e
  OBVIOUS
<1>2. r \in 0..n - 1 /\ a % n \in 0..n - 1
  BY <1>1, ModRange
<1>3. ((a % n) - h) % n = (a - h) % n
  <2> HIDE DEF a
  <2>1. QED
    BY <1>1, ModMinus
<1>4. (r + 1) % n = e % n
  <2> HIDE DEF d
  <2>1. QED
    BY <1>1, ModNext
<1>5. Far(h, Follow(s, n), n) = (r + 1) % n
  <2>1. Far(h, Follow(s, n), n) = ((a % n) - h) % n
    BY DEF Far, Follow
  <2>2. QED
    BY <1>1, <1>3, <1>4, <2>1
<1>6. r = Far(h, s, n)
  BY DEF Far
<1> HIDE DEF r
<1>7. (r + 1) % n = IF r = n - 1 THEN 0 ELSE r + 1
  <2>1. CASE r = n - 1
    <3>1. r + 1 = n * 1 + 0 /\ 0 \in 0..n - 1
      BY <2>1
    <3>2. (n * 1 + 0) % n = 0
      BY <3>1, ModUnique
    <3>3. QED
      BY <2>1, <3>1, <3>2
  <2>2. CASE r # n - 1
    BY <1>2, <2>2, ModSmall
  <2>3. QED
    BY <2>1, <2>2
<1>8. QED
  BY <1>2, <1>5, <1>6, <1>7 DEF Follow

LEMMA FarAlong ==
    ASSUME NEW n \in Nat \ {0}, NEW h \in Nat, NEW s \in 0..n - 1
    PROVE  Far(h, s, n) \in 0..n - 1 /\ Along(h, Far(h, s, n), n) = s
<1> DEFINE d == s - h
           r == d % n
<1>1. d \in Int /\ h \in Int /\ d + h = s
  OBVIOUS
<1>2. r \in 0..n - 1
  BY <1>1, ModRange
<1>3. (r + h) % n = (d + h) % n
  <2> HIDE DEF d
  <2>1. QED
    BY <1>1, ModSum
<1>4. s % n = s
  BY ModSmall
<1>5. h + r = r + h
  <2> HIDE DEF r
  <2>1. QED
    BY <1>2
<1>6. QED
  BY <1>1, <1>2, <1>3, <1>4, <1>5 DEF Far, Along

LEMMA AlongFar ==
    ASSUME NEW n \in Nat \ {0}, NEW h \in Nat, NEW i \in Nat
    PROVE  /\ Along(h, i, n) \in 0..n - 1
           /\ Follow(Along(h, i, n), n) = Along(h, i + 1, n)
           /\ i < n => Far(h, Along(h, i, n), n) = i
<1> DEFINE a == h + i
           b == a + 1
<1>1. a \in Int /\ b \in Int /\ h \in Int /\ h + (i + 1) = b /\ a - h = i
  OBVIOUS
<1>2. a % n \in 0..n - 1
  BY <1>1, ModRange
<1>3. ((a % n) + 1) % n = (a + 1) % n /\ ((a % n) - h) % n = (a - h) % n
  <2> HIDE DEF a
  <2>1. QED
    BY <1>1, ModNext, ModMinus
<1>4. i < n => i % n = i
  BY ModSmall
<1>5. QED
  BY <1>1, <1>2, <1>3, <1>4 DEF Follow, Along, Far

LEMMA FollowDiffers ==
    ASSUME NEW n \in Nat \ {0}, NEW s \in 0..n - 1, NEW t \in 0..n - 1,
           Follow(s, n) = Follow(t, n)
    PROVE  s = t
<1>1. Far(0, s, n) \in 0..n - 1 /\ Far(0, t, n) \in 0..n - 1
  BY FarAlong
<1>2. Far(0, Follow(s, n), n) = IF Far(0, s, n) = n - 1 THEN 0 ELSE Far(0, s, n) + 1
  BY FarFollow
<1>3. Far(0, Follow(t, n), n) = IF Far(0, t, n) = n - 1 THEN 0 ELSE Far(0, t, n) + 1
  BY FarFollow
<1>4. Far(0, s, n) = Far(0, t, n)
  BY <1>1, <1>2, <1>3
<1>5. QED
  BY <1>4, FarAlong

-------------------------------------------------------------------------------
(* Tables                                                                  *)

Live == [key : Key, obj : Mapped, dib : Nat \ {0}]
Bucket == Live \cup {Free}
Storage(n) == [0..n - 1 -> Bucket]

InUse(b) == {s \in DOMAIN b : b[s].dib # 0}
Pair(e) == <<e.key, e.obj>>
Pairs(b) == {Pair(b[s]) : s \in InUse(b)}

(* Every entry knows how far from home it is, and none is more than one    *)
(* farther away than the bucket before it.                                 *)
Placed(b, n) == \A s \in 0..n - 1 : b[s].dib # 0 => Far(Hash[b[s].key], s, n) = b[s].dib - 1
Smooth(b, n) == \A s \in 0..n - 1 : b[Follow(s, n)].dib <= b[s].dib + 1
Table(b, n) == b \in Storage(n) /\ Placed(b, n) /\ Smooth(b, n)

Unique(b) == \A s, t \in InUse(b) : b[s].key = b[t].key => s = t
Sound(b, n) == Table(b, n) /\ Unique(b)

(* Some bucket is free.                                                    *)
Roomy(b, n) == \E s \in 0..n - 1 : b[s].dib = 0

LEMMA BucketFacts ==
    /\ \A e \in Live : e.key \in Key /\ e.obj \in Mapped /\ e.dib \in Nat /\ e.dib > 0
    /\ \A e \in Bucket : e.dib \in Nat /\ (e.dib # 0 => e \in Live)
    /\ Free \in Bucket /\ Free.dib = 0 /\ Free.key = NoKey
    /\ \A e \in Bucket : e.key \in Key => e \in Live
BY MapConstants DEF Live, Bucket, Free

LEMMA HashFacts == \A k \in Key : Hash[k] \in Nat
BY MapConstants

LEMMA StorageFacts ==
    ASSUME NEW n \in Nat \ {0}, NEW b \in Storage(n)
    PROVE  /\ DOMAIN b = 0..n - 1 /\ Size(b) = n
           /\ \A s \in 0..n - 1 : b[s] \in Bucket /\ b[s].dib \in Nat
           /\ \A s \in 0..n - 1 : b[s].dib # 0 => b[s] \in Live /\ b[s].key \in Key
           /\ InUse(b) = {s \in 0..n - 1 : b[s].dib # 0}
           /\ IsFiniteSet(InUse(b)) /\ Cardinality(InUse(b)) \in Nat
<1>1. DOMAIN b = 0..n - 1 /\ \A s \in 0..n - 1 : b[s] \in Bucket
  BY DEF Storage
<1>2. IsFiniteSet(0..n - 1) /\ Cardinality(0..n - 1) = n
  <2> DEFINE m == n - 1
  <2>1. m \in Int /\ 0 \in Int /\ ~(0 > m) /\ m - 0 + 1 = n
    OBVIOUS
  <2> HIDE DEF m
  <2>2. IsFiniteSet(0..m) /\ Cardinality(0..m) = m - 0 + 1
    BY <2>1, FS_Interval
  <2>3. QED
    BY <2>1, <2>2 DEF m
<1>3. Size(b) = n
  BY <1>1, <1>2 DEF Size
<1>4. InUse(b) = {s \in 0..n - 1 : b[s].dib # 0}
  BY <1>1 DEF InUse
<1>5. InUse(b) \in SUBSET (0..n - 1)
  BY <1>4
<1>6. IsFiniteSet(InUse(b)) /\ Cardinality(InUse(b)) \in Nat
  BY <1>2, <1>5, FS_Subset, FS_CardinalityType
<1>7. QED
  BY <1>1, <1>3, <1>4, <1>6, BucketFacts

(* A bucket is free as long as fewer are used than there are.              *)
LEMMA RoomIs ==
    ASSUME NEW n \in Nat \ {0}, NEW b \in Storage(n), Cardinality(InUse(b)) < n
    PROVE  Roomy(b, n)
<1>1. SUFFICES ASSUME \A s \in 0..n - 1 : b[s].dib # 0
               PROVE  FALSE
  BY DEF Roomy
<1>2. InUse(b) = DOMAIN b
  BY <1>1, StorageFacts
<1>3. Cardinality(InUse(b)) = n
  BY <1>2, StorageFacts DEF Size
<1>4. QED
  BY <1>3

(* Before an entry that is d from home there are entries at least as far   *)
(* from the same place.                                                    *)
LEMMA Chain ==
    ASSUME NEW n \in Nat \ {0}, NEW b, Table(b, n), NEW s \in 0..n - 1, b[s].dib # 0,
           NEW i \in Nat, i < b[s].dib
    PROVE  b[Along(Hash[b[s].key], i, n)].dib >= i + 1
<1> DEFINE h == Hash[b[s].key]
           d == b[s].dib
           T == {j \in Nat : j < d => b[Along(h, d - 1 - j, n)].dib >= d - j}
<1>0. b \in Storage(n)
  BY DEF Table
<1>1. h \in Nat /\ d \in Nat /\ d > 0
  BY <1>0, StorageFacts, HashFacts
<1>2. Far(h, s, n) = d - 1
  BY DEF Table, Placed
<1>3. Along(h, d - 1, n) = s
  BY <1>1, <1>2, FarAlong
<1>4. b[Along(h, d - 1, n)].dib = d
  BY <1>3
<1> HIDE DEF d, h
<1>5. 0 \in T
  BY <1>1, <1>4
<1>6. ASSUME NEW j \in Nat, j \in T
      PROVE  j + 1 \in T
  <2> SUFFICES ASSUME j + 1 < d
               PROVE  b[Along(h, d - 1 - (j + 1), n)].dib >= d - (j + 1)
    OBVIOUS
  <2> DEFINE a == d - 1 - (j + 1)
             u == Along(h, a, n)
  <2>1. a \in Nat /\ a + 1 = d - 1 - j
    BY <1>1
  <2> HIDE DEF a
  <2>2. u \in 0..n - 1 /\ Follow(u, n) = Along(h, a + 1, n)
    BY <1>1, <2>1, AlongFar
  <2>3. b[Along(h, a + 1, n)].dib >= d - j
    BY <1>1, <1>6, <2>1
  <2> HIDE DEF u
  <2>4. Follow(u, n) \in 0..n - 1
    BY <2>2, FarFollow
  <2>5. b[Follow(u, n)].dib <= b[u].dib + 1
    BY <2>2 DEF Table, Smooth
  <2>6. b[u].dib \in Nat /\ b[Follow(u, n)].dib \in Nat
    BY <1>0, <2>2, <2>4, StorageFacts
  <2>7. b[u].dib >= d - (j + 1)
    BY <1>1, <2>2, <2>3, <2>5, <2>6
  <2>8. QED
    BY <2>7 DEF u, a
<1> HIDE DEF T
<1>7. \A j \in Nat : j \in T
  BY <1>5, <1>6, Induction
<1>8. i < d
  BY DEF d
<1>9. d - 1 - i \in Nat
  BY <1>1, <1>8
<1>10. d - 1 - i \in T
  BY <1>7, <1>9
<1>11. b[Along(h, d - 1 - (d - 1 - i), n)].dib >= d - (d - 1 - i)
  BY <1>1, <1>8, <1>9, <1>10 DEF T
<1>12. d - 1 - (d - 1 - i) = i /\ d - (d - 1 - i) = i + 1
  BY <1>1
<1>13. QED
  BY <1>11, <1>12 DEF h

LEMMA FarBelow ==
    ASSUME NEW n \in Nat \ {0}, NEW b, Table(b, n), NEW s \in 0..n - 1, b[s].dib # 0
    PROVE  b[s].dib \in 1..n
<1>1. Far(Hash[b[s].key], s, n) = b[s].dib - 1 /\ b \in Storage(n)
  BY DEF Table, Placed
<1>2. b[s].dib \in Nat /\ Hash[b[s].key] \in Nat
  BY <1>1, StorageFacts, HashFacts
<1>3. Far(Hash[b[s].key], s, n) \in 0..n - 1
  BY <1>2, FarAlong
<1>4. QED
  BY <1>1, <1>2, <1>3

(* A distance is at most the number of entries.                            *)
LEMMA Crowd ==
    ASSUME NEW n \in Nat \ {0}, NEW b, Table(b, n), NEW s \in 0..n - 1
    PROVE  b[s].dib <= Cardinality(InUse(b))
<1>0. b \in Storage(n)
  BY DEF Table
<1>1. CASE b[s].dib = 0
  BY <1>0, <1>1, StorageFacts
<1>2. CASE b[s].dib # 0
  <2> DEFINE h == Hash[b[s].key]
             d == b[s].dib
             f == [i \in 0..d - 1 |-> Along(h, i, n)]
  <2>1. h \in Nat /\ d \in 1..n
    BY <1>0, <1>2, FarBelow, StorageFacts, HashFacts
  <2>2. \A i \in 0..d - 1 : b[Along(h, i, n)].dib >= i + 1
    BY <1>2, <2>1, Chain
  <2> HIDE DEF d, h
  <2>3. \A i \in 0..d - 1 : Along(h, i, n) \in 0..n - 1 /\ Far(h, Along(h, i, n), n) = i
    <3>1. \A i \in 0..d - 1 : i \in Nat /\ i < n
      BY <2>1
    <3>2. QED
      BY <2>1, <3>1, AlongFar
  <2>4. \A i \in 0..d - 1 : Along(h, i, n) \in InUse(b)
    BY <1>0, <2>2, <2>3, StorageFacts
  <2>5. f \in Injection(0..d - 1, InUse(b))
    <3>1. f \in [0..d - 1 -> InUse(b)]
      BY <2>4
    <3>2. \A i, j \in 0..d - 1 : f[i] = f[j] => i = j
      BY <2>3
    <3>3. QED
      BY <3>1, <3>2 DEF Injection, IsInjective
  <2>6. Cardinality(0..d - 1) <= Cardinality(InUse(b))
    BY <1>0, <2>5, StorageFacts, FS_Injection
  <2> DEFINE m == d - 1
  <2>7. m \in Int /\ 0 \in Int /\ ~(0 > m) /\ m - 0 + 1 = d
    BY <2>1
  <2> HIDE DEF m
  <2>8. Cardinality(0..m) = m - 0 + 1
    BY <2>7, FS_Interval
  <2>9. Cardinality(0..d - 1) = d
    BY <2>7, <2>8 DEF m
  <2>10. QED
    BY <2>6, <2>9 DEF d
<1>3. QED
  BY <1>1, <1>2

(* With a free bucket no entry has come all the way round.                 *)
LEMMA NotRound ==
    ASSUME NEW n \in Nat \ {0}, NEW b, Table(b, n), Roomy(b, n), NEW s \in 0..n - 1
    PROVE  b[s].dib < n
<1> SUFFICES ASSUME ~(b[s].dib < n)
             PROVE  FALSE
  OBVIOUS
<1>0. b \in Storage(n)
  BY DEF Table
<1>1. b[s].dib \in Nat /\ b[s].dib # 0
  BY <1>0, StorageFacts
<1>2. b[s].dib = n /\ Hash[b[s].key] \in Nat
  BY <1>0, <1>1, FarBelow, StorageFacts, HashFacts
<1>3. PICK t \in 0..n - 1 : b[t].dib = 0
  BY DEF Roomy
<1> DEFINE i == Far(Hash[b[s].key], t, n)
<1>4. i \in 0..n - 1 /\ Along(Hash[b[s].key], i, n) = t
  BY <1>2, FarAlong
<1> HIDE DEF i
<1>5. b[Along(Hash[b[s].key], i, n)].dib >= i + 1
  BY <1>1, <1>2, <1>4, Chain
<1>6. QED
  BY <1>3, <1>4, <1>5

-------------------------------------------------------------------------------
(* Putting an entry down                                                   *)

(* Entry c may stand at x: it is as far from home as it says, and its key  *)
(* is not in the table.                                                    *)
Fits(b, n, c, x) ==
    /\ c \in Live /\ x \in 0..n - 1
    /\ Far(Hash[c.key], x, n) = c.dib - 1
    /\ \A s \in 0..n - 1 : Follow(s, n) = x => c.dib <= b[s].dib + 1
    /\ \A s \in InUse(b) : b[s].key # c.key

With(b, x, c) == [b EXCEPT ![x] = c]

LEMMA PutDown ==
    ASSUME NEW n \in Nat \ {0}, NEW b, Sound(b, n), NEW c, NEW x, Fits(b, n, c, x), b[x].dib < c.dib
    PROVE  /\ Sound(With(b, x, c), n)
           /\ InUse(With(b, x, c)) = InUse(b) \cup {x}
<1> DEFINE t == With(b, x, c)
<1>0. b \in Storage(n) /\ Placed(b, n) /\ Smooth(b, n) /\ Unique(b)
  BY DEF Sound, Table
<1>1. c \in Live /\ x \in 0..n - 1 /\ c.dib \in Nat /\ c.dib # 0 /\ c \in Bucket
  BY BucketFacts DEF Fits, Bucket
<1>2. t \in Storage(n) /\ t[x] = c /\ \A s \in 0..n - 1 : s # x => t[s] = b[s]
  BY <1>0, <1>1 DEF Storage, With
<1> HIDE DEF t
<1>3. Placed(t, n)
  BY <1>0, <1>1, <1>2 DEF Placed, Fits
<1>4. Smooth(t, n)
  <2> SUFFICES ASSUME NEW s \in 0..n - 1
               PROVE  t[Follow(s, n)].dib <= t[s].dib + 1
    BY DEF Smooth
  <2>1. Follow(s, n) \in 0..n - 1
    BY FarFollow
  <2>2. b[Follow(s, n)].dib <= b[s].dib + 1
    BY <1>0 DEF Smooth
  <2>3. b[s].dib \in Nat /\ b[Follow(s, n)].dib \in Nat /\ b[x].dib \in Nat
    BY <1>0, <1>1, <2>1, StorageFacts
  <2>4. Follow(s, n) = x => c.dib <= b[s].dib + 1
    BY DEF Fits
  <2>5. CASE Follow(s, n) = x
    BY <1>1, <1>2, <2>2, <2>3, <2>4, <2>5
  <2>6. CASE Follow(s, n) # x /\ s = x
    <3>1. t[Follow(s, n)] = b[Follow(s, n)] /\ t[s] = c
      BY <1>2, <2>1, <2>6
    <3>2. b[Follow(s, n)].dib <= b[x].dib + 1
      BY <2>2, <2>6
    <3>3. QED
      BY <1>1, <2>3, <3>1, <3>2
  <2>7. CASE Follow(s, n) # x /\ s # x
    BY <1>2, <2>1, <2>2, <2>7
  <2>8. QED
    BY <2>5, <2>6, <2>7
<1>5. InUse(t) = InUse(b) \cup {x}
  <2>1. InUse(t) = {s \in 0..n - 1 : t[s].dib # 0} /\ InUse(b) = {s \in 0..n - 1 : b[s].dib # 0}
    BY <1>0, <1>2, StorageFacts
  <2>2. QED
    BY <1>1, <1>2, <2>1
<1>6. Unique(t)
  <2>1. InUse(b) \subseteq 0..n - 1
    BY <1>0, StorageFacts
  <2>2. \A s \in InUse(b) : b[s].key # c.key
    BY DEF Fits
  <2>3. QED
    BY <1>0, <1>2, <1>5, <2>1, <2>2 DEF Unique
<1>7. QED
  BY <1>2, <1>3, <1>4, <1>5, <1>6 DEF Sound, Table, t

PairsBut(b, x) == {Pair(b[s]) : s \in InUse(b) \ {x}}

LEMMA PutPairs ==
    ASSUME NEW n \in Nat \ {0}, NEW b \in Storage(n), NEW c \in Live, NEW x \in 0..n - 1
    PROVE  /\ Pairs(With(b, x, c)) = PairsBut(b, x) \cup {Pair(c)}
           /\ x \in InUse(b) => Pairs(b) = PairsBut(b, x) \cup {Pair(b[x])}
           /\ x \notin InUse(b) => Pairs(b) = PairsBut(b, x)
<1> DEFINE t == With(b, x, c)
<1>1. c \in Bucket /\ c.dib # 0
  BY BucketFacts DEF Bucket
<1>2. t \in Storage(n) /\ t[x] = c /\ \A s \in 0..n - 1 : s # x => t[s] = b[s]
  BY <1>1 DEF Storage, With
<1> HIDE DEF t
<1>3. InUse(t) = {s \in 0..n - 1 : t[s].dib # 0} /\ InUse(b) = {s \in 0..n - 1 : b[s].dib # 0}
  BY <1>2, StorageFacts
<1>4. InUse(t) \ {x} = InUse(b) \ {x} /\ x \in InUse(t)
  BY <1>1, <1>2, <1>3
<1>5. \A s \in InUse(b) \ {x} : t[s] = b[s]
  BY <1>2, <1>3
<1>6. Pairs(t) = PairsBut(b, x) \cup {Pair(c)}
  BY <1>2, <1>4, <1>5 DEF Pairs, PairsBut
<1>7. QED
  BY <1>6 DEF Pairs, PairsBut, t

Onward(e) == [e EXCEPT !.dib = @ + 1]

LEMMA OnwardIs ==
    ASSUME NEW e \in Live
    PROVE  /\ Onward(e) \in Live /\ Onward(e).key = e.key /\ Onward(e).dib = e.dib + 1
           /\ Pair(Onward(e)) = Pair(e)
BY DEF Onward, Live, Pair

(* What follows x is fitted by an entry one farther away than what is at x. *)
LEMMA FitsNext ==
    ASSUME NEW n \in Nat \ {0}, NEW t, Table(t, n), NEW e \in Live, NEW x \in 0..n - 1,
           Far(Hash[e.key], x, n) = e.dib - 1, e.dib < n, e.dib <= t[x].dib,
           \A s \in InUse(t) : t[s].key # e.key
    PROVE  Fits(t, n, Onward(e), Follow(x, n))
<1>0. t \in Storage(n)
  BY DEF Table
<1>1. Hash[e.key] \in Nat /\ e.dib \in Nat
  BY BucketFacts, HashFacts
<1>2. /\ Follow(x, n) \in 0..n - 1
      /\ Far(Hash[e.key], Follow(x, n), n) =
             IF Far(Hash[e.key], x, n) = n - 1 THEN 0 ELSE Far(Hash[e.key], x, n) + 1
  BY <1>1, FarFollow
<1>3. Far(Hash[e.key], Follow(x, n), n) = e.dib
  BY <1>1, <1>2
<1>4. ASSUME NEW s \in 0..n - 1, Follow(s, n) = Follow(x, n)
      PROVE  e.dib + 1 <= t[s].dib + 1
  <2>1. s = x
    BY <1>4, FollowDiffers
  <2>2. t[x].dib \in Nat
    BY <1>0, StorageFacts
  <2>3. QED
    BY <1>1, <2>1, <2>2
<1>5. Onward(e) \in Live /\ Onward(e).key = e.key /\ Onward(e).dib = e.dib + 1
  BY OnwardIs
<1>6. Far(Hash[Onward(e).key], Follow(x, n), n) = Onward(e).dib - 1
  BY <1>1, <1>3, <1>5
<1>7. \A s \in 0..n - 1 : Follow(s, n) = Follow(x, n) => Onward(e).dib <= t[s].dib + 1
  BY <1>4, <1>5
<1>8. \A s \in InUse(t) : t[s].key # Onward(e).key
  BY <1>5
<1>9. QED
  BY <1>2, <1>5, <1>6, <1>7, <1>8 DEF Fits

(* The newcomer goes past an entry that is at least as far from home.      *)
LEMMA PassBy ==
    ASSUME NEW n \in Nat \ {0}, NEW b, Sound(b, n), Roomy(b, n),
           NEW c, NEW x, Fits(b, n, c, x), b[x].dib >= c.dib
    PROVE  /\ Fits(b, n, Onward(c), Follow(x, n))
           /\ Pairs(b) \cup {Pair(Onward(c))} = Pairs(b) \cup {Pair(c)}
<1>1. Table(b, n) /\ b \in Storage(n) /\ c \in Live /\ x \in 0..n - 1
  BY DEF Sound, Table, Fits
<1>2. b[x].dib < n /\ b[x].dib \in Nat /\ c.dib \in Nat
  BY <1>1, NotRound, StorageFacts, BucketFacts
<1>3. c.dib < n /\ c.dib <= b[x].dib
  BY <1>2
<1>4. Far(Hash[c.key], x, n) = c.dib - 1 /\ \A s \in InUse(b) : b[s].key # c.key
  BY DEF Fits
<1>5. QED
  BY <1>1, <1>3, <1>4, FitsNext, OnwardIs

(* It takes the place of one that is nearer, which has to move on.         *)
LEMMA Displace ==
    ASSUME NEW n \in Nat \ {0}, NEW b, Sound(b, n),
           NEW c, NEW x, Fits(b, n, c, x), b[x].dib # 0, b[x].dib < c.dib
    PROVE  /\ Sound(With(b, x, c), n) /\ InUse(With(b, x, c)) = InUse(b)
           /\ Fits(With(b, x, c), n, Onward(b[x]), Follow(x, n))
           /\ Pairs(With(b, x, c)) \cup {Pair(Onward(b[x]))} = Pairs(b) \cup {Pair(c)}
<1> DEFINE t == With(b, x, c)
           e == b[x]
<1>1. Table(b, n) /\ b \in Storage(n) /\ c \in Live /\ x \in 0..n - 1
  BY DEF Sound, Table, Fits
<1>2. e \in Live /\ x \in InUse(b) /\ e.dib \in Nat /\ c.dib \in Nat
  BY <1>1, StorageFacts, BucketFacts
<1>3. Sound(t, n) /\ InUse(t) = InUse(b)
  BY <1>2, PutDown
<1>4. Pairs(t) \cup {Pair(Onward(e))} = Pairs(b) \cup {Pair(c)}
  BY <1>1, <1>2, PutPairs, OnwardIs
<1>5. t[x] = c /\ \A s \in 0..n - 1 : s # x => t[s] = b[s]
  BY <1>1 DEF Storage, With
<1> HIDE DEF t
<1>6. Far(Hash[e.key], x, n) = e.dib - 1
  BY <1>1 DEF Table, Placed
<1>7. e.dib < n
  <2>1. Hash[c.key] \in Nat
    BY <1>1, BucketFacts, HashFacts
  <2>2. c.dib - 1 \in 0..n - 1
    BY <1>1, <2>1, FarAlong DEF Fits
  <2>3. QED
    BY <1>2, <2>2
<1>8. ASSUME NEW s \in InUse(t), t[s].key = e.key
      PROVE  FALSE
  <2>1. s \in InUse(b) /\ s \in 0..n - 1 /\ e.key # c.key
    BY <1>1, <1>2, <1>3, <1>8, StorageFacts DEF Fits
  <2>2. s # x
    BY <1>5, <1>8, <2>1
  <2>3. b[s].key = b[x].key
    BY <1>5, <1>8, <2>1, <2>2
  <2>4. QED
    BY <1>2, <2>1, <2>2, <2>3 DEF Sound, Unique
<1>9. e.dib <= t[x].dib
  BY <1>2, <1>5
<1>10. Table(t, n)
  BY <1>3 DEF Sound
<1>11. Fits(t, n, Onward(e), Follow(x, n))
  <2> HIDE DEF e
  <2>1. QED
    BY <1>1, <1>2, <1>6, <1>7, <1>8, <1>9, <1>10, FitsNext
<1>12. QED
  BY <1>3, <1>4, <1>11 DEF t

-------------------------------------------------------------------------------
(* The loop of internal_insert                                             *)

(* What the equations of a recursive function say when they hold.          *)
LEMMA Unrolled ==
    ASSUME NEW N \in Nat, NEW D, NEW base \in D, NEW step \in Steps(N, D), NEW g,
           DOMAIN g = 0..N, g = [k \in 0..N |-> g[k]], g[0] = base,
           \A k \in 1..N : g[k - 1] \in D => g[k] = step[k][g[k - 1]]
    PROVE  Follows(g, N, D, base, step)
<1> DEFINE T == {k \in Nat : k <= N => g[k] \in D}
<1>1. 0 \in T
  OBVIOUS
<1>2. ASSUME NEW k \in Nat, k \in T
      PROVE  k + 1 \in T
  <2> SUFFICES ASSUME k + 1 <= N
               PROVE  g[k + 1] \in D
    OBVIOUS
  <2>1. k + 1 \in 1..N /\ (k + 1) - 1 = k /\ g[k] \in D
    BY <1>2
  <2>2. g[k + 1] = step[k + 1][g[k]]
    BY <2>1
  <2>3. QED
    BY <2>1, <2>2 DEF Steps
<1> HIDE DEF T
<1>3. \A k \in Nat : k \in T
  BY <1>1, <1>2, Induction
<1>4. \A k \in 0..N : g[k] \in D
  BY <1>3 DEF T
<1>5. g \in [0..N -> D]
  BY <1>4
<1>6. ASSUME NEW k \in 1..N
      PROVE  g[k] = step[k][g[k - 1]]
  <2>1. k - 1 \in 0..N
    OBVIOUS
  <2>2. QED
    BY <1>4, <2>1
<1>7. QED
  BY <1>5, <1>6 DEF Follows

LoopEnds == {"none", "placed", "far"}
Loops(n) == [table : Storage(n), slot : 0..n - 1, tmp : Live, end : LoopEnds]
Started(b, x, c) == [table |-> b, slot |-> x, tmp |-> c, end |-> "none"]

Swaps(l) == l.table[l.slot].dib < l.tmp.dib
Kept(l) == IF Swaps(l) THEN l.tmp ELSE l.table[l.slot]
Moved(l) == IF Swaps(l) THEN l.table[l.slot] ELSE l.tmp
Laid(l, e) == With(l.table, l.slot, e)

LEMMA LoopFacts ==
    ASSUME NEW n \in Nat \ {0}, NEW l \in Loops(n)
    PROVE  /\ l.table \in Storage(n) /\ l.slot \in 0..n - 1 /\ l.tmp \in Live /\ l.end \in LoopEnds
           /\ l.table[l.slot] \in Bucket /\ l.tmp \in Bucket
           /\ l = [table |-> l.table, slot |-> l.slot, tmp |-> l.tmp, end |-> l.end]
BY DEF Loops, Storage, Bucket

(* A turn, field by field.                                                 *)
LEMMA TurnIs ==
    ASSUME NEW n \in Nat \ {0}, NEW l \in Loops(n), l.end = "none"
    PROVE  /\ l.table[l.slot].dib = 0 =>
                  Turn(l) = [table |-> Laid(l, l.tmp), slot |-> l.slot, tmp |-> l.tmp,
                             end |-> "placed"]
           /\ (l.table[l.slot].dib # 0 /\ Moved(l).dib >= kMaxDistance - 1) =>
                  Turn(l) = [table |-> l.table, slot |-> l.slot, tmp |-> l.tmp, end |-> "far"]
           /\ (l.table[l.slot].dib # 0 /\ ~(Moved(l).dib >= kMaxDistance - 1)) =>
                  Turn(l) = [table |-> Laid(l, Kept(l)), slot |-> Follow(l.slot, n),
                             tmp |-> Onward(Moved(l)), end |-> "none"]
<1>1. l = [table |-> l.table, slot |-> l.slot, tmp |-> l.tmp, end |-> l.end]
  BY LoopFacts
<1>2. After(l.table, l.slot) = Follow(l.slot, n)
  <2>1. Size(l.table) = n
    BY LoopFacts, StorageFacts
  <2>2. QED
    BY <2>1 DEF After, Follow
<1>3. CASE l.table[l.slot].dib = 0
  <2>1. Turn(l) = [l EXCEPT !.table[l.slot] = l.tmp, !.end = "placed"]
    BY <1>3 DEF Turn
  <2>2. QED
    BY <1>1, <1>3, <2>1 DEF Laid, With
<1>4. CASE l.table[l.slot].dib # 0 /\ Moved(l).dib >= kMaxDistance - 1
  <2>1. Turn(l) = [l EXCEPT !.end = "far"]
    BY <1>4 DEF Turn, Moved, Swaps
  <2>2. QED
    BY <1>1, <1>4, <2>1
<1>5. CASE l.table[l.slot].dib # 0 /\ ~(Moved(l).dib >= kMaxDistance - 1)
  <2>1. Turn(l) = [l EXCEPT !.table[l.slot] = Kept(l), !.slot = After(l.table, l.slot),
                            !.tmp = Onward(Moved(l))]
    BY <1>5 DEF Turn, Moved, Kept, Swaps, Onward
  <2>2. QED
    BY <1>1, <1>2, <1>5, <2>1 DEF Laid, With
<1>6. QED
  BY <1>3, <1>4, <1>5

LEMMA TurnStays ==
    ASSUME NEW l, l.end # "none"
    PROVE  Turn(l) = l
BY DEF Turn

LEMMA TurnType ==
    ASSUME NEW n \in Nat \ {0}, NEW l \in Loops(n)
    PROVE  Turn(l) \in Loops(n)
<1>1. CASE l.end # "none"
  BY <1>1, TurnStays
<1>2. CASE l.end = "none"
  <2>1. /\ l.table \in Storage(n) /\ l.slot \in 0..n - 1 /\ l.tmp \in Live
        /\ l.table[l.slot] \in Bucket /\ l.tmp \in Bucket
    BY LoopFacts
  <2>2. \A e \in Bucket : Laid(l, e) \in Storage(n)
    BY <2>1 DEF Laid, Storage, With
  <2>3. Follow(l.slot, n) \in 0..n - 1
    BY <2>1, FarFollow
  <2>4. l.table[l.slot].dib # 0 => Moved(l) \in Live /\ Onward(Moved(l)) \in Live
    BY <2>1, BucketFacts, OnwardIs DEF Moved
  <2>5. Kept(l) \in Bucket
    BY <2>1 DEF Kept
  <2>6. CASE l.table[l.slot].dib = 0
    <3>1. Turn(l) = [table |-> Laid(l, l.tmp), slot |-> l.slot, tmp |-> l.tmp, end |-> "placed"]
      BY <1>2, <2>6, TurnIs
    <3>2. QED
      BY <2>1, <2>2, <3>1 DEF Loops, LoopEnds
  <2>7. CASE l.table[l.slot].dib # 0 /\ Moved(l).dib >= kMaxDistance - 1
    <3>1. Turn(l) = [table |-> l.table, slot |-> l.slot, tmp |-> l.tmp, end |-> "far"]
      BY <1>2, <2>7, TurnIs
    <3>2. QED
      BY <2>1, <3>1 DEF Loops, LoopEnds
  <2>8. CASE l.table[l.slot].dib # 0 /\ ~(Moved(l).dib >= kMaxDistance - 1)
    <3>1. Turn(l) = [table |-> Laid(l, Kept(l)), slot |-> Follow(l.slot, n),
                     tmp |-> Onward(Moved(l)), end |-> "none"]
      BY <1>2, <2>8, TurnIs
    <3>2. QED
      BY <2>2, <2>3, <2>4, <2>5, <2>8, <3>1 DEF Loops, LoopEnds
  <2>9. QED
    BY <2>6, <2>7, <2>8
<1>3. QED
  BY <1>1, <1>2

LEMMA TurnsDef ==
    ASSUME NEW n \in Nat \ {0}, NEW b \in Storage(n), NEW x \in 0..n - 1, NEW c \in Live
    PROVE  /\ \A i \in 0..n : Turns(b, x, c)[i] \in Loops(n)
           /\ Turns(b, x, c)[0] = Started(b, x, c)
           /\ \A i \in 1..n : Turns(b, x, c)[i] = Turn(Turns(b, x, c)[i - 1])
<1> DEFINE D == Loops(n)
           base == Started(b, x, c)
           step == [k \in 1..n |-> [l \in D |-> Turn(l)]]
           Is(f) == f = [i \in 0..n |-> IF i = 0 THEN base ELSE Turn(f[i - 1])]
<1>0. Size(b) = n
  BY StorageFacts
<1>1. step \in Steps(n, D)
  <2>1. \A l \in D : Turn(l) \in D
    BY TurnType
  <2> HIDE DEF D
  <2>2. QED
    BY <2>1 DEF Steps
<1>2. base \in D
  BY DEF Loops, Started, LoopEnds
<1>3. \A k \in 1..n : \A l \in D : step[k][l] = Turn(l)
  <2> HIDE DEF D
  <2>1. QED
    OBVIOUS
<1> HIDE DEF step, D, base
<1>4. PICK f : Follows(f, n, D, base, step)
  BY <1>1, <1>2, Recursion
<1>5. Is(f)
  <2>1. \A k \in 1..n : f[k] = Turn(f[k - 1])
    <3>1. \A k \in 1..n : k - 1 \in 0..n
      OBVIOUS
    <3>2. QED
      BY <1>3, <1>4, <3>1 DEF Follows
  <2>2. \A k \in 0..n : f[k] = IF k = 0 THEN base ELSE Turn(f[k - 1])
    <3>1. \A k \in 0..n : k = 0 \/ k \in 1..n
      OBVIOUS
    <3>2. QED
      BY <1>4, <2>1, <3>1 DEF Follows
  <2>3. f = [k \in 0..n |-> f[k]]
    BY <1>4 DEF Follows
  <2>4. QED
    BY <2>2, <2>3
<1> DEFINE g == Turns(b, x, c)
<1>6. Is(g)
  <2>1. g = CHOOSE h : Is(h)
    BY <1>0 DEF Turns, base, Started
  <2> HIDE DEF Is, g
  <2>2. QED
    BY <1>5, <2>1
<1> HIDE DEF g
<1>7. /\ DOMAIN g = 0..n /\ g = [k \in 0..n |-> g[k]] /\ g[0] = base
      /\ \A k \in 1..n : g[k] = Turn(g[k - 1])
  BY <1>6
<1>8. Follows(g, n, D, base, step)
  BY <1>1, <1>2, <1>3, <1>7, Unrolled
<1>9. \A i \in 0..n : g[i] \in D
  BY <1>8 DEF Follows
<1>10. QED
  BY <1>7, <1>9 DEF g, D, base

(* What the loop has done to table b and entry c, as long as it goes on    *)
(* and when it has ended.                                                  *)
Going(l, b, c, n) ==
    /\ Sound(l.table, n) /\ Fits(l.table, n, l.tmp, l.slot)
    /\ InUse(l.table) = InUse(b)
    /\ Pairs(l.table) \cup {Pair(l.tmp)} = Pairs(b) \cup {Pair(c)}

Done(t, b, c, n) ==
    /\ Sound(t, n)
    /\ \E y \in (0..n - 1) \ InUse(b) : InUse(t) = InUse(b) \cup {y}
    /\ Pairs(t) = Pairs(b) \cup {Pair(c)}

Crowded(b) == Cardinality(InUse(b)) >= kMaxDistance - 1

Inserting(l, b, c, n) ==
    /\ l.end = "none" => Going(l, b, c, n)
    /\ l.end = "placed" => Done(l.table, b, c, n)
    /\ l.end = "far" => Crowded(b)

LEMMA GoingEnds ==
    ASSUME NEW n \in Nat \ {0}, NEW b, NEW c, NEW t, NEW e, NEW x,
           Sound(t, n), Fits(t, n, e, x), t[x].dib = 0,
           InUse(t) = InUse(b), Pairs(t) \cup {Pair(e)} = Pairs(b) \cup {Pair(c)}
    PROVE  Done(With(t, x, e), b, c, n)
<1>1. t \in Storage(n) /\ e \in Live /\ x \in 0..n - 1 /\ t[x].dib < e.dib
  BY BucketFacts DEF Sound, Table, Fits
<1>2. x \in (0..n - 1) \ InUse(t)
  BY <1>1, StorageFacts
<1>3. Sound(With(t, x, e), n) /\ InUse(With(t, x, e)) = InUse(t) \cup {x}
  BY <1>1, PutDown
<1>4. Pairs(With(t, x, e)) = Pairs(t) \cup {Pair(e)}
  BY <1>1, <1>2, PutPairs
<1>5. QED
  BY <1>2, <1>3, <1>4 DEF Done

LEMMA GoingOver ==
    ASSUME NEW n \in Nat \ {0}, NEW b, NEW c, NEW t, NEW e, NEW x,
           Sound(t, n), Fits(t, n, e, x), t[x].dib # 0, t[x].dib < e.dib,
           InUse(t) = InUse(b), Pairs(t) \cup {Pair(e)} = Pairs(b) \cup {Pair(c)},
           NEW l, l.table = With(t, x, e), l.slot = Follow(x, n), l.tmp = Onward(t[x])
    PROVE  Going(l, b, c, n)
<1>1. /\ Sound(l.table, n) /\ InUse(l.table) = InUse(t)
      /\ Fits(l.table, n, l.tmp, l.slot)
      /\ Pairs(l.table) \cup {Pair(l.tmp)} = Pairs(t) \cup {Pair(e)}
  BY Displace
<1>2. QED
  BY <1>1 DEF Going

LEMMA GoingPast ==
    ASSUME NEW n \in Nat \ {0}, NEW b, NEW c, NEW t, NEW e, NEW x,
           Sound(t, n), Roomy(t, n), Fits(t, n, e, x), t[x].dib >= e.dib,
           InUse(t) = InUse(b), Pairs(t) \cup {Pair(e)} = Pairs(b) \cup {Pair(c)},
           NEW l, l.table = t, l.slot = Follow(x, n), l.tmp = Onward(e)
    PROVE  Going(l, b, c, n)
<1>1. /\ Fits(t, n, Onward(e), Follow(x, n))
      /\ Pairs(t) \cup {Pair(Onward(e))} = Pairs(t) \cup {Pair(e)}
  BY PassBy
<1>2. QED
  BY <1>1 DEF Going

LEMMA InsertingKept ==
    ASSUME NEW n \in Nat \ {0}, NEW b \in Storage(n), Roomy(b, n), NEW c,
           NEW l \in Loops(n), Inserting(l, b, c, n)
    PROVE  Inserting(Turn(l), b, c, n)
<1>1. CASE l.end # "none"
  BY <1>1, TurnStays
<1>2. CASE l.end = "none"
  <2> DEFINE t == l.table
             x == l.slot
             e == l.tmp
  <2>1. Sound(t, n) /\ Fits(t, n, e, x) /\ InUse(t) = InUse(b)
    BY <1>2 DEF Inserting, Going
  <2>2. Pairs(t) \cup {Pair(e)} = Pairs(b) \cup {Pair(c)}
    BY <1>2 DEF Inserting, Going
  <2>3. /\ Table(t, n) /\ t \in Storage(n) /\ e \in Live /\ x \in 0..n - 1
        /\ t[x].dib \in Nat /\ e.dib \in Nat /\ e.dib # 0
    BY <2>1, StorageFacts, BucketFacts DEF Sound, Table, Fits
  <2>4. Roomy(t, n)
    <3>1. \A s \in 0..n - 1 : b[s].dib = 0 <=> s \notin InUse(b)
      BY StorageFacts
    <3>2. \A s \in 0..n - 1 : t[s].dib = 0 <=> s \notin InUse(t)
      BY <2>3, StorageFacts
    <3>3. QED
      BY <2>1, <3>1, <3>2 DEF Roomy
  <2>5. CASE t[x].dib = 0
    <3>1. Turn(l) = [table |-> Laid(l, e), slot |-> x, tmp |-> e, end |-> "placed"]
      BY <1>2, <2>5, TurnIs
    <3>2. Laid(l, e) = With(t, x, e)
      BY DEF Laid
    <3> HIDE DEF t, x, e
    <3>3. Done(With(t, x, e), b, c, n)
      BY <2>1, <2>2, <2>5, GoingEnds
    <3>4. QED
      BY <3>1, <3>2, <3>3 DEF Inserting
  <2>6. CASE t[x].dib # 0 /\ Moved(l).dib >= kMaxDistance - 1
    <3>1. Turn(l) = [table |-> t, slot |-> x, tmp |-> e, end |-> "far"]
      BY <1>2, <2>6, TurnIs
    <3>2. Moved(l).dib \in Nat /\ Moved(l).dib <= t[x].dib
      BY <2>3 DEF Moved, Swaps
    <3>3. t[x].dib <= Cardinality(InUse(t))
      BY <2>3, Crowd
    <3>4. Cardinality(InUse(t)) \in Nat /\ kMaxDistance \in Nat
      BY <2>3, StorageFacts, MapConstants
    <3>5. Crowded(b)
      <4> HIDE DEF t, x
      <4>1. QED
        BY <2>1, <2>3, <2>6, <3>2, <3>3, <3>4 DEF Crowded
    <3>6. QED
      BY <3>1, <3>5 DEF Inserting
  <2>7. CASE t[x].dib # 0 /\ ~(Moved(l).dib >= kMaxDistance - 1)
    <3>1. Turn(l) = [table |-> Laid(l, Kept(l)), slot |-> Follow(x, n),
                     tmp |-> Onward(Moved(l)), end |-> "none"]
      BY <1>2, <2>7, TurnIs
    <3>2. CASE Swaps(l)
      <4>1. Kept(l) = e /\ Moved(l) = t[x] /\ t[x].dib < e.dib /\ Laid(l, e) = With(t, x, e)
        BY <3>2 DEF Kept, Moved, Swaps, Laid
      <4>2. /\ Turn(l).table = With(t, x, e) /\ Turn(l).slot = Follow(x, n)
            /\ Turn(l).tmp = Onward(t[x]) /\ Turn(l).end = "none"
        BY <3>1, <4>1
      <4> HIDE DEF t, x, e
      <4>3. Going(Turn(l), b, c, n)
        BY <2>1, <2>2, <2>7, <4>1, <4>2, GoingOver
      <4>4. QED
        BY <4>2, <4>3 DEF Inserting
    <3>3. CASE ~Swaps(l)
      <4>1. Kept(l) = t[x] /\ Moved(l) = e /\ ~(t[x].dib < e.dib)
        BY <3>3 DEF Kept, Moved, Swaps
      <4>2. Laid(l, Kept(l)) = t
        BY <2>3, <4>1 DEF Laid, Storage, With
      <4> HIDE DEF t, x, e
      <4>3. t[x].dib >= e.dib
        BY <2>3, <4>1
      <4>4. /\ Turn(l).table = t /\ Turn(l).slot = Follow(x, n)
            /\ Turn(l).tmp = Onward(e) /\ Turn(l).end = "none"
        BY <3>1, <4>1, <4>2
      <4>5. Going(Turn(l), b, c, n)
        BY <2>1, <2>2, <2>4, <4>3, <4>4, GoingPast
      <4>6. QED
        BY <4>4, <4>5 DEF Inserting
    <3>4. QED
      BY <3>2, <3>3
  <2>8. QED
    BY <2>5, <2>6, <2>7
<1>3. QED
  BY <1>1, <1>2

LEMMA InsertingAlways ==
    ASSUME NEW n \in Nat \ {0}, NEW b, Sound(b, n), Roomy(b, n), NEW c, NEW x, Fits(b, n, c, x)
    PROVE  \A i \in 0..n : Inserting(Turns(b, x, c)[i], b, c, n)
<1> DEFINE g == Turns(b, x, c)
           T == {i \in Nat : i <= n => Inserting(g[i], b, c, n)}
<1>0. b \in Storage(n) /\ x \in 0..n - 1 /\ c \in Live
  BY DEF Sound, Table, Fits
<1>1. /\ \A i \in 0..n : g[i] \in Loops(n)
      /\ g[0] = Started(b, x, c)
      /\ \A i \in 1..n : g[i] = Turn(g[i - 1])
  BY <1>0, TurnsDef
<1> HIDE DEF g
<1>2. 0 \in T
  <2>1. Inserting(Started(b, x, c), b, c, n)
    BY DEF Inserting, Started, Going
  <2>2. QED
    BY <1>1, <2>1
<1>3. ASSUME NEW i \in Nat, i \in T
      PROVE  i + 1 \in T
  <2> SUFFICES ASSUME i + 1 <= n
               PROVE  Inserting(g[i + 1], b, c, n)
    OBVIOUS
  <2>1. i \in 0..n /\ i + 1 \in 1..n /\ (i + 1) - 1 = i /\ Inserting(g[i], b, c, n)
    BY <1>3
  <2>2. g[i + 1] = Turn(g[i]) /\ g[i] \in Loops(n)
    BY <1>1, <2>1
  <2>3. QED
    BY <1>0, <2>1, <2>2, InsertingKept
<1> HIDE DEF T
<1>4. \A i \in Nat : i \in T
  BY <1>2, <1>3, Induction
<1>5. QED
  BY <1>4 DEF T, g

LEMMA AlongZero ==
    ASSUME NEW n \in Nat \ {0}, NEW x \in 0..n - 1
    PROVE  Along(x, 0, n) = x
BY ModSmall DEF Along

(* One bucket after the other, all of them in use.                         *)
Passed(x, i, b, n) == \A j \in 0..i - 1 : Along(x, j, n) \in InUse(b)

LEMMA PassedNext ==
    ASSUME NEW n \in Nat \ {0}, NEW x \in 0..n - 1, NEW b, NEW i \in Nat,
           Passed(x, i, b, n), Along(x, i, n) \in InUse(b)
    PROVE  Passed(x, i + 1, b, n)
<1>1. \A j \in 0..(i + 1) - 1 : j = i \/ j \in 0..i - 1
  OBVIOUS
<1>2. QED
  BY <1>1 DEF Passed

LEMMA AllPassed ==
    ASSUME NEW n \in Nat \ {0}, NEW x \in 0..n - 1, NEW b \in Storage(n), Roomy(b, n)
    PROVE  ~Passed(x, n, b, n)
<1>1. PICK s \in 0..n - 1 : b[s].dib = 0
  BY DEF Roomy
<1>2. Far(x, s, n) \in 0..n - 1 /\ Along(x, Far(x, s, n), n) = s
  BY FarAlong
<1>3. s \notin InUse(b)
  BY <1>1 DEF InUse
<1>4. QED
  BY <1>2, <1>3 DEF Passed

(* What the loop does in one turn when it does not end.                    *)
LEMMA TurnSteps ==
    ASSUME NEW n \in Nat \ {0}, NEW l \in Loops(n), Turn(l).end = "none"
    PROVE  /\ l.end = "none" /\ l.slot \in InUse(l.table) /\ Turn(l).slot = Follow(l.slot, n)
<1>1. l.end = "none"
  BY TurnStays
<1>2. l.table[l.slot].dib # 0
  BY <1>1, TurnIs
<1>3. ~(Moved(l).dib >= kMaxDistance - 1)
  BY <1>1, <1>2, TurnIs
<1>4. Turn(l).slot = Follow(l.slot, n)
  BY <1>1, <1>2, <1>3, TurnIs
<1>5. l.slot \in InUse(l.table)
  BY <1>2, LoopFacts, StorageFacts
<1>6. QED
  BY <1>1, <1>4, <1>5

LEMMA InsertWalks ==
    ASSUME NEW n \in Nat \ {0}, NEW b, Sound(b, n), Roomy(b, n), NEW c, NEW x, Fits(b, n, c, x)
    PROVE  \A i \in 0..n : Turns(b, x, c)[i].end = "none" =>
               Turns(b, x, c)[i].slot = Along(x, i, n) /\ Passed(x, i, b, n)
<1> DEFINE g == Turns(b, x, c)
           T == {i \in Nat : (i <= n /\ g[i].end = "none") =>
                                 g[i].slot = Along(x, i, n) /\ Passed(x, i, b, n)}
<1>0. b \in Storage(n) /\ x \in 0..n - 1 /\ c \in Live
  BY DEF Sound, Table, Fits
<1>1. /\ \A i \in 0..n : g[i] \in Loops(n)
      /\ g[0] = Started(b, x, c)
      /\ \A i \in 1..n : g[i] = Turn(g[i - 1])
  BY <1>0, TurnsDef
<1>2. \A i \in 0..n : Inserting(g[i], b, c, n)
  BY InsertingAlways
<1> HIDE DEF g
<1>3. 0 \in T
  <2>1. g[0].slot = Along(x, 0, n)
    BY <1>0, <1>1, AlongZero DEF Started
  <2>2. Passed(x, 0, b, n)
    BY DEF Passed
  <2>3. QED
    BY <2>1, <2>2
<1>4. ASSUME NEW i \in Nat, i \in T
      PROVE  i + 1 \in T
  <2> SUFFICES ASSUME i + 1 <= n, g[i + 1].end = "none"
               PROVE  g[i + 1].slot = Along(x, i + 1, n) /\ Passed(x, i + 1, b, n)
    OBVIOUS
  <2>1. i \in 0..n /\ i + 1 \in 1..n /\ (i + 1) - 1 = i
    OBVIOUS
  <2>2. g[i + 1] = Turn(g[i]) /\ g[i] \in Loops(n)
    BY <1>1, <2>1
  <2>3. /\ g[i].end = "none" /\ g[i].slot \in InUse(g[i].table)
        /\ g[i + 1].slot = Follow(g[i].slot, n)
    BY <2>2, TurnSteps
  <2>4. InUse(g[i].table) = InUse(b)
    BY <1>2, <2>1, <2>3 DEF Inserting, Going
  <2>5. g[i].slot = Along(x, i, n) /\ Passed(x, i, b, n)
    BY <1>4, <2>1, <2>3
  <2>6. Follow(Along(x, i, n), n) = Along(x, i + 1, n)
    BY <1>0, AlongFar
  <2>7. QED
    BY <1>0, <2>3, <2>4, <2>5, <2>6, PassedNext
<1> HIDE DEF T
<1>5. \A i \in Nat : i \in T
  BY <1>3, <1>4, Induction
<1>6. QED
  BY <1>5 DEF T, g

(* What internal_insert comes to: the entry is in, or the table is crowded. *)
LEMMA InsertEnds ==
    ASSUME NEW n \in Nat \ {0}, NEW b, Sound(b, n), Roomy(b, n), NEW c, NEW x, Fits(b, n, c, x)
    PROVE  LET last == Turns(b, x, c)[n]
           IN  /\ last.end = "placed" => Done(last.table, b, c, n)
               /\ last.end # "placed" => Crowded(b)
<1> DEFINE last == Turns(b, x, c)[n]
<1>0. b \in Storage(n) /\ x \in 0..n - 1 /\ c \in Live /\ n \in 0..n
  BY DEF Sound, Table, Fits
<1>1. last \in Loops(n)
  BY <1>0, TurnsDef
<1>2. Inserting(last, b, c, n)
  BY <1>0, InsertingAlways
<1>3. last.end = "none" => Passed(x, n, b, n)
  BY <1>0, InsertWalks
<1>4. last.end # "none"
  BY <1>0, <1>3, AllPassed
<1> HIDE DEF last
<1>5. last.end \in {"placed", "far"}
  BY <1>1, <1>4, LoopFacts DEF LoopEnds
<1>6. QED
  BY <1>2, <1>5 DEF Inserting, last

LEMMA InsertDef ==
    ASSUME NEW n \in Nat \ {0}, NEW b \in Storage(n), NEW x, NEW c
    PROVE  internal_insert(b, x, c) =
               {t \in {Turns(b, x, c)[n].table} : Turns(b, x, c)[n].end = "placed"}
<1>1. Size(b) = n
  BY StorageFacts
<1>2. QED
  BY <1>1 DEF internal_insert

LEMMA InsertIs ==
    ASSUME NEW n \in Nat \ {0}, NEW b, Sound(b, n), Roomy(b, n), NEW c, NEW x, Fits(b, n, c, x)
    PROVE  /\ \A t \in internal_insert(b, x, c) : Done(t, b, c, n)
           /\ internal_insert(b, x, c) = {} => Crowded(b)
<1>1. b \in Storage(n)
  BY DEF Sound, Table
<1>2. QED
  BY <1>1, InsertDef, InsertEnds

LEMMA WithFacts ==
    ASSUME NEW n \in Nat \ {0}, NEW b \in Storage(n), NEW x \in 0..n - 1, NEW e \in Bucket
    PROVE  /\ With(b, x, e) \in Storage(n) /\ With(b, x, e)[x] = e
           /\ \A s \in 0..n - 1 : s # x => With(b, x, e)[s] = b[s]
BY DEF With, Storage

LEMMA WithSwap ==
    ASSUME NEW n \in Nat \ {0}, NEW b \in Storage(n), NEW x \in 0..n - 1, NEW y \in 0..n - 1,
           x # y, NEW e \in Bucket, NEW f \in Bucket
    PROVE  With(With(b, x, e), y, f) = With(With(b, y, f), x, e)
BY DEF With, Storage

(* Two loops that differ in a slot they do not look at go on differing.    *)
Beside(l, m, p, e) ==
    l.table = With(m.table, p, e) /\ l.slot = m.slot /\ l.tmp = m.tmp /\ l.end = m.end

LEMMA BesideTurn ==
    ASSUME NEW n \in Nat \ {0}, NEW l \in Loops(n), NEW m \in Loops(n), NEW p \in 0..n - 1,
           NEW e \in Bucket, Beside(l, m, p, e), l.end = "none" => l.slot # p
    PROVE  Beside(Turn(l), Turn(m), p, e)
<1>1. CASE l.end # "none"
  BY <1>1, TurnStays DEF Beside
<1>2. CASE l.end = "none"
  <2> DEFINE x == l.slot
  <2>1. /\ x \in 0..n - 1 /\ x # p /\ m.slot = x /\ m.tmp = l.tmp /\ m.end = "none"
        /\ l.tmp \in Bucket /\ m.table \in Storage(n) /\ l.table = With(m.table, p, e)
    BY <1>2, LoopFacts DEF Beside
  <2>2. l.table[x] = m.table[x] /\ m.table[x] \in Bucket
    <3>1. \A s \in 0..n - 1 : s # p => With(m.table, p, e)[s] = m.table[s]
      BY <2>1, WithFacts
    <3>2. \A s \in 0..n - 1 : m.table[s] \in Bucket
      BY <2>1, StorageFacts
    <3> HIDE DEF x
    <3>3. QED
      BY <2>1, <3>1, <3>2
  <2>3. Moved(l) = Moved(m) /\ Kept(l) = Kept(m) /\ Kept(m) \in Bucket
    BY <2>1, <2>2 DEF Moved, Kept, Swaps
  <2>4. \A f \in Bucket : Laid(l, f) = With(Laid(m, f), p, e)
    <3> HIDE DEF x
    <3>1. \A f \in Bucket : With(With(m.table, p, e), x, f) = With(With(m.table, x, f), p, e)
      BY <2>1, WithSwap
    <3>2. QED
      BY <2>1, <3>1 DEF Laid, x
  <2>5. CASE l.table[l.slot].dib = 0
    BY <1>2, <2>1, <2>2, <2>4, <2>5, TurnIs DEF Beside
  <2>6. CASE l.table[l.slot].dib # 0 /\ Moved(l).dib >= kMaxDistance - 1
    BY <1>2, <2>1, <2>2, <2>3, <2>6, TurnIs DEF Beside
  <2>7. CASE l.table[l.slot].dib # 0 /\ ~(Moved(l).dib >= kMaxDistance - 1)
    BY <1>2, <2>1, <2>2, <2>3, <2>4, <2>7, TurnIs DEF Beside
  <2>8. QED
    BY <2>5, <2>6, <2>7
<1>3. QED
  BY <1>1, <1>2

(* A walk that starts after p does not come back to p before it has seen   *)
(* every other slot.                                                       *)
LEMMA PassedAll ==
    ASSUME NEW n \in Nat \ {0}, NEW p \in 0..n - 1, NEW b \in Storage(n), Roomy(b, n),
           p \in InUse(b), NEW i \in Nat, i < n, Passed(Follow(p, n), i, b, n)
    PROVE  Along(Follow(p, n), i, n) # p
<1> SUFFICES ASSUME Along(Follow(p, n), i, n) = p
             PROVE  FALSE
  OBVIOUS
<1> DEFINE x == Follow(p, n)
<1>1. x \in 0..n - 1
  BY FarFollow
<1>2. Far(x, x, n) = 0
  <2>1. Along(x, 0, n) = x /\ x \in Nat
    BY <1>1, AlongZero
  <2> HIDE DEF x
  <2> DEFINE z == 0
  <2>2. z \in Nat /\ z < n
    OBVIOUS
  <2> HIDE DEF z
  <2>3. Far(x, Along(x, z, n), n) = z
    BY <2>1, <2>2, AlongFar
  <2>4. QED
    BY <2>1, <2>3 DEF z
<1>3. Far(x, p, n) = n - 1
  <2>1. Far(x, x, n) = IF Far(x, p, n) = n - 1 THEN 0 ELSE Far(x, p, n) + 1
    BY <1>1, FarFollow
  <2>2. Far(x, p, n) \in 0..n - 1
    BY <1>1, FarAlong
  <2>3. QED
    BY <1>2, <2>1, <2>2
<1>4. i = n - 1
  <2> HIDE DEF x
  <2>1. Far(x, Along(x, i, n), n) = i
    BY <1>1, AlongFar
  <2>2. QED
    BY <1>3, <2>1 DEF x
<1>5. Passed(x, i + 1, b, n)
  BY <1>1, PassedNext
<1>6. i + 1 = n
  BY <1>4
<1>7. QED
  <2> HIDE DEF x
  <2>1. QED
    BY <1>1, <1>5, <1>6, AllPassed

LEMMA InsertBeside ==
    ASSUME NEW n \in Nat \ {0}, NEW b \in Storage(n), NEW p \in 0..n - 1, NEW e \in Bucket,
           Sound(With(b, p, e), n), Roomy(With(b, p, e), n), p \in InUse(With(b, p, e)),
           NEW c, Fits(With(b, p, e), n, c, Follow(p, n))
    PROVE  Beside(Turns(With(b, p, e), Follow(p, n), c)[n], Turns(b, Follow(p, n), c)[n], p, e)
<1> DEFINE a == With(b, p, e)
           x == Follow(p, n)
           g == Turns(a, x, c)
           h == Turns(b, x, c)
           T == {i \in Nat : i <= n => Beside(g[i], h[i], p, e)}
<1>0. a \in Storage(n) /\ x \in 0..n - 1 /\ c \in Live
  BY DEF Sound, Table, Fits
<1>1. /\ \A i \in 0..n : g[i] \in Loops(n)
      /\ g[0] = Started(a, x, c)
      /\ \A i \in 1..n : g[i] = Turn(g[i - 1])
  BY <1>0, TurnsDef
<1>2. /\ \A i \in 0..n : h[i] \in Loops(n)
      /\ h[0] = Started(b, x, c)
      /\ \A i \in 1..n : h[i] = Turn(h[i - 1])
  BY <1>0, TurnsDef
<1>3. \A i \in 0..n : g[i].end = "none" => g[i].slot = Along(x, i, n) /\ Passed(x, i, a, n)
  BY InsertWalks
<1>4. \A i \in 0..n - 1 : g[i].end = "none" => g[i].slot # p
  <2> HIDE DEF g, h
  <2>1. \A i \in 0..n - 1 : Passed(x, i, a, n) => Along(x, i, n) # p
    <3> SUFFICES ASSUME NEW i \in 0..n - 1, Passed(x, i, a, n)
                 PROVE  Along(x, i, n) # p
      OBVIOUS
    <3>1. i \in Nat /\ i < n
      OBVIOUS
    <3>2. QED
      BY <1>0, <3>1, PassedAll
  <2>2. QED
    BY <1>3, <2>1
<1> HIDE DEF g, h
<1>5. 0 \in T
  BY <1>1, <1>2 DEF Beside, Started
<1>6. ASSUME NEW i \in Nat, i \in T
      PROVE  i + 1 \in T
  <2> SUFFICES ASSUME i + 1 <= n
               PROVE  Beside(g[i + 1], h[i + 1], p, e)
    OBVIOUS
  <2>1. i \in 0..n - 1 /\ i \in 0..n /\ i + 1 \in 1..n /\ (i + 1) - 1 = i
    OBVIOUS
  <2>2. g[i + 1] = Turn(g[i]) /\ h[i + 1] = Turn(h[i]) /\ Beside(g[i], h[i], p, e)
    BY <1>1, <1>2, <1>6, <2>1
  <2>3. g[i] \in Loops(n) /\ h[i] \in Loops(n) /\ (g[i].end = "none" => g[i].slot # p)
    BY <1>1, <1>2, <1>4, <2>1
  <2>4. QED
    BY <2>2, <2>3, BesideTurn
<1> HIDE DEF T
<1>7. \A i \in Nat : i \in T
  BY <1>5, <1>6, Induction
<1>8. n \in T
  BY <1>7
<1>9. QED
  BY <1>8 DEF T, g, h, a, x

-------------------------------------------------------------------------------
(* Where a probe ends                                                      *)

LEMMA Least ==
    ASSUME NEW S, S \subseteq Nat, S # {}
    PROVE  \E i \in S : \A j \in S : i <= j
<1>1. PICK i \in S : \A j \in S : ~(<<j, i>> \in OpToRel(<, Nat))
  BY NatLessThanWellFounded, WFMin
<1>2. \A j \in S : ~(j < i) /\ j \in Nat /\ i \in Nat
  BY <1>1 DEF OpToRel
<1>3. QED
  BY <1>2

LEMMA WayIs ==
    ASSUME NEW n \in Nat \ {0}, NEW b \in Storage(n), NEW k, NEW i
    PROVE  Way(b, k, i) = Along(Hash[k], i, n)
<1>1. Size(b) = n
  BY StorageFacts
<1>2. QED
  BY <1>1 DEF Way, Along

(* The slots of the entries with key k: at most one.                       *)
At(b, k) == {s \in InUse(b) : b[s].key = k}

(* On the way from the key's home to its entry nobody is near home.        *)
LEMMA OnTheWay ==
    ASSUME NEW n \in Nat \ {0}, NEW b, Sound(b, n), NEW s \in 0..n - 1, b[s].dib # 0
    PROVE  LET k == b[s].key
               d == b[s].dib
           IN  /\ k \in Key /\ Hash[k] \in Nat /\ d \in 1..n
               /\ Along(Hash[k], d - 1, n) = s
               /\ \A i \in 0..d - 2 : /\ b[Along(Hash[k], i, n)].dib >= i + 1
                                      /\ b[Along(Hash[k], i + 1, n)].dib >= i + 2
                                      /\ b[Along(Hash[k], i, n)].key # k
<1> DEFINE k == b[s].key
           d == b[s].dib
<1>0. b \in Storage(n) /\ Table(b, n)
  BY DEF Sound, Table
<1>1. k \in Key /\ Hash[k] \in Nat /\ d \in 1..n
  BY <1>0, StorageFacts, HashFacts, FarBelow
<1>2. Far(Hash[k], s, n) = d - 1
  BY <1>0 DEF Table, Placed
<1>3. Along(Hash[k], d - 1, n) = s
  <2>1. Along(Hash[k], Far(Hash[k], s, n), n) = s
    BY <1>1, FarAlong
  <2>2. QED
    BY <1>2, <2>1
<1>4. \A i \in Nat : i < d => b[Along(Hash[k], i, n)].dib >= i + 1
  BY <1>0, Chain
<1>5. ASSUME NEW i \in 0..d - 2
      PROVE  /\ b[Along(Hash[k], i, n)].dib >= i + 1
             /\ b[Along(Hash[k], i + 1, n)].dib >= i + 2
             /\ b[Along(Hash[k], i, n)].key # k
  <2>1. i \in Nat /\ i < d /\ i + 1 \in Nat /\ i + 1 < d /\ i < n /\ (i + 1) + 1 = i + 2
    BY <1>1
  <2> HIDE DEF d, k
  <2>2. b[Along(Hash[k], i, n)].dib >= i + 1 /\ b[Along(Hash[k], i + 1, n)].dib >= (i + 1) + 1
    BY <1>4, <2>1
  <2> DEFINE u == Along(Hash[k], i, n)
  <2>3. u \in 0..n - 1 /\ Far(Hash[k], u, n) = i
    BY <1>1, <2>1, AlongFar
  <2> HIDE DEF u
  <2>4. u # s
    BY <1>1, <1>2, <2>1, <2>3
  <2>5. b[u].dib # 0
    BY <2>2, <2>1 DEF u
  <2>6. u \in InUse(b) /\ s \in InUse(b)
    <3>1. InUse(b) = {x \in 0..n - 1 : b[x].dib # 0}
      BY <1>0, StorageFacts
    <3>2. QED
      BY <2>3, <2>5, <3>1
  <2>7. b[u].key # k
    BY <2>4, <2>6 DEF Sound, Unique, k
  <2>8. QED
    BY <2>1, <2>2, <2>7 DEF u
<1>6. QED
  BY <1>1, <1>3, <1>5

LEMMA FindIs ==
    ASSUME NEW n \in Nat \ {0}, NEW b, Sound(b, n), NEW k \in Key
    PROVE  find_key(b, k) = At(b, k)
<1> DEFINE W(i) == Along(Hash[k], i, n)
           Stops(i) == Holds(b[W(i)], k) \/ i + 1 > b[W(i + 1)].dib
           First(i) == Stops(i) /\ \A j \in 0..i - 1 : ~Stops(j)
           last == CHOOSE i \in 0..n : First(i)
<1>0. b \in Storage(n) /\ Size(b) = n /\ Hash[k] \in Nat /\ Table(b, n)
  BY StorageFacts, HashFacts DEF Sound, Table
<1>1. \A i : Way(b, k, i) = W(i)
  BY <1>0, WayIs
<1>2. find_key(b, k) = {slot \in {W(last)} : Holds(b[slot], k)}
  BY <1>0, <1>1 DEF find_key
<1>3. \A i \in Nat : W(i) \in 0..n - 1
  BY <1>0, AlongFar
<1>4. At(b, k) = {s \in 0..n - 1 : Holds(b[s], k)}
  BY <1>0, StorageFacts DEF At, Holds
<1> HIDE DEF W
<1>5. \E i \in 0..n : First(i)
  <2> DEFINE S == {i \in 0..n : Stops(i)}
  <2>1. n \in S
    <3>1. n + 1 \in Nat /\ W(n + 1) \in 0..n - 1
      BY <1>3
    <3>2. b[W(n + 1)].dib <= n
      BY <1>0, <3>1, FarBelow
    <3>3. QED
      BY <1>0, <3>1, <3>2, StorageFacts
  <2>2. S \subseteq Nat /\ S # {}
    BY <2>1
  <2>3. PICK i \in S : \A j \in S : i <= j
    <3> HIDE DEF S
    <3>1. QED
      BY <2>2, Least
  <2>4. \A j \in 0..i - 1 : j \in 0..n /\ ~(i <= j)
    BY <2>3
  <2>5. QED
    BY <2>3, <2>4
<1>6. last \in 0..n /\ First(last)
  BY <1>5
<1> HIDE DEF last
<1>7. W(last) \in 0..n - 1
  BY <1>3, <1>6
<1>8. ASSUME NEW s \in At(b, k)
      PROVE  s = W(last)
  <2>1. s \in 0..n - 1 /\ b[s].dib # 0 /\ b[s].key = k
    BY <1>4, <1>8 DEF At, Holds
  <2> DEFINE d == b[s].dib
  <2>2. /\ d \in 1..n /\ W(d - 1) = s
        /\ \A i \in 0..d - 2 : b[W(i + 1)].dib >= i + 2 /\ b[W(i)].key # k
    BY <2>1, OnTheWay DEF W
  <2>3. \A i \in Nat : b[W(i + 1)].dib \in Nat
    <3>1. \A i \in Nat : W(i + 1) \in 0..n - 1
      BY <1>3
    <3>2. QED
      BY <1>0, <3>1, StorageFacts
  <2>4. d - 1 \in Nat /\ Stops(d - 1)
    BY <2>1, <2>2 DEF Holds
  <2> HIDE DEF d
  <2>5. \A i \in 0..d - 2 : ~Stops(i)
    BY <2>2, <2>3 DEF Holds
  <2> HIDE DEF Stops
  <2>6. last \in Nat /\ Stops(last) /\ \A j \in 0..last - 1 : ~Stops(j)
    BY <1>6
  <2>7. ~(last < d - 1)
    BY <2>2, <2>5, <2>6
  <2>8. ~(d - 1 < last)
    BY <2>4, <2>6
  <2>9. last = d - 1
    BY <2>2, <2>6, <2>7, <2>8
  <2>10. QED
    BY <2>2, <2>9
<1>9. QED
  BY <1>2, <1>4, <1>7, <1>8

(* The probe of find_or_insert: at the key's entry, or where a new one     *)
(* may stand.                                                              *)
LEMMA ReachedIs ==
    ASSUME NEW n \in Nat \ {0}, NEW b, Sound(b, n), Roomy(b, n), NEW k \in Key
    PROVE  LET p == Reached(b, k)
           IN  /\ p.slot \in 0..n - 1
               /\ b[p.slot].key = k => p.slot \in At(b, k)
               /\ b[p.slot].key # k =>
                      /\ At(b, k) = {} /\ b[p.slot].dib < p.dib
                      /\ \A o \in Mapped : Fits(b, n, Entry(k, o, p.dib), p.slot)
<1> DEFINE W(i) == Along(Hash[k], i, n)
           Stops(i) == b[W(i)].dib = 0 \/ b[W(i)].key = k \/ b[W(i)].dib < i + 1
           First(i) == Stops(i) /\ \A j \in 0..i - 1 : ~Stops(j)
           last == CHOOSE i \in 0..n : First(i)
<1>0. b \in Storage(n) /\ Size(b) = n /\ Hash[k] \in Nat /\ Table(b, n)
  BY StorageFacts, HashFacts DEF Sound, Table
<1>1. \A i : Way(b, k, i) = W(i)
  BY <1>0, WayIs
<1>2. Reached(b, k) = [slot |-> W(last), dib |-> last + 1]
  BY <1>0, <1>1 DEF Reached
<1>3. /\ \A i \in Nat : W(i) \in 0..n - 1 /\ Follow(W(i), n) = W(i + 1)
      /\ \A i \in 0..n - 1 : Far(Hash[k], W(i), n) = i
  <2>1. \A i \in Nat : /\ Along(Hash[k], i, n) \in 0..n - 1
                       /\ Follow(Along(Hash[k], i, n), n) = Along(Hash[k], i + 1, n)
                       /\ i < n => Far(Hash[k], Along(Hash[k], i, n), n) = i
    BY <1>0, AlongFar
  <2>2. \A i \in 0..n - 1 : i \in Nat /\ i < n
    OBVIOUS
  <2>3. QED
    BY <2>1, <2>2
<1> HIDE DEF W
<1>4. \E i \in 0..n : First(i)
  <2> DEFINE S == {i \in 0..n : Stops(i)}
  <2>1. n \in S
    <3>1. n \in Nat /\ W(n) \in 0..n - 1
      BY <1>3
    <3>2. b[W(n)].dib < n
      BY <1>0, <3>1, NotRound
    <3>3. b[W(n)].dib \in Nat
      BY <1>0, <3>1, StorageFacts
    <3>4. QED
      BY <3>2, <3>3
  <2>2. S \subseteq Nat /\ S # {}
    BY <2>1
  <2>3. PICK i \in S : \A j \in S : i <= j
    <3> HIDE DEF S
    <3>1. QED
      BY <2>2, Least
  <2>4. \A j \in 0..i - 1 : j \in 0..n /\ ~(i <= j)
    BY <2>3
  <2>5. QED
    BY <2>3, <2>4
<1>5. last \in 0..n /\ First(last)
  BY <1>4
<1> HIDE DEF last
<1> DEFINE x == W(last)
<1>6. x \in 0..n - 1 /\ b[x] \in Bucket /\ b[x].dib \in Nat /\ last \in Nat
  <2>1. last \in Nat
    BY <1>5
  <2>2. x \in 0..n - 1
    BY <1>3, <2>1
  <2> HIDE DEF x
  <2>3. QED
    BY <1>0, <2>1, <2>2, StorageFacts
<1>7. ASSUME NEW j \in 0..last - 1
      PROVE  W(j) \in 0..n - 1 /\ b[W(j)].dib >= j + 1 /\ b[W(j)].key # k /\ W(j) \in InUse(b)
  <2>1. j \in Nat /\ W(j) \in 0..n - 1
    BY <1>3, <1>5
  <2>2. ~Stops(j) /\ b[W(j)].dib \in Nat
    BY <1>0, <1>5, <2>1, StorageFacts
  <2>3. QED
    BY <1>0, <2>1, <2>2, StorageFacts
<1>8. last \in 0..n - 1
  <2> SUFFICES ASSUME last = n
               PROVE  FALSE
    BY <1>5
  <2>1. PICK f \in 0..n - 1 : b[f].dib = 0
    BY DEF Roomy
  <2>2. Far(Hash[k], f, n) \in 0..last - 1 /\ W(Far(Hash[k], f, n)) = f
    BY <1>0, FarAlong DEF W
  <2>3. QED
    BY <1>7, <2>1, <2>2
<1>9. b[x].key = k => x \in At(b, k)
  BY <1>0, <1>6, BucketFacts, StorageFacts DEF At
<1>10. ASSUME b[x].key # k
       PROVE  /\ At(b, k) = {} /\ b[x].dib < last + 1
              /\ \A o \in Mapped : Fits(b, n, Entry(k, o, last + 1), x)
  <2>1. b[x].dib < last + 1
    BY <1>5, <1>6, <1>10
  <2>2. ASSUME NEW s \in At(b, k)
        PROVE  FALSE
    <3>1. s \in 0..n - 1 /\ b[s].dib # 0 /\ b[s].key = k
      BY <1>0, <2>2, StorageFacts DEF At
    <3> DEFINE d == b[s].dib
    <3>2. /\ d \in 1..n /\ W(d - 1) = s
          /\ \A i \in 0..d - 2 : b[W(i)].dib >= i + 1 /\ b[W(i)].key # k
      BY <3>1, OnTheWay DEF W
    <3>3. \A i \in Nat : b[W(i)].dib \in Nat
      BY <1>0, <1>3, StorageFacts
    <3>4. d - 1 \in Nat /\ Stops(d - 1)
      BY <3>1, <3>2
    <3> HIDE DEF d
    <3>5. \A i \in 0..d - 2 : ~Stops(i)
      BY <3>2, <3>3
    <3> HIDE DEF Stops
    <3>6. last \in Nat /\ Stops(last) /\ \A j \in 0..last - 1 : ~Stops(j)
      BY <1>5
    <3>7. ~(last < d - 1)
      BY <3>2, <3>5, <3>6
    <3>8. ~(d - 1 < last)
      BY <3>4, <3>6
    <3>9. last = d - 1
      BY <3>2, <3>6, <3>7, <3>8
    <3>10. QED
      BY <1>10, <3>1, <3>2, <3>9
  <2>3. ASSUME NEW o \in Mapped
        PROVE  Fits(b, n, Entry(k, o, last + 1), x)
    <3> DEFINE c == Entry(k, o, last + 1)
    <3>1. c \in Live /\ c.key = k /\ c.dib = last + 1
      BY <1>8 DEF Entry, Live
    <3> HIDE DEF c
    <3>2. Far(Hash[c.key], x, n) = c.dib - 1
      BY <1>3, <1>8, <3>1
    <3>3. ASSUME NEW s \in 0..n - 1, Follow(s, n) = x
          PROVE  last + 1 <= b[s].dib + 1
      <4>0. b[s].dib \in Nat
        BY <1>0, StorageFacts
      <4>1. CASE last = 0
        BY <4>0, <4>1
      <4>2. CASE last # 0
        <5> DEFINE u == W(last - 1)
        <5>1. last - 1 \in 0..last - 1 /\ last - 1 \in Nat /\ (last - 1) + 1 = last
          BY <1>8, <4>2
        <5>2. u \in 0..n - 1 /\ Follow(u, n) = x /\ b[u].dib >= last
          <6>1. Follow(u, n) = W((last - 1) + 1)
            BY <1>3, <5>1
          <6>2. QED
            BY <1>7, <5>1, <6>1
        <5> HIDE DEF u
        <5>3. s = u
          BY <3>3, <5>2, FollowDiffers
        <5>4. QED
          BY <1>8, <4>0, <5>2, <5>3
      <4>3. QED
        BY <4>1, <4>2
    <3>4. \A s \in InUse(b) : b[s].key # c.key
      BY <2>2, <3>1 DEF At
    <3>5. Fits(b, n, c, x)
      BY <1>6, <3>1, <3>2, <3>3, <3>4 DEF Fits
    <3>6. QED
      BY <3>5 DEF c
  <2>4. QED
    BY <2>1, <2>2, <2>3
<1>11. QED
  BY <1>2, <1>6, <1>9, <1>10

-------------------------------------------------------------------------------
(* Erasure                                                                 *)

UniqueBut(b, x) == \A s, t \in InUse(b) \ {x} : b[s].key = b[t].key => s = t

Nearer(e) == [e EXCEPT !.dib = @ - 1]

LEMMA NearerIs ==
    ASSUME NEW e \in Live, e.dib > 1
    PROVE  /\ Nearer(e) \in Live /\ Nearer(e).key = e.key /\ Nearer(e).dib = e.dib - 1
           /\ Pair(Nearer(e)) = Pair(e)
BY DEF Nearer, Live, Pair

(* The entry after the gap moves into it, and leaves the gap behind.       *)
LEMMA MoveBack ==
    ASSUME NEW n \in Nat \ {0}, NEW b, Table(b, n), NEW x \in InUse(b), UniqueBut(b, x),
           b[Follow(x, n)].dib > 1
    PROVE  LET y == Follow(x, n)
               t == With(b, x, Nearer(b[y]))
           IN  /\ Table(t, n) /\ y \in InUse(b) /\ UniqueBut(t, y)
               /\ InUse(t) = InUse(b) /\ PairsBut(t, y) = PairsBut(b, x)
<1> DEFINE y == Follow(x, n)
           e == b[y]
           c == Nearer(e)
           t == With(b, x, c)
<1>0. b \in Storage(n) /\ Placed(b, n) /\ Smooth(b, n)
  BY DEF Table
<1>1. x \in 0..n - 1 /\ b[x].dib \in Nat /\ b[x].dib # 0
  BY <1>0, StorageFacts
<1>2. y \in 0..n - 1
  BY <1>1, FarFollow
<1> HIDE DEF y
<1>3. e \in Live /\ e.dib \in Nat /\ e.dib > 1 /\ y \in InUse(b) /\ Hash[e.key] \in Nat
  BY <1>0, <1>2, StorageFacts, HashFacts DEF y
<1> HIDE DEF e
<1>4. c \in Live /\ c \in Bucket /\ c.key = e.key /\ c.dib = e.dib - 1 /\ Pair(c) = Pair(e)
  BY <1>3, NearerIs DEF Bucket
<1> HIDE DEF c
<1>5. t \in Storage(n) /\ t[x] = c /\ \A s \in 0..n - 1 : s # x => t[s] = b[s]
  BY <1>0, <1>1, <1>4, WithFacts
<1>6. Far(Hash[e.key], y, n) = e.dib - 1
  BY <1>0, <1>2, <1>3 DEF Placed, e
<1>7. /\ Far(Hash[e.key], x, n) \in 0..n - 1
      /\ Far(Hash[e.key], y, n) =
             IF Far(Hash[e.key], x, n) = n - 1 THEN 0 ELSE Far(Hash[e.key], x, n) + 1
  BY <1>1, <1>3, FarAlong, FarFollow DEF y
<1>8. Far(Hash[e.key], x, n) = e.dib - 2 /\ y # x
  BY <1>3, <1>6, <1>7
<1> HIDE DEF t
<1>9. InUse(t) = InUse(b)
  <2>1. InUse(t) = {s \in 0..n - 1 : t[s].dib # 0} /\ InUse(b) = {s \in 0..n - 1 : b[s].dib # 0}
    BY <1>0, <1>5, StorageFacts
  <2>2. t[x].dib # 0
    BY <1>3, <1>4, <1>5
  <2>3. QED
    BY <1>1, <1>5, <2>1, <2>2
<1>10. Placed(t, n)
  <2>1. Far(Hash[t[x].key], x, n) = t[x].dib - 1
    BY <1>3, <1>4, <1>5, <1>8
  <2>2. QED
    BY <1>0, <1>5, <2>1 DEF Placed
<1>11. Smooth(t, n)
  <2> SUFFICES ASSUME NEW s \in 0..n - 1
               PROVE  t[Follow(s, n)].dib <= t[s].dib + 1
    BY DEF Smooth
  <2>1. Follow(s, n) \in 0..n - 1
    BY FarFollow
  <2>2. b[Follow(s, n)].dib <= b[s].dib + 1 /\ b[y].dib <= b[x].dib + 1
    BY <1>0, <1>1 DEF Smooth, y
  <2>3. b[s].dib \in Nat /\ b[Follow(s, n)].dib \in Nat
    BY <1>0, <2>1, StorageFacts
  <2>4. b[y].dib = e.dib
    BY DEF e
  <2>5. CASE Follow(s, n) = x /\ s # x
    <3>1. t[Follow(s, n)] = c /\ t[s] = b[s]
      BY <1>5, <2>5
    <3>2. QED
      BY <1>1, <1>3, <1>4, <2>2, <2>3, <2>4, <2>5, <3>1
  <2>6. CASE s = x
    <3>1. Follow(s, n) = y /\ t[y] = b[y] /\ t[s] = c
      BY <1>2, <1>5, <1>8, <2>6 DEF y
    <3>2. QED
      BY <1>3, <1>4, <2>4, <3>1
  <2>7. CASE Follow(s, n) # x /\ s # x
    BY <1>5, <2>1, <2>2, <2>7
  <2>8. QED
    BY <2>5, <2>6, <2>7
<1>12. InUse(b) \subseteq 0..n - 1
  BY <1>0, StorageFacts
<1>13. \A s \in InUse(b) \ {x, y} : t[s] = b[s] /\ t[s].key # c.key
  <2>1. \A s \in InUse(b) \ {x} : b[s].key = b[y].key => s = y
    BY <1>3, <1>8 DEF UniqueBut
  <2>2. QED
    BY <1>4, <1>5, <1>12, <2>1 DEF e
<1>14. UniqueBut(t, y)
  <2>1. \A u, v \in InUse(b) \ {x, y} : t[u].key = t[v].key => u = v
    BY <1>13 DEF UniqueBut
  <2>2. QED
    BY <1>5, <1>9, <1>13, <2>1 DEF UniqueBut
<1>15. PairsBut(t, y) = PairsBut(b, x)
  <2>1. Pair(t[x]) = Pair(b[y])
    BY <1>4, <1>5 DEF e
  <2>2. \A s \in InUse(b) \ {x, y} : Pair(t[s]) = Pair(b[s])
    BY <1>13
  <2>3. PairsBut(t, y) = {Pair(t[s]) : s \in InUse(b) \ {x, y}} \cup {Pair(t[x])}
    BY <1>8, <1>9 DEF PairsBut
  <2>4. PairsBut(b, x) = {Pair(b[s]) : s \in InUse(b) \ {x, y}} \cup {Pair(b[y])}
    BY <1>3, <1>8 DEF PairsBut
  <2>5. {Pair(t[s]) : s \in InUse(b) \ {x, y}} = {Pair(b[s]) : s \in InUse(b) \ {x, y}}
    BY <2>2
  <2>6. QED
    BY <2>1, <2>3, <2>4, <2>5
<1>16. Table(t, n)
  BY <1>5, <1>10, <1>11 DEF Table
<1>17. QED
  BY <1>3, <1>9, <1>14, <1>15, <1>16 DEF y, t, c, e

(* The gap is freed before an entry that is at home, or a free bucket.     *)
LEMMA Vacate ==
    ASSUME NEW n \in Nat \ {0}, NEW b, Table(b, n), NEW x \in InUse(b), UniqueBut(b, x),
           ~(b[Follow(x, n)].dib > 1)
    PROVE  LET t == With(b, x, Free)
           IN  Sound(t, n) /\ InUse(t) = InUse(b) \ {x} /\ Pairs(t) = PairsBut(b, x)
<1> DEFINE y == Follow(x, n)
           t == With(b, x, Free)
<1>0. b \in Storage(n) /\ Placed(b, n) /\ Smooth(b, n)
  BY DEF Table
<1>1. x \in 0..n - 1 /\ Free \in Bucket /\ Free.dib = 0
  BY <1>0, StorageFacts, BucketFacts
<1>2. y \in 0..n - 1
  BY <1>1, FarFollow
<1>3. b[y].dib \in {0, 1}
  <2>1. b[y].dib \in Nat
    BY <1>0, <1>2, StorageFacts
  <2>2. QED
    BY <2>1
<1> HIDE DEF y
<1>4. t \in Storage(n) /\ t[x] = Free /\ \A s \in 0..n - 1 : s # x => t[s] = b[s]
  BY <1>0, <1>1, WithFacts
<1> HIDE DEF t
<1>5. InUse(t) = InUse(b) \ {x}
  <2>1. InUse(t) = {s \in 0..n - 1 : t[s].dib # 0} /\ InUse(b) = {s \in 0..n - 1 : b[s].dib # 0}
    BY <1>0, <1>4, StorageFacts
  <2>2. QED
    BY <1>1, <1>4, <2>1
<1>6. Placed(t, n)
  BY <1>0, <1>1, <1>4 DEF Placed
<1>7. Smooth(t, n)
  <2> SUFFICES ASSUME NEW s \in 0..n - 1
               PROVE  t[Follow(s, n)].dib <= t[s].dib + 1
    BY DEF Smooth
  <2>1. Follow(s, n) \in 0..n - 1
    BY FarFollow
  <2>2. b[Follow(s, n)].dib <= b[s].dib + 1
    BY <1>0 DEF Smooth
  <2>3. t[s].dib \in Nat /\ t[Follow(s, n)].dib \in Nat
    BY <1>4, <2>1, StorageFacts
  <2>4. CASE Follow(s, n) = x
    BY <1>1, <1>4, <2>3, <2>4
  <2>5. CASE s = x /\ Follow(s, n) # x
    <3>1. t[Follow(s, n)] = b[y]
      BY <1>4, <2>1, <2>5 DEF y
    <3>2. QED
      BY <1>3, <2>3, <3>1
  <2>6. CASE Follow(s, n) # x /\ s # x
    BY <1>4, <2>1, <2>2, <2>6
  <2>7. QED
    BY <2>4, <2>5, <2>6
<1>8. \A s \in InUse(b) \ {x} : t[s] = b[s]
  <2>1. InUse(b) \subseteq 0..n - 1
    BY <1>0, StorageFacts
  <2>2. QED
    BY <1>4, <2>1
<1>9. Unique(t)
  BY <1>5, <1>8 DEF Unique, UniqueBut
<1>10. Pairs(t) = PairsBut(b, x)
  BY <1>5, <1>8 DEF Pairs, PairsBut
<1>11. QED
  BY <1>4, <1>5, <1>6, <1>7, <1>9, <1>10 DEF Sound, Table, t

Backings(n) == [table : Storage(n), slot : 0..n - 1, end : {"none", "freed"}]
Opened(b, x) == [table |-> b, slot |-> x, end |-> "none"]
Upcoming(l, n) == l.table[Follow(l.slot, n)]

LEMMA BackIs ==
    ASSUME NEW n \in Nat \ {0}, NEW l \in Backings(n)
    PROVE  /\ l.end # "none" => Back(l) = l
           /\ (l.end = "none" /\ Upcoming(l, n).dib > 1) =>
                  Back(l) = [table |-> With(l.table, l.slot, Nearer(Upcoming(l, n))),
                             slot |-> Follow(l.slot, n), end |-> "none"]
           /\ (l.end = "none" /\ ~(Upcoming(l, n).dib > 1)) =>
                  Back(l) = [table |-> With(l.table, l.slot, Free), slot |-> l.slot,
                             end |-> "freed"]
           /\ Back(l) \in Backings(n)
<1>1. /\ l.table \in Storage(n) /\ l.slot \in 0..n - 1 /\ l.end \in {"none", "freed"}
      /\ l = [table |-> l.table, slot |-> l.slot, end |-> l.end]
  BY DEF Backings
<1>2. After(l.table, l.slot) = Follow(l.slot, n) /\ Follow(l.slot, n) \in 0..n - 1
  <2>1. Size(l.table) = n
    BY <1>1, StorageFacts
  <2>2. QED
    BY <1>1, <2>1, FarFollow DEF After, Follow
<1>3. CASE l.end # "none"
  BY <1>3 DEF Back
<1>4. CASE l.end = "none" /\ Upcoming(l, n).dib > 1
  <2>1. Back(l) = [l EXCEPT !.table[l.slot] = Nearer(Upcoming(l, n)), !.slot = Follow(l.slot, n)]
    BY <1>2, <1>4 DEF Back, Nearer, Upcoming
  <2>2. Back(l) = [table |-> With(l.table, l.slot, Nearer(Upcoming(l, n))),
                   slot |-> Follow(l.slot, n), end |-> "none"]
    BY <1>1, <1>4, <2>1 DEF With
  <2>3. Nearer(Upcoming(l, n)) \in Bucket
    <3>1. Upcoming(l, n) \in Live
      BY <1>1, <1>2, <1>4, StorageFacts DEF Upcoming
    <3>2. QED
      BY <1>4, <3>1, NearerIs DEF Bucket
  <2>4. With(l.table, l.slot, Nearer(Upcoming(l, n))) \in Storage(n)
    BY <1>1, <2>3, WithFacts
  <2>5. QED
    BY <1>2, <1>4, <2>2, <2>4 DEF Backings
<1>5. CASE l.end = "none" /\ ~(Upcoming(l, n).dib > 1)
  <2>1. Back(l) = [l EXCEPT !.table[l.slot] = Free, !.end = "freed"]
    BY <1>2, <1>5 DEF Back, Upcoming
  <2>2. Back(l) = [table |-> With(l.table, l.slot, Free), slot |-> l.slot, end |-> "freed"]
    BY <1>1, <1>5, <2>1 DEF With
  <2>3. With(l.table, l.slot, Free) \in Storage(n)
    BY <1>1, WithFacts, BucketFacts
  <2>4. QED
    BY <1>1, <1>5, <2>2, <2>3 DEF Backings
<1>6. QED
  BY <1>1, <1>3, <1>4, <1>5

LEMMA BacksDef ==
    ASSUME NEW n \in Nat \ {0}, NEW b \in Storage(n), NEW x \in 0..n - 1
    PROVE  /\ \A i \in 0..n : Backs(b, x)[i] \in Backings(n)
           /\ Backs(b, x)[0] = Opened(b, x)
           /\ \A i \in 1..n : Backs(b, x)[i] = Back(Backs(b, x)[i - 1])
<1> DEFINE D == Backings(n)
           base == Opened(b, x)
           step == [k \in 1..n |-> [l \in D |-> Back(l)]]
           Is(f) == f = [i \in 0..n |-> IF i = 0 THEN base ELSE Back(f[i - 1])]
<1>0. Size(b) = n
  BY StorageFacts
<1>1. step \in Steps(n, D)
  <2>1. \A l \in D : Back(l) \in D
    BY BackIs
  <2> HIDE DEF D
  <2>2. QED
    BY <2>1 DEF Steps
<1>2. base \in D
  BY DEF Backings, Opened
<1>3. \A k \in 1..n : \A l \in D : step[k][l] = Back(l)
  <2> HIDE DEF D
  <2>1. QED
    OBVIOUS
<1> HIDE DEF step, D, base
<1>4. PICK f : Follows(f, n, D, base, step)
  BY <1>1, <1>2, Recursion
<1>5. Is(f)
  <2>1. \A k \in 1..n : f[k] = Back(f[k - 1])
    <3>1. \A k \in 1..n : k - 1 \in 0..n
      OBVIOUS
    <3>2. QED
      BY <1>3, <1>4, <3>1 DEF Follows
  <2>2. \A k \in 0..n : f[k] = IF k = 0 THEN base ELSE Back(f[k - 1])
    <3>1. \A k \in 0..n : k = 0 \/ k \in 1..n
      OBVIOUS
    <3>2. QED
      BY <1>4, <2>1, <3>1 DEF Follows
  <2>3. f = [k \in 0..n |-> f[k]]
    BY <1>4 DEF Follows
  <2>4. QED
    BY <2>2, <2>3
<1> DEFINE g == Backs(b, x)
<1>6. Is(g)
  <2>1. g = CHOOSE h : Is(h)
    BY <1>0 DEF Backs, base, Opened
  <2> HIDE DEF Is, g
  <2>2. QED
    BY <1>5, <2>1
<1> HIDE DEF g
<1>7. /\ DOMAIN g = 0..n /\ g = [k \in 0..n |-> g[k]] /\ g[0] = base
      /\ \A k \in 1..n : g[k] = Back(g[k - 1])
  <2>1. DOMAIN g = 0..n /\ g = [k \in 0..n |-> g[k]]
    BY <1>6
  <2>2. \A k \in 0..n : g[k] = IF k = 0 THEN base ELSE Back(g[k - 1])
    BY <1>6
  <2>3. 0 \in 0..n /\ \A k \in 1..n : k \in 0..n /\ k # 0
    OBVIOUS
  <2>4. QED
    BY <2>1, <2>2, <2>3
<1>8. Follows(g, n, D, base, step)
  BY <1>1, <1>2, <1>3, <1>7, Unrolled
<1>9. \A i \in 0..n : g[i] \in D
  BY <1>8 DEF Follows
<1>10. QED
  BY <1>7, <1>9 DEF g, D, base

(* The gap travels along entries of the table.                             *)
Closing(l, b, x, n) ==
    /\ l.end = "none" => /\ Table(l.table, n) /\ l.slot \in InUse(b) /\ UniqueBut(l.table, l.slot)
                         /\ InUse(l.table) = InUse(b)
                         /\ PairsBut(l.table, l.slot) = PairsBut(b, x)
    /\ l.end = "freed" => /\ Sound(l.table, n) /\ Pairs(l.table) = PairsBut(b, x)
                          /\ \E y \in InUse(b) : InUse(l.table) = InUse(b) \ {y}

LEMMA ClosingKept ==
    ASSUME NEW n \in Nat \ {0}, NEW b, NEW x, NEW l \in Backings(n), Closing(l, b, x, n)
    PROVE  Closing(Back(l), b, x, n)
<1> DEFINE t == l.table
           z == l.slot
<1>1. CASE l.end # "none"
  BY <1>1, BackIs
<1>2. CASE l.end = "none" /\ Upcoming(l, n).dib > 1
  <2>1. /\ Table(t, n) /\ z \in InUse(t) /\ UniqueBut(t, z) /\ InUse(t) = InUse(b)
        /\ PairsBut(t, z) = PairsBut(b, x) /\ t[Follow(z, n)].dib > 1
    BY <1>2 DEF Closing, Upcoming
  <2>2. /\ Back(l).table = With(t, z, Nearer(t[Follow(z, n)]))
        /\ Back(l).slot = Follow(z, n) /\ Back(l).end = "none"
    BY <1>2, BackIs DEF Upcoming
  <2> HIDE DEF t, z
  <2> DEFINE u == With(t, z, Nearer(t[Follow(z, n)]))
  <2>3. /\ Table(u, n) /\ Follow(z, n) \in InUse(t) /\ UniqueBut(u, Follow(z, n))
        /\ InUse(u) = InUse(t) /\ PairsBut(u, Follow(z, n)) = PairsBut(t, z)
    BY <2>1, MoveBack
  <2> HIDE DEF u
  <2>4. QED
    BY <2>1, <2>2, <2>3 DEF Closing, u
<1>3. CASE l.end = "none" /\ ~(Upcoming(l, n).dib > 1)
  <2>1. /\ Table(t, n) /\ z \in InUse(t) /\ UniqueBut(t, z) /\ InUse(t) = InUse(b)
        /\ PairsBut(t, z) = PairsBut(b, x) /\ ~(t[Follow(z, n)].dib > 1)
    BY <1>3 DEF Closing, Upcoming
  <2>2. Back(l).table = With(t, z, Free) /\ Back(l).end = "freed"
    BY <1>3, BackIs
  <2> HIDE DEF t, z
  <2> DEFINE u == With(t, z, Free)
  <2>3. Sound(u, n) /\ InUse(u) = InUse(t) \ {z} /\ Pairs(u) = PairsBut(t, z)
    BY <2>1, Vacate
  <2> HIDE DEF u
  <2>4. QED
    BY <2>1, <2>2, <2>3 DEF Closing, u
<1>4. QED
  BY <1>1, <1>2, <1>3

LEMMA ShiftIs ==
    ASSUME NEW n \in Nat \ {0}, NEW b, Sound(b, n), Roomy(b, n), NEW x \in InUse(b)
    PROVE  /\ Sound(Shift(b, x), n) /\ Pairs(Shift(b, x)) = PairsBut(b, x)
           /\ \E y \in InUse(b) : InUse(Shift(b, x)) = InUse(b) \ {y}
<1> DEFINE g == Backs(b, x)
           T == {i \in Nat : i <= n =>
                    /\ Closing(g[i], b, x, n)
                    /\ g[i].end = "none" =>
                           g[i].slot = Along(x, i, n) /\ Passed(x, i + 1, b, n)}
<1>0. b \in Storage(n) /\ Table(b, n) /\ Unique(b) /\ x \in 0..n - 1
  BY StorageFacts DEF Sound, Table
<1>1. /\ \A i \in 0..n : g[i] \in Backings(n)
      /\ g[0] = Opened(b, x)
      /\ \A i \in 1..n : g[i] = Back(g[i - 1])
  BY <1>0, BacksDef
<1>2. Shift(b, x) = g[n].table
  <2>1. Size(b) = n
    BY <1>0, StorageFacts
  <2>2. QED
    BY <2>1 DEF Shift
<1> HIDE DEF g
<1>3. Along(x, 0, n) = x
  BY <1>0, AlongZero
<1>4. 0 \in T
  <2>1. UniqueBut(b, x)
    BY <1>0 DEF Unique, UniqueBut
  <2>2. Closing(g[0], b, x, n)
    BY <1>0, <1>1, <2>1 DEF Closing, Opened
  <2>3. Passed(x, 0 + 1, b, n)
    <3>1. \A j \in 0..(0 + 1) - 1 : j = 0
      OBVIOUS
    <3>2. QED
      BY <1>3, <3>1 DEF Passed
  <2>4. QED
    BY <1>1, <1>3, <2>2, <2>3 DEF Opened
<1>5. ASSUME NEW i \in Nat, i \in T
      PROVE  i + 1 \in T
  <2> SUFFICES ASSUME i + 1 <= n
               PROVE  /\ Closing(g[i + 1], b, x, n)
                      /\ g[i + 1].end = "none" =>
                             /\ g[i + 1].slot = Along(x, i + 1, n)
                             /\ Passed(x, (i + 1) + 1, b, n)
    OBVIOUS
  <2>1. i \in 0..n /\ i + 1 \in 1..n /\ (i + 1) - 1 = i /\ i + 1 \in Nat
    OBVIOUS
  <2>2. g[i + 1] = Back(g[i]) /\ g[i] \in Backings(n) /\ Closing(g[i], b, x, n)
    BY <1>1, <1>5, <2>1
  <2>3. Closing(g[i + 1], b, x, n)
    BY <2>2, ClosingKept
  <2>4. ASSUME g[i + 1].end = "none"
        PROVE  g[i + 1].slot = Along(x, i + 1, n) /\ Passed(x, (i + 1) + 1, b, n)
    <3>1. g[i].end = "none" /\ g[i + 1].slot = Follow(g[i].slot, n)
      BY <2>2, <2>4, BackIs
    <3>2. g[i].slot = Along(x, i, n) /\ Passed(x, i + 1, b, n)
      BY <1>5, <2>1, <3>1
    <3>3. Follow(Along(x, i, n), n) = Along(x, i + 1, n)
      BY <1>0, AlongFar
    <3>4. Along(x, i + 1, n) \in InUse(b)
      BY <2>3, <2>4, <3>1, <3>2, <3>3 DEF Closing
    <3>5. QED
      BY <1>0, <2>1, <3>1, <3>2, <3>3, <3>4, PassedNext
  <2>5. QED
    BY <2>3, <2>4
<1> HIDE DEF T
<1>6. n \in T
  BY <1>4, <1>5, Induction
<1>7. Closing(g[n], b, x, n) /\ (g[n].end = "none" => Passed(x, n + 1, b, n))
  BY <1>6 DEF T
<1>8. g[n].end # "none"
  <2>1. Passed(x, n + 1, b, n) => Passed(x, n, b, n)
    BY DEF Passed
  <2>2. ~Passed(x, n, b, n)
    BY <1>0, AllPassed
  <2>3. QED
    BY <1>7, <2>1, <2>2
<1>9. g[n].end = "freed"
  <2>1. g[n] \in Backings(n)
    BY <1>1
  <2>2. QED
    BY <1>8, <2>1 DEF Backings
<1>10. QED
  BY <1>2, <1>7, <1>9 DEF Closing

-------------------------------------------------------------------------------
(* Rebuilding the table                                                    *)

LEMMA BlankIs ==
    ASSUME NEW n \in Nat \ {0}
    PROVE  /\ Sound(Blank(n), n) /\ InUse(Blank(n)) = {} /\ Pairs(Blank(n)) = {}
           /\ Blank(n) \in Storage(n)
<1>1. Blank(n) \in Storage(n) /\ \A s \in 0..n - 1 : Blank(n)[s] = Free
  BY BucketFacts DEF Blank, Storage
<1>2. \A s \in 0..n - 1 : Blank(n)[s].dib = 0
  BY <1>1, BucketFacts
<1>3. InUse(Blank(n)) = {}
  BY <1>1, <1>2, StorageFacts
<1>4. Smooth(Blank(n), n)
  <2>1. \A s \in 0..n - 1 : Follow(s, n) \in 0..n - 1
    BY FarFollow
  <2>2. QED
    BY <1>2, <2>1 DEF Smooth
<1>5. Placed(Blank(n), n)
  BY <1>2 DEF Placed
<1>6. QED
  BY <1>1, <1>3, <1>4, <1>5 DEF Sound, Table, Unique, Pairs

AtHome(e) == [e EXCEPT !.dib = 1]
Refill(F, e) == IF e.dib = 0 THEN F
                ELSE UNION {internal_insert(b, Home(b, e.key), AtHome(e)) : b \in F}

LEMMA AtHomeIs ==
    ASSUME NEW e \in Live
    PROVE  /\ AtHome(e) \in Live /\ AtHome(e).key = e.key /\ AtHome(e).dib = 1
           /\ Pair(AtHome(e)) = Pair(e)
BY DEF AtHome, Live, Pair

LEMMA HomeIs ==
    ASSUME NEW n \in Nat \ {0}, NEW b \in Storage(n), NEW k \in Key
    PROVE  Home(b, k) \in 0..n - 1 /\ Far(Hash[k], Home(b, k), n) = 0
<1>1. Size(b) = n /\ Hash[k] \in Nat
  BY StorageFacts, HashFacts
<1> DEFINE h == Hash[k]
           z == 0
<1>2. h + z = h /\ z \in Nat /\ z < n
  BY <1>1
<1>3. Home(b, k) = Along(h, z, n)
  BY <1>1, <1>2 DEF Home, Along
<1> HIDE DEF z, h
<1>4. Along(h, z, n) \in 0..n - 1 /\ Far(h, Along(h, z, n), n) = z
  BY <1>1, <1>2, AlongFar DEF h
<1>5. QED
  BY <1>3, <1>4 DEF h, z

LEMMA RefillType ==
    ASSUME NEW n \in Nat \ {0}, NEW F \in SUBSET Storage(n), NEW e \in Bucket
    PROVE  Refill(F, e) \in SUBSET Storage(n)
<1>1. CASE e.dib = 0
  BY <1>1 DEF Refill
<1>2. CASE e.dib # 0
  <2>1. ASSUME NEW b \in F, NEW t \in internal_insert(b, Home(b, e.key), AtHome(e))
        PROVE  t \in Storage(n)
    <3>1. b \in Storage(n) /\ e \in Live /\ e.key \in Key
      BY <1>2, BucketFacts
    <3>2. AtHome(e) \in Live /\ Home(b, e.key) \in 0..n - 1
      BY <3>1, AtHomeIs, HomeIs
    <3>3. n \in 0..n
      OBVIOUS
    <3>4. Turns(b, Home(b, e.key), AtHome(e))[n] \in Loops(n)
      BY <3>1, <3>2, <3>3, TurnsDef
    <3>5. t = Turns(b, Home(b, e.key), AtHome(e))[n].table
      BY <2>1, <3>1, InsertDef
    <3>6. QED
      BY <3>4, <3>5, LoopFacts
  <2>2. Refill(F, e) = UNION {internal_insert(b, Home(b, e.key), AtHome(e)) : b \in F}
    BY <1>2 DEF Refill
  <2>3. \A t \in Refill(F, e) : t \in Storage(n)
    BY <2>1, <2>2
  <2>4. QED
    BY <2>3
<1>3. QED
  BY <1>1, <1>2

LEMMA RebuiltDef ==
    ASSUME NEW m \in Nat \ {0}, NEW old \in Storage(m), NEW n \in Nat \ {0}
    PROVE  /\ \A i \in 0..m : Rebuilt(old, n)[i] \in SUBSET Storage(n)
           /\ Rebuilt(old, n)[0] = {Blank(n)}
           /\ \A i \in 1..m : Rebuilt(old, n)[i] = Refill(Rebuilt(old, n)[i - 1], old[i - 1])
           /\ Rebuild(old, n) = Rebuilt(old, n)[m]
<1> DEFINE D == SUBSET Storage(n)
           base == {Blank(n)}
           step == [k \in 1..m |-> [F \in D |-> Refill(F, old[k - 1])]]
           Is(f) == f = [i \in 0..m |-> IF i = 0 THEN base ELSE Refill(f[i - 1], old[i - 1])]
<1>0. Size(old) = m
  BY StorageFacts
<1>1. step \in Steps(m, D)
  <2>1. \A k \in 1..m : \A F \in D : Refill(F, old[k - 1]) \in D
    <3>1. \A k \in 1..m : k - 1 \in 0..m - 1 /\ old[k - 1] \in Bucket
      BY StorageFacts
    <3>2. QED
      BY <3>1, RefillType
  <2> HIDE DEF D
  <2>2. QED
    BY <2>1 DEF Steps
<1>2. base \in D
  BY BlankIs
<1>3. \A k \in 1..m : \A F \in D : step[k][F] = Refill(F, old[k - 1])
  <2> HIDE DEF D
  <2>1. QED
    OBVIOUS
<1> HIDE DEF step, D, base
<1>4. PICK f : Follows(f, m, D, base, step)
  BY <1>1, <1>2, Recursion
<1>5. Is(f)
  <2>1. \A k \in 1..m : f[k] = Refill(f[k - 1], old[k - 1])
    <3>1. \A k \in 1..m : k - 1 \in 0..m
      OBVIOUS
    <3>2. QED
      BY <1>3, <1>4, <3>1 DEF Follows
  <2>2. \A k \in 0..m : f[k] = IF k = 0 THEN base ELSE Refill(f[k - 1], old[k - 1])
    <3>1. \A k \in 0..m : k = 0 \/ k \in 1..m
      OBVIOUS
    <3>2. QED
      BY <1>4, <2>1, <3>1 DEF Follows
  <2>3. f = [k \in 0..m |-> f[k]]
    BY <1>4 DEF Follows
  <2>4. QED
    BY <2>2, <2>3
<1> DEFINE g == Rebuilt(old, n)
<1>6. Is(g)
  <2>1. g = CHOOSE h : Is(h)
    BY <1>0 DEF Rebuilt, base, Refill, AtHome
  <2> HIDE DEF Is, g
  <2>2. QED
    BY <1>5, <2>1
<1>7. Rebuild(old, n) = g[m]
  BY <1>0 DEF Rebuild
<1> HIDE DEF g
<1>8. /\ DOMAIN g = 0..m /\ g = [k \in 0..m |-> g[k]] /\ g[0] = base
      /\ \A k \in 1..m : g[k] = Refill(g[k - 1], old[k - 1])
  <2>1. DOMAIN g = 0..m /\ g = [k \in 0..m |-> g[k]]
    BY <1>6
  <2>2. \A k \in 0..m : g[k] = IF k = 0 THEN base ELSE Refill(g[k - 1], old[k - 1])
    BY <1>6
  <2>3. 0 \in 0..m /\ \A k \in 1..m : k \in 0..m /\ k # 0
    OBVIOUS
  <2>4. QED
    BY <2>1, <2>2, <2>3
<1>9. Follows(g, m, D, base, step)
  BY <1>1, <1>2, <1>3, <1>8, Unrolled
<1>10. \A i \in 0..m : g[i] \in D
  BY <1>9 DEF Follows
<1>11. QED
  BY <1>7, <1>8, <1>10 DEF g, D, base

(* The entries below slot i.                                               *)
Early(b, i) == {s \in InUse(b) : s < i}

(* Table b holds what the slots of old below i did.                        *)
Refilled(b, n, old, i) ==
    /\ Sound(b, n) /\ Cardinality(InUse(b)) = Cardinality(Early(old, i))
    /\ Pairs(b) = {Pair(old[s]) : s \in Early(old, i)}

LEMMA EarlyIs ==
    ASSUME NEW m \in Nat \ {0}, NEW old \in Storage(m), NEW i \in Nat
    PROVE  /\ IsFiniteSet(Early(old, i)) /\ Cardinality(Early(old, i)) \in Nat
           /\ Cardinality(Early(old, i)) <= Cardinality(InUse(old))
           /\ i \in InUse(old) => /\ Early(old, i + 1) = Early(old, i) \cup {i}
                                  /\ Cardinality(Early(old, i + 1)) = Cardinality(Early(old, i)) + 1
           /\ i \notin InUse(old) => Early(old, i + 1) = Early(old, i)
           /\ Early(old, 0) = {} /\ Early(old, m) = InUse(old)
<1>1. InUse(old) \subseteq 0..m - 1 /\ IsFiniteSet(InUse(old))
  BY StorageFacts
<1>2. Early(old, i) \in SUBSET InUse(old)
  BY DEF Early
<1>3. /\ IsFiniteSet(Early(old, i)) /\ Cardinality(Early(old, i)) \in Nat
      /\ Cardinality(Early(old, i)) <= Cardinality(InUse(old))
  BY <1>1, <1>2, FS_Subset, FS_CardinalityType
<1>4. i \in InUse(old) => Early(old, i + 1) = Early(old, i) \cup {i} /\ i \notin Early(old, i)
  BY <1>1 DEF Early
<1>5. i \notin InUse(old) => Early(old, i + 1) = Early(old, i)
  BY <1>1 DEF Early
<1>6. i \in InUse(old) => Cardinality(Early(old, i + 1)) = Cardinality(Early(old, i)) + 1
  BY <1>3, <1>4, FS_AddElement
<1>7. Early(old, 0) = {} /\ Early(old, m) = InUse(old)
  BY <1>1 DEF Early
<1>8. QED
  BY <1>3, <1>4, <1>5, <1>6, <1>7

LEMMA DoneCounts ==
    ASSUME NEW n \in Nat \ {0}, NEW b \in Storage(n), NEW c, NEW t, Done(t, b, c, n)
    PROVE  Cardinality(InUse(t)) = Cardinality(InUse(b)) + 1
<1>1. PICK y \in (0..n - 1) \ InUse(b) : InUse(t) = InUse(b) \cup {y}
  BY DEF Done
<1>2. QED
  BY <1>1, StorageFacts, FS_AddElement

(* One more entry of old is put into table b.                              *)
LEMMA Refills ==
    ASSUME NEW n \in Nat \ {0}, NEW m \in Nat \ {0}, NEW old, Sound(old, m),
           Cardinality(InUse(old)) < n, NEW i \in 0..m - 1, i \in InUse(old),
           NEW b, Refilled(b, n, old, i)
    PROVE  LET ts == internal_insert(b, Home(b, old[i].key), AtHome(old[i]))
           IN  /\ \A t \in ts : Refilled(t, n, old, i + 1)
               /\ ts = {} => Crowded(old)
<1> DEFINE e == old[i]
           c == AtHome(e)
           x == Home(b, e.key)
           ts == internal_insert(b, x, c)
<1>0. old \in Storage(m) /\ b \in Storage(n) /\ Sound(b, n)
  BY DEF Sound, Table, Refilled
<1>1. e \in Live /\ e.key \in Key
  BY <1>0, StorageFacts
<1>2. c \in Live /\ c.key = e.key /\ c.dib = 1 /\ Pair(c) = Pair(e)
  BY <1>1, AtHomeIs
<1>3. x \in 0..n - 1 /\ Far(Hash[e.key], x, n) = 0
  BY <1>0, <1>1, HomeIs
<1>4. /\ Cardinality(Early(old, i)) \in Nat
      /\ Cardinality(Early(old, i)) <= Cardinality(InUse(old))
      /\ Early(old, i + 1) = Early(old, i) \cup {i}
      /\ Cardinality(Early(old, i + 1)) = Cardinality(Early(old, i)) + 1
  BY <1>0, EarlyIs
<1>5. Cardinality(InUse(b)) = Cardinality(Early(old, i)) /\ Cardinality(InUse(old)) \in Nat
  BY <1>0, StorageFacts DEF Refilled
<1>6. Roomy(b, n)
  BY <1>0, <1>4, <1>5, RoomIs
<1>7. ASSUME NEW s \in InUse(b)
      PROVE  b[s].key # e.key
  <2>1. Pair(b[s]) \in {Pair(old[u]) : u \in Early(old, i)}
    BY DEF Refilled, Pairs
  <2>2. PICK u \in Early(old, i) : Pair(b[s]) = Pair(old[u])
    BY <2>1
  <2>3. b[s].key = old[u].key /\ u \in InUse(old) /\ u < i
    BY <2>2 DEF Pair, Early
  <2>4. QED
    BY <1>0, <2>3, StorageFacts DEF Sound, Unique
<1>8. \A s \in 0..n - 1 : c.dib <= b[s].dib + 1
  BY <1>0, <1>2, StorageFacts
<1>9. Fits(b, n, c, x)
  <2> HIDE DEF e, c, x
  <2>1. QED
    BY <1>2, <1>3, <1>7, <1>8 DEF Fits
<1>10. (\A t \in ts : Done(t, b, c, n)) /\ (ts = {} => Crowded(b))
  <2> HIDE DEF e, c, x
  <2>1. QED
    BY <1>0, <1>6, <1>9, InsertIs
<1>11. ts = {} => Crowded(old)
  <2>1. Cardinality(InUse(b)) <= Cardinality(InUse(old)) /\ kMaxDistance \in Nat
    BY <1>4, <1>5, MapConstants
  <2>2. Crowded(b) => Crowded(old)
    BY <1>4, <1>5, <2>1 DEF Crowded
  <2>3. QED
    BY <1>10, <2>2
<1>12. ASSUME NEW t \in ts
       PROVE  Refilled(t, n, old, i + 1)
  <2>1. Done(t, b, c, n)
    BY <1>10
  <2> HIDE DEF c, x, ts
  <2>2. Cardinality(InUse(t)) = Cardinality(InUse(b)) + 1
    BY <1>0, <2>1, DoneCounts
  <2>3. Pairs(t) = Pairs(b) \cup {Pair(e)} /\ Sound(t, n)
    BY <1>2, <2>1 DEF Done
  <2>4. {Pair(old[s]) : s \in Early(old, i + 1)} =
            {Pair(old[s]) : s \in Early(old, i)} \cup {Pair(e)}
    BY <1>4
  <2>5. Pairs(b) = {Pair(old[s]) : s \in Early(old, i)}
    BY DEF Refilled
  <2>6. QED
    BY <1>4, <1>5, <2>2, <2>3, <2>4, <2>5 DEF Refilled
<1>13. QED
  BY <1>11, <1>12

LEMMA RebuildIs ==
    ASSUME NEW n \in Nat \ {0}, NEW m \in Nat \ {0}, NEW old, Sound(old, m),
           Cardinality(InUse(old)) < n
    PROVE  /\ \A b \in Rebuild(old, n) : /\ Sound(b, n) /\ Pairs(b) = Pairs(old)
                                         /\ Cardinality(InUse(b)) = Cardinality(InUse(old))
           /\ Rebuild(old, n) = {} => Crowded(old)
<1> DEFINE g == Rebuilt(old, n)
           Good(F, i) == (\A b \in F : Refilled(b, n, old, i)) /\ (F = {} => Crowded(old))
           T == {i \in Nat : i <= m => Good(g[i], i)}
<1>0. old \in Storage(m)
  BY DEF Sound, Table
<1>1. /\ g[0] = {Blank(n)} /\ Rebuild(old, n) = g[m]
      /\ \A i \in 1..m : g[i] = Refill(g[i - 1], old[i - 1])
  BY <1>0, RebuiltDef
<1> HIDE DEF g
<1>2. 0 \in T
  <2>1. Early(old, 0) = {}
    BY <1>0, EarlyIs
  <2>2. Refilled(Blank(n), n, old, 0)
    BY <2>1, BlankIs DEF Refilled
  <2>3. QED
    BY <1>1, <2>2
<1>3. ASSUME NEW i \in Nat, i \in T
      PROVE  i + 1 \in T
  <2> SUFFICES ASSUME i + 1 <= m
               PROVE  Good(g[i + 1], i + 1)
    OBVIOUS
  <2>1. i \in 0..m - 1 /\ i + 1 \in 1..m /\ (i + 1) - 1 = i /\ Good(g[i], i)
    BY <1>3
  <2>2. g[i + 1] = Refill(g[i], old[i])
    BY <1>1, <2>1
  <2>3. CASE old[i].dib = 0
    <3>1. i \notin InUse(old) /\ g[i + 1] = g[i]
      BY <2>2, <2>3 DEF InUse, Refill
    <3>2. Early(old, i + 1) = Early(old, i)
      BY <1>0, <3>1, EarlyIs
    <3>3. QED
      BY <2>1, <3>1, <3>2 DEF Refilled
  <2>4. CASE old[i].dib # 0
    <3>1. i \in InUse(old)
      BY <1>0, <2>1, <2>4, StorageFacts
    <3> DEFINE ts(b) == internal_insert(b, Home(b, old[i].key), AtHome(old[i]))
    <3>2. g[i + 1] = UNION {ts(b) : b \in g[i]}
      BY <2>2, <2>4 DEF Refill
    <3>3. \A b \in g[i] : /\ \A t \in ts(b) : Refilled(t, n, old, i + 1)
                          /\ ts(b) = {} => Crowded(old)
      BY <2>1, <3>1, Refills
    <3> HIDE DEF ts
    <3>4. \A t \in g[i + 1] : Refilled(t, n, old, i + 1)
      <4>1. ASSUME NEW t \in g[i + 1]
            PROVE  Refilled(t, n, old, i + 1)
        <5>1. PICK b \in g[i] : t \in ts(b)
          BY <3>2
        <5>2. QED
          BY <3>3, <5>1
      <4>2. QED
        BY <4>1
    <3>5. ASSUME g[i + 1] = {}
          PROVE  Crowded(old)
      <4>1. CASE g[i] = {}
        BY <2>1, <4>1
      <4>2. CASE g[i] # {}
        <5>1. PICK b \in g[i] : TRUE
          BY <4>2
        <5>2. ts(b) = {}
          BY <3>2, <3>5, <5>1
        <5>3. QED
          BY <3>3, <5>1, <5>2
      <4>3. QED
        BY <4>1, <4>2
    <3>6. QED
      BY <3>4, <3>5
  <2>5. QED
    BY <2>3, <2>4
<1> HIDE DEF T
<1>4. m \in T
  BY <1>2, <1>3, Induction
<1>5. Good(g[m], m)
  BY <1>4 DEF T
<1>6. Early(old, m) = InUse(old)
  <2>1. m \in Nat
    OBVIOUS
  <2>2. QED
    BY <1>0, EarlyIs
<1>7. QED
  BY <1>1, <1>5, <1>6 DEF Refilled, Pairs

-------------------------------------------------------------------------------
(* Sizes                                                                   *)

LEMMA DoubledIs == \A i \in 0..Shifts : Doubled[i] \in Nat \ {0, 1}
<1> DEFINE D == Nat \ {0, 1}
           n == Shifts
           base == MinSize
           step == [k \in 1..n |-> [q \in D |-> 2 * q]]
           Is(f) == f = [i \in 0..n |-> IF i = 0 THEN base ELSE 2 * f[i - 1]]
<1>0. n \in Nat /\ base \in D
  BY MapConstants
<1>1. step \in Steps(n, D)
  <2>1. \A q \in D : 2 * q \in D
    OBVIOUS
  <2> HIDE DEF D
  <2>2. QED
    BY <2>1 DEF Steps
<1>2. \A k \in 1..n : \A q \in D : step[k][q] = 2 * q
  OBVIOUS
<1> HIDE DEF step, D, base, n
<1>3. PICK f : Follows(f, n, D, base, step)
  BY <1>0, <1>1, Recursion
<1>4. Is(f)
  <2>1. \A k \in 1..n : f[k] = 2 * f[k - 1]
    <3>1. \A k \in 1..n : k - 1 \in 0..n
      BY <1>0
    <3>2. QED
      BY <1>2, <1>3, <3>1 DEF Follows
  <2>2. \A k \in 0..n : f[k] = IF k = 0 THEN base ELSE 2 * f[k - 1]
    <3>1. \A k \in 0..n : k = 0 \/ k \in 1..n
      BY <1>0
    <3>2. QED
      BY <1>3, <2>1, <3>1 DEF Follows
  <2>3. f = [k \in 0..n |-> f[k]]
    BY <1>3 DEF Follows
  <2>4. QED
    BY <2>2, <2>3
<1>5. Is(Doubled)
  <2>1. Doubled = CHOOSE h : Is(h)
    BY DEF Doubled, n, base
  <2> HIDE DEF Is
  <2>2. QED
    BY <1>4, <2>1
<1> DEFINE g == Doubled
<1> HIDE DEF g
<1>6. /\ DOMAIN g = 0..n /\ g = [k \in 0..n |-> g[k]] /\ g[0] = base
      /\ \A k \in 1..n : g[k] = 2 * g[k - 1]
  <2>1. DOMAIN g = 0..n /\ g = [k \in 0..n |-> g[k]]
    BY <1>5 DEF g
  <2>2. \A k \in 0..n : g[k] = IF k = 0 THEN base ELSE 2 * g[k - 1]
    BY <1>5 DEF g
  <2>3. 0 \in 0..n /\ \A k \in 1..n : k \in 0..n /\ k # 0
    BY <1>0
  <2>4. QED
    BY <2>1, <2>2, <2>3
<1>7. Follows(g, n, D, base, step)
  BY <1>0, <1>1, <1>2, <1>6, Unrolled
<1>8. \A i \in 0..n : g[i] \in D
  BY <1>7 DEF Follows
<1>9. QED
  BY <1>8 DEF g, D, n

LEMMA LoadFactorIs ==
    /\ \A n \in Nat \ {0} : calc_maxsize(n) \in Nat /\ calc_maxsize(n) < n
    /\ calc_maxsize(1) = 0
<1>1. \A n \in Nat \ {0} : (n * 80) \div 100 \in Nat /\ (n * 80) \div 100 < n
  OBVIOUS
<1>2. (1 * 80) \div 100 = 0
  OBVIOUS
<1>3. QED
  BY <1>1, <1>2 DEF calc_maxsize, kMaxLoadFactor

LEMMA NewSizeIs ==
    ASSUME NEW c, Enough(c) # {}
    PROVE  NewSize(c) \in Nat \ {0, 1} /\ calc_maxsize(NewSize(c)) >= c
<1>1. Enough(c) \subseteq Nat \ {0, 1}
  BY DoubledIs DEF Enough
<1>2. \E i \in Enough(c) : \A j \in Enough(c) : i <= j
  BY <1>1, Least
<1>3. NewSize(c) \in Enough(c)
  BY <1>2 DEF NewSize
<1>4. QED
  BY <1>1, <1>3 DEF Enough

-------------------------------------------------------------------------------
(* What the operations do to a table                                       *)

LEMMA PairsAre ==
    ASSUME NEW n \in Nat \ {0}, NEW b, Sound(b, n)
    PROVE  /\ Pairs(b) \subseteq Key \X Mapped
           /\ \A k \in Key, o \in Mapped :
                  <<k, o>> \in Pairs(b) <=> \E s \in At(b, k) : b[s].obj = o
           /\ \A k : \A s, t \in At(b, k) : s = t
           /\ \A k : \A s \in At(b, k) :
                 s \in 0..n - 1 /\ b[s] \in Live /\ Pair(b[s]) = <<k, b[s].obj>>
<1>1. \A s \in InUse(b) : s \in 0..n - 1 /\ b[s] \in Live
  BY StorageFacts DEF Sound, Table
<1>2. \A s \in InUse(b) : b[s].key \in Key /\ b[s].obj \in Mapped
  BY <1>1, BucketFacts
<1>3. QED
  BY <1>1, <1>2 DEF Pairs, Pair, At, Sound, Unique

(* An entry is put where its key's probe ended.                            *)
LEMMA StoreNew ==
    ASSUME NEW n \in Nat \ {0}, NEW b, Sound(b, n), Roomy(b, n), NEW k \in Key, NEW o \in Mapped,
           b[Reached(b, k).slot].key # k
    PROVE  LET p == Reached(b, k)
           IN  /\ Reinserted(b, p) = {} => Crowded(b)
               /\ \A t \in Reinserted(b, p) : Done(With(t, p.slot, Entry(k, o, p.dib)), b,
                                                   Entry(k, o, p.dib), n)
<1> DEFINE p == Reached(b, k)
           x == p.slot
           c == Entry(k, o, p.dib)
<1>0. b \in Storage(n) /\ Size(b) = n /\ Table(b, n)
  BY StorageFacts DEF Sound, Table
<1>1. Fits(b, n, c, x) /\ b[x].dib < p.dib /\ c.dib = p.dib
  BY ReachedIs DEF Entry
<1> HIDE DEF c
<1>2. c \in Live /\ c \in Bucket /\ x \in 0..n - 1
  BY <1>1 DEF Fits, Bucket
<1> HIDE DEF p
<1>3. CASE b[x].dib = 0
  <2>1. Reinserted(b, p) = {b}
    BY <1>3 DEF Reinserted
  <2>2. Done(With(b, x, c), b, c, n)
    <3>1. x \notin InUse(b)
      BY <1>3 DEF InUse
    <3>2. Sound(With(b, x, c), n) /\ InUse(With(b, x, c)) = InUse(b) \cup {x}
      BY <1>1, PutDown
    <3>3. Pairs(With(b, x, c)) = Pairs(b) \cup {Pair(c)}
      BY <1>0, <1>2, <3>1, PutPairs
    <3>4. QED
      BY <1>2, <3>1, <3>2, <3>3 DEF Done
  <2>3. QED
    BY <2>1, <2>2 DEF p, c
<1>4. CASE b[x].dib # 0
  <2> DEFINE a == With(b, x, c)
             y == Follow(x, n)
             e == Onward(b[x])
             l == Turns(a, y, e)[n]
             m == Turns(b, y, e)[n]
  <2>1. Reinserted(b, p) = internal_insert(b, y, e)
    <3>1. After(b, p.slot) = y
      BY <1>0 DEF After, Follow
    <3>2. QED
      BY <1>4, <3>1 DEF Reinserted, Onward
  <2>2. Reinserted(b, p) = {t \in {m.table} : m.end = "placed"}
    BY <1>0, <2>1, InsertDef
  <2>3. /\ Sound(a, n) /\ InUse(a) = InUse(b) /\ Fits(a, n, e, y)
        /\ Pairs(a) \cup {Pair(e)} = Pairs(b) \cup {Pair(c)}
    <3>1. b[x].dib < c.dib
      BY <1>1
    <3>2. QED
      BY <1>1, <1>4, <3>1, Displace
  <2>4. Roomy(a, n) /\ x \in InUse(a)
    <3>1. x \in InUse(b)
      BY <1>0, <1>2, <1>4, StorageFacts
    <3>2. a \in Storage(n)
      BY <2>3 DEF Sound, Table
    <3> HIDE DEF a
    <3>3. \A s \in 0..n - 1 : b[s].dib = 0 <=> s \notin InUse(b)
      BY <1>0, StorageFacts
    <3>4. \A s \in 0..n - 1 : a[s].dib = 0 <=> s \notin InUse(a)
      BY <3>2, StorageFacts
    <3>5. QED
      BY <2>3, <3>1, <3>3, <3>4 DEF Roomy
  <2>5. Beside(l, m, x, c)
    <3> HIDE DEF e
    <3>1. QED
      BY <1>0, <1>2, <2>3, <2>4, InsertBeside
  <2>6. (l.end = "placed" => Done(l.table, a, e, n)) /\ (l.end # "placed" => Crowded(a))
    <3> HIDE DEF a, e, y
    <3>1. QED
      BY <2>3, <2>4, InsertEnds
  <2> HIDE DEF l, m, e
  <2>7. Crowded(a) => Crowded(b)
    BY <2>3 DEF Crowded
  <2>8. m.end = "placed" => Done(With(m.table, x, c), b, c, n)
    <3> SUFFICES ASSUME m.end = "placed"
                 PROVE  Done(With(m.table, x, c), b, c, n)
      OBVIOUS
    <3>1. l.table = With(m.table, x, c) /\ Done(l.table, a, e, n)
      BY <2>5, <2>6 DEF Beside
    <3> HIDE DEF a
    <3>2. QED
      BY <2>3, <3>1 DEF Done
  <2>9. m.end # "placed" => Crowded(b)
    BY <2>5, <2>6, <2>7 DEF Beside
  <2>10. QED
    BY <2>2, <2>8, <2>9 DEF p, c
<1>5. QED
  BY <1>3, <1>4

(* An object is replaced.                                                  *)
LEMMA StoreOld ==
    ASSUME NEW n \in Nat \ {0}, NEW b, Sound(b, n), NEW k, NEW x \in At(b, k), NEW v \in Mapped
    PROVE  LET t == With(b, x, [b[x] EXCEPT !.obj = v])
           IN  /\ Sound(t, n) /\ InUse(t) = InUse(b)
               /\ Pairs(t) = PairsBut(b, x) \cup {<<k, v>>}
<1> DEFINE e == [b[x] EXCEPT !.obj = v]
           t == With(b, x, e)
<1>0. b \in Storage(n) /\ Placed(b, n) /\ Smooth(b, n) /\ Unique(b)
  BY DEF Sound, Table
<1>1. x \in 0..n - 1 /\ x \in InUse(b) /\ b[x].key = k /\ b[x] \in Live
  BY PairsAre DEF At
<1>2. e \in Live /\ e.key = k /\ e.dib = b[x].dib /\ Pair(e) = <<k, v>>
  BY <1>1 DEF Live, Pair
<1> HIDE DEF e
<1>3. t \in Storage(n) /\ t[x] = e /\ \A s \in 0..n - 1 : s # x => t[s] = b[s]
  BY <1>0, <1>1, <1>2, WithFacts DEF Bucket
<1>4. Pairs(t) = PairsBut(b, x) \cup {<<k, v>>}
  BY <1>0, <1>1, <1>2, PutPairs
<1> HIDE DEF t
<1>5. \A s \in 0..n - 1 : t[s].key = b[s].key /\ t[s].dib = b[s].dib
  BY <1>1, <1>2, <1>3
<1>6. InUse(t) = InUse(b)
  BY <1>0, <1>3, <1>5, StorageFacts
<1>7. Placed(t, n)
  BY <1>0, <1>5 DEF Placed
<1>8. Smooth(t, n)
  <2>1. \A s \in 0..n - 1 : Follow(s, n) \in 0..n - 1
    BY FarFollow
  <2>2. QED
    BY <1>0, <1>5, <2>1 DEF Smooth
<1>9. Unique(t)
  <2>1. InUse(b) \subseteq 0..n - 1
    BY <1>0, StorageFacts
  <2>2. QED
    BY <1>0, <1>5, <1>6, <2>1 DEF Unique
<1>10. QED
  BY <1>3, <1>4, <1>6, <1>7, <1>8, <1>9 DEF Sound, Table, t, e

(* What find returns.                                                      *)
ValueIn(b, k) == IF find_key(b, k) = {} THEN NoMapped
                 ELSE b[CHOOSE slot \in find_key(b, k) : TRUE].obj

LEMMA ValueIs ==
    ASSUME NEW n \in Nat \ {0}, NEW b, Sound(b, n), NEW k \in Key
    PROVE  /\ \A o \in Mapped : <<k, o>> \in Pairs(b) => ValueIn(b, k) = o
           /\ (\A o \in Mapped : <<k, o>> \notin Pairs(b)) => ValueIn(b, k) = NoMapped
           /\ ValueIn(b, k) # NoMapped => <<k, ValueIn(b, k)>> \in Pairs(b)
           /\ ValueIn(b, k) = NoMapped => At(b, k) = {}
           /\ At(b, k) = {} => ValueIn(b, k) = NoMapped
<1>1. find_key(b, k) = At(b, k)
  BY FindIs
<1>2. CASE At(b, k) = {}
  BY <1>1, <1>2, PairsAre DEF ValueIn
<1>3. CASE At(b, k) # {}
  <2> DEFINE s == CHOOSE slot \in At(b, k) : TRUE
  <2>1. s \in At(b, k) /\ ValueIn(b, k) = b[s].obj
    BY <1>1, <1>3 DEF ValueIn
  <2> HIDE DEF s
  <2>2. b[s].obj \in Mapped
    BY <2>1, PairsAre, BucketFacts
  <2>3. b[s].obj # NoMapped
    BY <2>2, MapConstants
  <2>4. \A o \in Mapped : <<k, o>> \in Pairs(b) <=> b[s].obj = o
    BY <2>1, PairsAre
  <2>5. QED
    BY <1>3, <2>1, <2>2, <2>3, <2>4
<1>4. QED
  BY <1>2, <1>3

(* Keys other than k keep their objects.                                   *)
OthersKept(b, t, k) ==
    \A j \in Key \ {k}, o \in Mapped : <<j, o>> \in Pairs(t) <=> <<j, o>> \in Pairs(b)

LEMMA OthersValue ==
    ASSUME NEW n \in Nat \ {0}, NEW b, Sound(b, n), NEW m \in Nat \ {0}, NEW t, Sound(t, m), NEW k,
           OthersKept(b, t, k), NEW j \in Key \ {k}
    PROVE  ValueIn(t, j) = ValueIn(b, j)
<1>1. CASE \E o \in Mapped : <<j, o>> \in Pairs(b)
  <2>1. PICK o \in Mapped : <<j, o>> \in Pairs(b)
    BY <1>1
  <2>2. <<j, o>> \in Pairs(t)
    BY <2>1 DEF OthersKept
  <2>3. QED
    BY <2>1, <2>2, ValueIs
<1>2. CASE ~\E o \in Mapped : <<j, o>> \in Pairs(b)
  <2>1. \A o \in Mapped : <<j, o>> \notin Pairs(b) /\ <<j, o>> \notin Pairs(t)
    BY <1>2 DEF OthersKept
  <2>2. QED
    BY <2>1, ValueIs
<1>3. QED
  BY <1>1, <1>2

Objects(b) == [k \in Key |-> ValueIn(b, k)]

LEMMA SameContents ==
    ASSUME NEW n \in Nat \ {0}, NEW b, Sound(b, n), NEW m \in Nat \ {0}, NEW t, Sound(t, m),
           Pairs(t) = Pairs(b)
    PROVE  Objects(t) = Objects(b)
<1>1. ASSUME NEW j \in Key
      PROVE  ValueIn(t, j) = ValueIn(b, j)
  <2>1. OthersKept(b, t, NoKey) /\ j \in Key \ {NoKey}
    BY MapConstants DEF OthersKept
  <2>2. QED
    BY <2>1, OthersValue
<1>2. QED
  BY <1>1 DEF Objects

LEMMA ContentsWith ==
    ASSUME NEW n \in Nat \ {0}, NEW b, Sound(b, n), NEW m \in Nat \ {0}, NEW t, Sound(t, m),
           NEW k \in Key, OthersKept(b, t, k), NEW v, ValueIn(t, k) = v
    PROVE  Objects(t) = With(Objects(b), k, v)
<1>1. \A j \in Key \ {k} : ValueIn(t, j) = ValueIn(b, j)
  BY OthersValue
<1>2. QED
  BY <1>1 DEF Objects, With

LEMMA AddedContents ==
    ASSUME NEW n \in Nat \ {0}, NEW b, Sound(b, n), NEW m \in Nat \ {0}, NEW t, Sound(t, m),
           NEW k \in Key, NEW o \in Mapped, At(b, k) = {}, Pairs(t) = Pairs(b) \cup {<<k, o>>}
    PROVE  Objects(b)[k] = NoMapped /\ Objects(t) = With(Objects(b), k, o)
<1>1. Objects(b)[k] = NoMapped
  BY ValueIs DEF Objects
<1>2. OthersKept(b, t, k)
  BY DEF OthersKept
<1>3. ValueIn(t, k) = o
  BY ValueIs
<1>4. QED
  BY <1>1, <1>2, <1>3, ContentsWith

LEMMA PairsButAre ==
    ASSUME NEW n \in Nat \ {0}, NEW b, Sound(b, n), NEW k \in Key, NEW x \in At(b, k)
    PROVE  /\ \A j \in Key \ {k}, o \in Mapped :
                 <<j, o>> \in PairsBut(b, x) <=> <<j, o>> \in Pairs(b)
           /\ \A o \in Mapped : <<k, o>> \notin PairsBut(b, x)
<1>1. \A s \in InUse(b) : b[s].key = k => s = x
  BY DEF At, Sound, Unique
<1>2. x \in InUse(b) /\ b[x].key = k
  BY DEF At
<1>3. QED
  BY <1>1, <1>2 DEF PairsBut, Pairs, Pair

LEMMA ReplacedContents ==
    ASSUME NEW n \in Nat \ {0}, NEW b, Sound(b, n), NEW m \in Nat \ {0}, NEW t, Sound(t, m),
           NEW k \in Key, NEW o \in Mapped, NEW x \in At(b, k),
           Pairs(t) = PairsBut(b, x) \cup {<<k, o>>}
    PROVE  Objects(b)[k] # NoMapped /\ Objects(t) = With(Objects(b), k, o)
<1>1. Objects(b)[k] # NoMapped
  BY ValueIs DEF Objects
<1>2. OthersKept(b, t, k)
  BY PairsButAre DEF OthersKept
<1>3. ValueIn(t, k) = o
  BY ValueIs
<1>4. QED
  BY <1>1, <1>2, <1>3, ContentsWith

LEMMA RemovedContents ==
    ASSUME NEW n \in Nat \ {0}, NEW b, Sound(b, n), NEW m \in Nat \ {0}, NEW t, Sound(t, m),
           NEW k \in Key, NEW x \in At(b, k), Pairs(t) = PairsBut(b, x)
    PROVE  Objects(b)[k] # NoMapped /\ Objects(t) = With(Objects(b), k, NoMapped)
<1>1. Objects(b)[k] # NoMapped
  BY ValueIs DEF Objects
<1>2. OthersKept(b, t, k) /\ \A o \in Mapped : <<k, o>> \notin Pairs(t)
  BY PairsButAre DEF OthersKept
<1>3. ValueIn(t, k) = NoMapped
  BY <1>2, ValueIs
<1>4. QED
  BY <1>1, <1>2, <1>3, ContentsWith

-------------------------------------------------------------------------------
(* The inductive invariant of flatmap.                                     *)

MapInv ==
    /\ Size(buckets) \in Nat \ {0} /\ Sound(buckets, Size(buckets))
    /\ m_size = Cardinality(InUse(buckets))
    /\ m_maxsize = calc_maxsize(Size(buckets)) /\ m_size <= m_maxsize
    /\ strained \in BOOLEAN
    /\ strained => m_size >= kMaxDistance - 1

LEMMA SoundSize ==
    ASSUME NEW n \in Nat \ {0}, NEW b, Sound(b, n)
    PROVE  Size(b) = n /\ b \in Storage(n) /\ Cardinality(InUse(b)) \in Nat
BY StorageFacts DEF Sound, Table

LEMMA InvFacts ==
    ASSUME MapInv
    PROVE  /\ m_size \in Nat /\ m_maxsize \in Nat /\ m_size < Size(buckets)
           /\ buckets \in Storage(Size(buckets)) /\ Roomy(buckets, Size(buckets))
<1> DEFINE n == Size(buckets)
<1>1. n \in Nat \ {0} /\ Sound(buckets, n) /\ m_size = Cardinality(InUse(buckets))
  BY DEF MapInv
<1>2. m_maxsize = calc_maxsize(n) /\ m_size <= m_maxsize
  BY DEF MapInv
<1> HIDE DEF n
<1>3. m_size \in Nat /\ buckets \in Storage(n)
  BY <1>1, SoundSize
<1>4. m_maxsize \in Nat /\ m_maxsize < n
  BY <1>1, <1>2, LoadFactorIs
<1>5. Roomy(buckets, n)
  BY <1>1, <1>2, <1>3, <1>4, RoomIs
<1>6. QED
  BY <1>1, <1>2, <1>3, <1>4, <1>5 DEF n

(* The table of the next state.                                            *)
LEMMA InvAgain ==
    ASSUME NEW n \in Nat \ {0}, Sound(buckets', n), m_size' = Cardinality(InUse(buckets')),
           m_maxsize' = calc_maxsize(Size(buckets')), m_size' <= calc_maxsize(n), strained' = FALSE
    PROVE  MapInv'
<1>1. Size(buckets') = n
  BY SoundSize
<1>2. QED
  BY <1>1 DEF MapInv

LEMMA InitMapInv ==
    ASSUME MapInit
    PROVE  MapInv /\ Objects(buckets) = [k \in Key |-> NoMapped]
<1> DEFINE n == 1
           b == Blank(n)
<1>1. n \in Nat \ {0} /\ calc_maxsize(n) = 0 /\ buckets = b
  BY LoadFactorIs DEF MapInit
<1> HIDE DEF n
<1>2. Sound(b, n) /\ InUse(b) = {} /\ Pairs(b) = {}
  BY <1>1, BlankIs
<1> HIDE DEF b
<1>3. Size(b) = n /\ Cardinality({}) = 0
  BY <1>1, <1>2, SoundSize, FS_EmptySet
<1>4. MapInv
  <2>1. m_size = 0 /\ m_maxsize = 0 /\ strained = FALSE
    BY DEF MapInit
  <2>2. /\ Size(buckets) = n /\ Sound(buckets, n) /\ Cardinality(InUse(buckets)) = 0
        /\ calc_maxsize(Size(buckets)) = 0
    BY <1>1, <1>2, <1>3
  <2>3. /\ Size(buckets) \in Nat \ {0} /\ Sound(buckets, Size(buckets))
        /\ m_size = Cardinality(InUse(buckets)) /\ m_maxsize = calc_maxsize(Size(buckets))
        /\ m_size <= m_maxsize
    BY <1>1, <2>1, <2>2
  <2>4. QED
    BY <2>1, <2>3 DEF MapInv
<1>5. \A k \in Key : ValueIn(b, k) = NoMapped
  BY <1>1, <1>2, ValueIs
<1>6. QED
  BY <1>1, <1>4, <1>5 DEF Objects

(* The table find_or_insert probes holds the same and has room for one more. *)
LEMMA GrownIs ==
    ASSUME MapInv, Full => Enough(AtLeast(2 * Size(buckets))) # {}
    PROVE  /\ Grown = {} => Crowded(buckets)
           /\ \A b \in Grown : /\ Size(b) \in Nat \ {0} /\ Sound(b, Size(b))
                               /\ Pairs(b) = Pairs(buckets)
                               /\ Cardinality(InUse(b)) = m_size
                               /\ m_size + 1 <= calc_maxsize(Size(b))
<1> DEFINE n == Size(buckets)
<1>1. n \in Nat \ {0} /\ Sound(buckets, n) /\ m_size = Cardinality(InUse(buckets))
  BY DEF MapInv
<1>2. m_maxsize = calc_maxsize(n) /\ m_size \in Nat /\ m_maxsize \in Nat /\ m_size < n
  BY InvFacts DEF MapInv
<1>3. CASE ~Full
  <2>1. Grown = {buckets} /\ m_size + 1 <= calc_maxsize(n)
    BY <1>2, <1>3 DEF Grown, Full
  <2>2. QED
    BY <1>1, <2>1
<1>4. CASE Full
  <2> DEFINE c == AtLeast(2 * n)
             m == NewSize(c)
  <2>1. Grown = Rebuild(buckets, m)
    BY <1>4 DEF Grown, Larger
  <2> HIDE DEF n
  <2>2. c \in Nat /\ c >= 2 * n /\ Enough(c) # {}
    BY <1>1, <1>2, <1>4 DEF AtLeast, n
  <2> HIDE DEF c
  <2>3. m \in Nat \ {0} /\ calc_maxsize(m) >= c
    BY <2>2, NewSizeIs
  <2> HIDE DEF m
  <2>4. calc_maxsize(m) \in Nat /\ calc_maxsize(m) < m
    BY <2>3, LoadFactorIs
  <2>5. m_size < m /\ m_size + 1 <= calc_maxsize(m)
    BY <1>1, <1>2, <2>2, <2>3, <2>4
  <2>6. /\ \A b \in Rebuild(buckets, m) : /\ Sound(b, m) /\ Pairs(b) = Pairs(buckets)
                                          /\ Cardinality(InUse(b)) = Cardinality(InUse(buckets))
        /\ Rebuild(buckets, m) = {} => Crowded(buckets)
    BY <1>1, <2>3, <2>5, RebuildIs
  <2>7. \A b \in Grown : Size(b) = m
    BY <2>1, <2>3, <2>6, SoundSize
  <2>8. QED
    BY <1>1, <2>1, <2>3, <2>5, <2>6, <2>7
<1>5. QED
  BY <1>3, <1>4

(* What an operation comes to for the map's user.                          *)
Stays == Objects(buckets') = Objects(buckets) /\ m_size' = m_size
Inserted(k, o) == /\ Objects(buckets)[k] = NoMapped /\ m_size' = m_size + 1
                  /\ Objects(buckets') = With(Objects(buckets), k, o)
Assigned(k, o) == /\ Objects(buckets)[k] # NoMapped /\ m_size' = m_size
                  /\ Objects(buckets') = With(Objects(buckets), k, o)
Erased(k) == /\ Objects(buckets)[k] # NoMapped /\ m_size' = m_size - 1
             /\ Objects(buckets') = With(Objects(buckets), k, NoMapped)

LEMMA StrainIs ==
    ASSUME MapInv, Crowded(buckets), Strain
    PROVE  MapInv' /\ Stays
<1>1. m_size >= kMaxDistance - 1
  BY DEF MapInv, Crowded
<1>2. buckets' = buckets /\ m_maxsize' = m_maxsize /\ m_size' = m_size /\ strained' = TRUE
  BY DEF Strain
<1>3. QED
  BY <1>1, <1>2 DEF MapInv, Stays

LEMMA StoreIs ==
    ASSUME MapInv, ~strained, NEW k \in Key, NEW o \in Mapped, NEW replace \in BOOLEAN,
           Store(k, o, replace)
    PROVE  MapInv' /\ (Stays \/ Inserted(k, o) \/ \E v \in Mapped : Assigned(k, v))
<1>1. Full => Enough(AtLeast(2 * Size(buckets))) # {}
  BY DEF Store
<1>2. strained = FALSE
  BY DEF MapInv
<1>3. CASE Grown = {}
  <2>1. Strain
    BY <1>3 DEF Store
  <2>2. Crowded(buckets)
    BY <1>1, <1>3, GrownIs
  <2>3. QED
    BY <2>1, <2>2, StrainIs
<1>4. CASE Grown # {}
  <2> DEFINE p(b) == Reached(b, k)
             Old(b) == [b EXCEPT ![p(b).slot].obj = IF replace THEN o ELSE @]
             New(t, b) == [t EXCEPT ![p(b).slot] = Entry(k, o, p(b).dib)]
  <2>1. PICK b \in Grown :
           IF b[p(b).slot].key = k
           THEN Install(Old(b)) /\ UNCHANGED m_size
           ELSE IF Reinserted(b, p(b)) = {} THEN Strain
                ELSE /\ \E t \in Reinserted(b, p(b)) : Install(New(t, b))
                     /\ m_size' = m_size + 1
    BY <1>4 DEF Store
  <2> DEFINE n == Size(b)
             x == p(b).slot
             c == Entry(k, o, p(b).dib)
  <2>2. /\ n \in Nat \ {0} /\ Sound(b, n) /\ Pairs(b) = Pairs(buckets)
        /\ Cardinality(InUse(b)) = m_size /\ m_size + 1 <= calc_maxsize(n)
    BY <1>1, GrownIs
  <2>3. b \in Storage(n) /\ m_size \in Nat /\ calc_maxsize(n) \in Nat /\ calc_maxsize(n) < n
    BY <2>2, SoundSize, InvFacts, LoadFactorIs
  <2>4. Roomy(b, n)
    BY <2>2, <2>3, RoomIs
  <2>5. Objects(b) = Objects(buckets)
    BY <2>2, SameContents DEF MapInv
  <2>6. CASE b[x].key = k
    <3> DEFINE v == IF replace THEN o ELSE b[x].obj
               t == With(b, x, [b[x] EXCEPT !.obj = v])
    <3>1. x \in At(b, k)
      BY <2>2, <2>4, <2>6, ReachedIs
    <3>2. x \in 0..n - 1 /\ b[x] \in Live
      BY <2>2, <3>1, PairsAre
    <3>3. v \in Mapped
      BY <3>2, BucketFacts
    <3>4. Old(b) = t
      BY <2>3, <3>2 DEF With, Live
    <3>5. /\ buckets' = t /\ m_maxsize' = calc_maxsize(Size(t)) /\ strained' = strained
          /\ m_size' = m_size
      BY <2>1, <2>6, <3>4 DEF Install
    <3> HIDE DEF v, n, x
    <3>6. /\ Sound(t, n) /\ InUse(t) = InUse(b)
          /\ Pairs(t) = PairsBut(b, x) \cup {<<k, v>>}
      BY <2>2, <3>1, <3>3, StoreOld
    <3> HIDE DEF t
    <3>7. MapInv'
      <4>1. m_size' <= calc_maxsize(n)
        BY <2>2, <2>3, <3>5
      <4>2. QED
        BY <1>2, <2>2, <3>5, <3>6, <4>1, InvAgain
    <3>8. Assigned(k, v)
      <4>1. Objects(b)[k] # NoMapped /\ Objects(t) = With(Objects(b), k, v)
        BY <2>2, <3>1, <3>3, <3>6, ReplacedContents
      <4>2. QED
        BY <2>5, <3>5, <4>1 DEF Assigned
    <3>9. QED
      BY <3>3, <3>7, <3>8
  <2>7. CASE b[x].key # k
    <3>1. /\ At(b, k) = {}
          /\ Reinserted(b, p(b)) = {} => Crowded(b)
          /\ \A t \in Reinserted(b, p(b)) : Done(With(t, x, c), b, c, n)
      BY <2>2, <2>4, <2>7, ReachedIs, StoreNew
    <3>2. CASE Reinserted(b, p(b)) = {}
      <4>1. Strain
        BY <2>1, <2>7, <3>2
      <4>2. Crowded(buckets)
        BY <2>2, <3>1, <3>2 DEF Crowded, MapInv
      <4>3. QED
        BY <4>1, <4>2, StrainIs
    <3>3. CASE Reinserted(b, p(b)) # {}
      <4>1. PICK u \in Reinserted(b, p(b)) : Install(New(u, b))
        BY <2>1, <2>7, <3>3
      <4> DEFINE t == With(u, x, c)
      <4>2. m_size' = m_size + 1
        BY <2>1, <2>7, <3>3
      <4>3. buckets' = t /\ m_maxsize' = calc_maxsize(Size(t)) /\ strained' = strained
        BY <4>1 DEF Install, With
      <4>4. Done(t, b, c, n)
        BY <3>1
      <4>5. Pair(c) = <<k, o>>
        BY DEF Pair, Entry
      <4> HIDE DEF t, c, n, x
      <4>6. Sound(t, n) /\ Pairs(t) = Pairs(b) \cup {<<k, o>>}
        BY <4>4, <4>5 DEF Done
      <4>7. Cardinality(InUse(t)) = m_size + 1
        BY <2>2, <2>3, <4>4, DoneCounts
      <4>8. MapInv'
        BY <1>2, <2>2, <4>2, <4>3, <4>6, <4>7, InvAgain
      <4>9. Inserted(k, o)
        <5>1. Objects(b)[k] = NoMapped /\ Objects(t) = With(Objects(b), k, o)
          BY <2>2, <3>1, <4>6, AddedContents
        <5>2. QED
          BY <2>5, <4>2, <4>3, <5>1 DEF Inserted
      <4>10. QED
        BY <4>8, <4>9
    <3>4. QED
      BY <3>2, <3>3
  <2>8. QED
    BY <2>6, <2>7
<1>5. QED
  BY <1>3, <1>4

LEMMA EraseIs ==
    ASSUME MapInv, NEW k \in Key, erase(k)
    PROVE  MapInv' /\ Erased(k)
<1> DEFINE n == Size(buckets)
           b == buckets
<1>1. n \in Nat \ {0} /\ Sound(b, n) /\ m_size = Cardinality(InUse(b)) /\ Roomy(b, n)
  BY InvFacts DEF MapInv
<1>2. PICK x \in find_key(buckets, k) : buckets' = Shift(buckets, x)
  BY DEF erase
<1>3. m_size' = m_size - 1 /\ m_maxsize' = m_maxsize /\ strained' = FALSE
  BY DEF erase, MapInv
<1>4. m_size \in Nat /\ m_maxsize = calc_maxsize(n) /\ m_maxsize \in Nat /\ m_size <= m_maxsize
  BY InvFacts DEF MapInv
<1> DEFINE t == Shift(b, x)
<1> HIDE DEF n
<1>5. x \in At(b, k)
  BY <1>1, <1>2, FindIs
<1>6. x \in InUse(b)
  BY <1>5 DEF At
<1>7. /\ Sound(t, n) /\ Pairs(t) = PairsBut(b, x)
      /\ \E y \in InUse(b) : InUse(t) = InUse(b) \ {y}
  BY <1>1, <1>6, ShiftIs
<1> HIDE DEF t
<1>8. Cardinality(InUse(t)) = m_size - 1
  <2>1. PICK y \in InUse(b) : InUse(t) = InUse(b) \ {y}
    BY <1>7
  <2>2. IsFiniteSet(InUse(b))
    BY <1>1, StorageFacts DEF Sound, Table
  <2>3. QED
    BY <1>1, <2>1, <2>2, FS_RemoveElement
<1>9. MapInv'
  <2>1. Size(t) = n /\ buckets' = t
    BY <1>1, <1>2, <1>7, SoundSize DEF t
  <2>2. m_size' <= calc_maxsize(n)
    BY <1>3, <1>4
  <2>3. QED
    BY <1>1, <1>3, <1>4, <1>7, <1>8, <2>1, <2>2, InvAgain
<1>10. Objects(b)[k] # NoMapped /\ Objects(t) = With(Objects(b), k, NoMapped)
  BY <1>1, <1>5, <1>7, RemovedContents
<1>11. QED
  BY <1>2, <1>3, <1>9, <1>10 DEF Erased, t

LEMMA ClearIs ==
    ASSUME MapInv, clear
    PROVE  MapInv' /\ Objects(buckets') = [k \in Key |-> NoMapped] /\ m_size' = 0
<1> DEFINE n == 1
           b == Blank(n)
<1>1. n \in Nat \ {0} /\ calc_maxsize(n) = 0
  BY LoadFactorIs
<1>2. buckets' = b /\ m_maxsize' = 0 /\ m_size' = 0 /\ strained' = FALSE
  BY DEF clear, MapInv
<1> HIDE DEF n
<1>3. Sound(b, n) /\ InUse(b) = {} /\ Pairs(b) = {}
  BY <1>1, BlankIs
<1> HIDE DEF b
<1>4. Size(b) = n /\ Cardinality({}) = 0
  BY <1>1, <1>3, SoundSize, FS_EmptySet
<1>5. m_size' <= calc_maxsize(n)
  BY <1>1, <1>2
<1>6. MapInv'
  BY <1>1, <1>2, <1>3, <1>4, <1>5, InvAgain
<1>7. \A k \in Key : ValueIn(b, k) = NoMapped
  BY <1>1, <1>3, ValueIs
<1>8. QED
  BY <1>2, <1>6, <1>7 DEF Objects

LEMMA RehashIs ==
    ASSUME MapInv, ~strained, NEW c \in Nat, NEW force, rehash(c, force)
    PROVE  MapInv' /\ Stays
<1> DEFINE n == Size(buckets)
           m == Larger(c)
           l == AtLeast(c)
<1>1. n \in Nat \ {0} /\ Sound(buckets, n) /\ m_size = Cardinality(InUse(buckets)) /\ m_size \in Nat
  BY InvFacts DEF MapInv
<1>2. strained = FALSE
  BY DEF MapInv
<1>3. l \in Nat /\ l >= m_size /\ Enough(l) # {} /\ m = NewSize(l)
  BY <1>1 DEF AtLeast, rehash, Larger
<1>4. IF Rebuild(buckets, m) = {} THEN Strain
      ELSE UNCHANGED m_size /\ \E b \in Rebuild(buckets, m) : Install(b)
  BY DEF rehash
<1> HIDE DEF n, m, l
<1>5. m \in Nat \ {0} /\ calc_maxsize(m) >= l
  BY <1>3, NewSizeIs
<1>6. calc_maxsize(m) \in Nat /\ calc_maxsize(m) < m
  BY <1>5, LoadFactorIs
<1>7. m_size <= calc_maxsize(m) /\ m_size < m
  BY <1>1, <1>3, <1>5, <1>6
<1>8. /\ \A b \in Rebuild(buckets, m) : /\ Sound(b, m) /\ Pairs(b) = Pairs(buckets)
                                        /\ Cardinality(InUse(b)) = m_size
      /\ Rebuild(buckets, m) = {} => Crowded(buckets)
  BY <1>1, <1>5, <1>7, RebuildIs
<1>9. CASE Rebuild(buckets, m) = {}
  BY <1>4, <1>8, <1>9, StrainIs
<1>10. CASE Rebuild(buckets, m) # {}
  <2>1. PICK b \in Rebuild(buckets, m) : Install(b)
    BY <1>4, <1>10
  <2>2. m_size' = m_size
    BY <1>4, <1>10
  <2>3. buckets' = b /\ m_maxsize' = calc_maxsize(Size(b)) /\ strained' = FALSE
    BY <1>2, <2>1 DEF Install
  <2>4. Sound(b, m) /\ Pairs(b) = Pairs(buckets) /\ Cardinality(InUse(b)) = m_size
    BY <1>8
  <2>5. MapInv'
    BY <1>5, <1>7, <2>2, <2>3, <2>4, InvAgain
  <2>6. Objects(b) = Objects(buckets)
    BY <1>1, <1>5, <2>4, SameContents
  <2>7. QED
    BY <2>2, <2>3, <2>5, <2>6 DEF Stays
<1>11. QED
  BY <1>9, <1>10

Cleared == Objects(buckets') = [k \in Key |-> NoMapped] /\ m_size' = 0
Outcome == \/ Stays
           \/ \E k \in Key, o \in Mapped : Inserted(k, o) \/ Assigned(k, o)
           \/ \E k \in Key : Erased(k)
           \/ Cleared

LEMMA ReserveIs ==
    ASSUME MapInv, NEW c \in Nat, reserve(c) \/ Rehash(c)
    PROVE  MapInv' /\ Stays
<1> DEFINE l == (c * 100) \div kMaxLoadFactor
<1>1. l \in Nat
  BY DEF kMaxLoadFactor
<1>2. ~strained /\ (rehash(l, FALSE) \/ rehash(c, TRUE))
  BY DEF reserve, Rehash
<1> HIDE DEF l
<1>3. QED
  BY <1>1, <1>2, RehashIs

LEMMA StepIs ==
    ASSUME MapInv, [MapNext]_fvars
    PROVE  MapInv' /\ Outcome
<1>1. CASE \E k \in Key, o \in Mapped : insert(k, o) \/ insert_or_assign(k, o)
  <2>1. PICK k \in Key, o \in Mapped : insert(k, o) \/ insert_or_assign(k, o)
    BY <1>1
  <2>2. ~strained /\ \E replace \in BOOLEAN : Store(k, o, replace)
    BY <2>1 DEF insert, insert_or_assign
  <2>3. MapInv' /\ (Stays \/ Inserted(k, o) \/ \E v \in Mapped : Assigned(k, v))
    BY <2>2, StoreIs
  <2>4. QED
    BY <2>3 DEF Outcome
<1>2. CASE \E k \in Key : erase(k)
  BY <1>2, EraseIs DEF Outcome
<1>3. CASE clear
  BY <1>3, ClearIs DEF Outcome, Cleared
<1>4. CASE \E c \in {0, MaxSize} : reserve(c) \/ Rehash(c)
  <2>1. PICK c \in Nat : reserve(c) \/ Rehash(c)
    BY <1>4, MapConstants
  <2>2. QED
    BY <2>1, ReserveIs DEF Outcome
<1>5. CASE UNCHANGED fvars
  BY <1>5 DEF fvars, MapInv, Outcome, Stays
<1>6. QED
  BY <1>1, <1>2, <1>3, <1>4, <1>5 DEF MapNext

LEMMA MapInvHeld == MapSpec => []MapInv
<1>1. MapInit => MapInv
  BY InitMapInv
<1>2. MapInv /\ [MapNext]_fvars => MapInv'
  BY StepIs
<1>3. QED
  BY <1>1, <1>2, PTL DEF MapSpec

(* Whatever is called, the table has its buckets from 0, each one free or  *)
(* holding a key, an object and a positive distance.                       *)
THEOREM MapTypeCorrect == MapSpec => []MapTypeOK
<1>1. MapInv => MapTypeOK
  <2> SUFFICES ASSUME MapInv PROVE MapTypeOK
    OBVIOUS
  <2> DEFINE n == Size(buckets)
  <2>1. n \in Nat \ {0} /\ buckets \in Storage(n) /\ m_size \in Nat /\ m_maxsize \in Nat
    BY InvFacts DEF MapInv
  <2>2. strained \in BOOLEAN
    BY DEF MapInv
  <2> HIDE DEF n
  <2>3. DOMAIN buckets = 0..n - 1 /\ \A slot \in 0..n - 1 : buckets[slot] \in Bucket
    BY <2>1, StorageFacts
  <2>4. QED
    BY <2>1, <2>2, <2>3 DEF MapTypeOK, Bucket, Live, n
<1>2. QED
  BY <1>1, MapInvHeld, PTL

(* A recorded distance never exceeds the number of entries, and the table  *)
(* can be found too crowded in the middle of an insertion only when it     *)
(* holds at least kMaxDistance - 1 of them: for every table, hash and set  *)
(* of keys.                                                                *)
THEOREM DistancesInCrowds == MapSpec => []FarOnlyInCrowds
<1>1. MapInv => FarOnlyInCrowds
  <2> SUFFICES ASSUME MapInv PROVE FarOnlyInCrowds
    OBVIOUS
  <2> DEFINE n == Size(buckets)
  <2>1. n \in Nat \ {0} /\ Table(buckets, n) /\ m_size = Cardinality(InUse(buckets))
    BY DEF MapInv, Sound
  <2>2. strained => m_size >= kMaxDistance - 1
    BY DEF MapInv
  <2> HIDE DEF n
  <2>3. DOMAIN buckets = 0..n - 1
    BY <2>1, StorageFacts DEF Table
  <2>4. \A slot \in 0..n - 1 : buckets[slot].dib <= m_size
    BY <2>1, Crowd
  <2>5. QED
    BY <2>2, <2>3, <2>4 DEF FarOnlyInCrowds
<1>2. QED
  BY <1>1, MapInvHeld, PTL

LEMMA FoundIs == [k \in Key |-> Found(k)] = Objects(buckets)
BY DEF Objects, Found, ValueIn

LEMMA FoundNext == [k \in Key |-> Found(k)]' = Objects(buckets')
BY DEF Objects, Found, ValueIn

(* Through every insertion, displacement, erasure, growth and shrinking,   *)
(* find sees a finite map and size counts it: each step of flatmap is a    *)
(* step of KeyMap, or none.                                                *)
THEOREM MapRefinement == MapSpec => ImplementsKeyMap
<1>1. MapInit => Map!Init
  <2> SUFFICES ASSUME MapInit PROVE Map!Init
    OBVIOUS
  <2>1. Objects(buckets) = [k \in Key |-> NoMapped] /\ m_size = 0
    BY InitMapInv DEF MapInit
  <2>2. QED
    BY <2>1, FoundIs DEF Map!Init
<1>2. MapInv /\ [MapNext]_fvars => [Map!Next]_(Map!vars)
  <2> SUFFICES ASSUME MapInv, [MapNext]_fvars PROVE [Map!Next]_(Map!vars)
    OBVIOUS
  <2>1. CASE Stays
    BY <2>1, FoundIs, FoundNext DEF Stays, Map!vars
  <2>2. CASE \E k \in Key, o \in Mapped : Inserted(k, o)
    <3>1. PICK k \in Key, o \in Mapped : Inserted(k, o)
      BY <2>2
    <3>2. Map!insert(k, o)
      BY <3>1, FoundIs, FoundNext DEF Inserted, With, Map!insert
    <3>3. QED
      BY <3>2 DEF Map!Next
  <2>3. CASE \E k \in Key, o \in Mapped : Assigned(k, o)
    <3>1. PICK k \in Key, o \in Mapped : Assigned(k, o)
      BY <2>3
    <3>2. Map!assign(k, o)
      BY <3>1, FoundIs, FoundNext DEF Assigned, With, Map!assign
    <3>3. QED
      BY <3>2 DEF Map!Next
  <2>4. CASE \E k \in Key : Erased(k)
    <3>1. PICK k \in Key : Erased(k)
      BY <2>4
    <3>2. Map!erase(k)
      BY <3>1, FoundIs, FoundNext DEF Erased, With, Map!erase
    <3>3. QED
      BY <3>2 DEF Map!Next
  <2>5. CASE Cleared
    BY <2>5, FoundNext DEF Cleared, Map!clear, Map!Next
  <2>6. QED
    BY <2>1, <2>2, <2>3, <2>4, <2>5, StepIs DEF Outcome
<1>3. QED
  BY <1>1, <1>2, MapInvHeld, PTL DEF MapSpec, ImplementsKeyMap, Map!Spec
===============================================================================
