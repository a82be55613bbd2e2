---------------------------- MODULE UserHeapProofs ----------------------------
(***************************************************************************)
(* Proofs about UserHeap: whatever malloc, free, sbrk, fork, exec, dlopen, *)
(* exit and wait do in whatever order, the free list of every process is   *)
(* one circle in address order without unmerged neighbours, and free and   *)
(* used blocks partition the memory sbrk has given.                        *)
(***************************************************************************)
EXTENDS UserHeap, RingFacts

\* b is the header behind a in a circle through D in address order.
Follows(D, a, b) ==
  IF b = Base THEN \A d \in D : d <= a
  ELSE a < b /\ \A d \in D : d <= a \/ b <= d

\* next links the headers of D to one circle.
Ring(D, next) ==
  /\ D \in SUBSET Nat /\ IsFiniteSet(D) /\ Base \in D
  /\ next \in [D -> D]
  /\ \A a \in D : Follows(D, a, next[a])

Apart(b, c) == b[1] + b[2] <= c[1] \/ c[1] + c[2] <= b[1]

\* A block has room behind base and does not reach into another one.
Room(D, size, used, b) ==
  /\ b[1] > 1 /\ b[2] > 0
  /\ \A a \in D : a + size[a] <= b[1] \/ b[1] + b[2] <= a
  /\ \A u \in used : Apart(u, b)

\* Free blocks and blocks in use are apart, and no two free ones touch.
Blocks(D, size, used) ==
  /\ size \in [D -> Nat] /\ size[Base] = 1
  /\ used \in SUBSET (Nat \X Nat)
  /\ \A a \in D : size[a] > 0
  /\ \A a, c \in D : a < c => a + size[a] < c
  /\ \A u \in used : Room(D, size, used \ {u}, u)

\* The addresses of the blocks.
CellsOf(D, size, used) ==
  {c \in Nat : \/ \E a \in D \ {Base} : a <= c /\ c < a + size[a]
               \/ \E u \in used : u[1] <= c /\ c < u[1] + u[2]}

-----------------------------------------------------------------------------
(* The circle *)

(* A header linked in behind the greatest one below it. *)
LEMMA RingInsert ==
  ASSUME NEW D, NEW next, Ring(D, next), NEW p \in D, NEW b \in Nat, b \notin D, p < b,
         next[p] = Base \/ b < next[p]
  PROVE  Ring(D \cup {b}, With([next EXCEPT ![p] = b], b, next[p]))
<1> DEFINE E == D \cup {b}
           n == With([next EXCEPT ![p] = b], b, next[p])
<1>1. E \in SUBSET Nat /\ IsFiniteSet(E) /\ Base \in E
  BY FS_AddElement DEF Ring
<1>2. /\ n \in [E -> E] /\ n[b] = next[p] /\ n[p] = b
      /\ \A d \in D \ {p} : n[d] = next[d]
  BY DEF Ring, With
<1> HIDE DEF n
<1>3. ASSUME NEW a \in E PROVE Follows(E, a, n[a])
  <2>1. \A d \in D : d \in Nat
    BY DEF Ring
  <2>2. Follows(D, p, next[p]) /\ next[p] \in D
    BY DEF Ring
  <2>3. CASE a = p
    BY <1>2, <2>1, <2>2, <2>3 DEF Follows, Base
  <2>4. CASE a = b
    BY <1>2, <2>1, <2>2, <2>4 DEF Follows, Base
  <2>5. CASE a \in D \ {p}
    <3>1. Follows(D, a, next[a]) /\ next[a] \in D /\ n[a] = next[a]
      BY <1>2, <2>5 DEF Ring
    <3> QED
      BY <2>1, <2>2, <2>5, <3>1 DEF Follows, Base
  <2> QED
    BY <2>3, <2>4, <2>5
<1> QED
  BY <1>1, <1>2, <1>3 DEF Ring, n

\* n links E, which is D without the header q behind p.
Unlinked(E, n, D, next, p, q) ==
  /\ Ring(D, next) /\ p \in D /\ q = next[p] /\ q # Base
  /\ E = D \ {q} /\ n = [Without(next, q) EXCEPT ![p] = next[q]]

(* A header unlinked. *)
LEMMA RingRemove ==
  ASSUME NEW D, NEW next, NEW p, NEW q, NEW E, NEW n, Unlinked(E, n, D, next, p, q)
  PROVE  /\ q \in D /\ p < q /\ p \in E
         /\ Ring(E, n) /\ n[p] = next[q]
<1> USE DEF Unlinked
<1>1. q \in D /\ p < q /\ p \in E /\ next[q] # q
  BY DEF Ring, Follows, Base
<1>2. E \in SUBSET Nat /\ IsFiniteSet(E) /\ Base \in E
  BY FS_RemoveElement DEF Ring
<1>3. /\ n \in [E -> D] /\ n[p] = next[q]
      /\ \A d \in E \ {p} : n[d] = next[d]
  BY <1>1 DEF Ring, Without
<1>4. ASSUME NEW a \in E PROVE n[a] # q /\ Follows(E, a, n[a])
  <2>1. \A d \in D : d \in Nat
    BY DEF Ring
  <2>2. Follows(D, p, q) /\ Follows(D, q, next[q]) /\ next[q] \in D
    BY <1>1 DEF Ring
  <2>3. CASE a = p
    BY <1>1, <1>3, <2>1, <2>2, <2>3 DEF Follows, Base
  <2>4. CASE a \in E \ {p}
    <3>1. Follows(D, a, next[a]) /\ next[a] \in D /\ n[a] = next[a]
      BY <1>3, <2>4 DEF Ring
    <3> QED
      BY <1>1, <2>1, <2>2, <2>4, <3>1 DEF Follows, Base
  <2> QED
    BY <2>3, <2>4
<1>5. n \in [E -> E]
  BY <1>3, <1>4
<1>7. Ring(E, n)
  BY <1>2, <1>4, <1>5 DEF Ring
<1> QED
  BY <1>1, <1>3, <1>7

\* The walk has a value after each of n steps.
Walks(w, next, start, n) == w = [k \in 0..n |-> IF k = 0 THEN start ELSE next[w[k - 1]]]

(* Steps along the links can be counted for any length. *)
LEMMA WalkExists ==
  ASSUME NEW next, NEW start, NEW n \in Nat
  PROVE  \E w : Walks(w, next, start, n)
<1> DEFINE Bad == {k \in Nat : \A w : ~Walks(w, next, start, k)}
<1>1. ASSUME Bad # {} PROVE FALSE
  <2>0. Bad \in SUBSET Nat
    OBVIOUS
  <2>1. PICK k \in Bad : \A j \in Bad : k <= j
    BY <1>1, <2>0, Least
  <2>2. k \in Nat /\ \A w : ~Walks(w, next, start, k)
    OBVIOUS
  <2>3. k # 0
    <3> DEFINE e == [j \in 0..0 |-> start]
    <3>1. \A j \in 0..0 : j = 0
      OBVIOUS
    <3>2. e = [j \in 0..0 |-> IF j = 0 THEN start ELSE next[e[j - 1]]]
      BY <3>1
    <3> HIDE DEF e
    <3> QED
      BY <2>2, <3>2 DEF Walks
  <2>4. k - 1 \in Nat /\ k - 1 \notin Bad
    <3>1. k - 1 \in Nat /\ ~(k <= k - 1)
      BY <2>2, <2>3
    <3> QED
      BY <2>1, <3>1
  <2>5. PICK g : g = [j \in 0..(k - 1) |-> IF j = 0 THEN start ELSE next[g[j - 1]]]
    BY <2>4 DEF Walks
  <2> DEFINE h == [j \in 0..k |-> IF j = k THEN next[g[k - 1]] ELSE g[j]]
  <2>6. ASSUME NEW j \in 0..k
        PROVE  h[j] = IF j = 0 THEN start ELSE next[h[j - 1]]
    <3>1. CASE j = k
      <4>1. k - 1 \in 0..k /\ k - 1 # k /\ j # 0
        BY <2>2, <2>3, <3>1
      <4>2. h[j - 1] = g[k - 1]
        BY <3>1, <4>1
      <4> QED
        BY <3>1, <4>1, <4>2
    <3>2. CASE j # k
      <4>1. j \in 0..(k - 1) /\ h[j] = g[j]
        BY <2>2, <3>2
      <4>2. g[j] = IF j = 0 THEN start ELSE next[g[j - 1]]
        BY <2>5, <4>1
      <4>3. j # 0 => j - 1 \in 0..k /\ j - 1 # k
        BY <2>2
      <4>4. j # 0 => h[j - 1] = g[j - 1]
        BY <4>3
      <4> QED
        BY <4>1, <4>2, <4>4
    <3> QED
      BY <3>1, <3>2
  <2>7. h = [j \in 0..k |-> h[j]]
    OBVIOUS
  <2> HIDE DEF h
  <2>8. h = [j \in 0..k |-> IF j = 0 THEN start ELSE next[h[j - 1]]]
    BY <2>6, <2>7, Zenon
  <2> QED
    BY <2>2, <2>8, Zenon DEF Walks
<1>2. n \notin Bad
  BY <1>1
<1> QED
  BY <1>2, Zenon

(* The walk along the list of a heap. *)
LEMMA WalkUnfolds ==
  ASSUME NEW h, Length(h) \in Nat
  PROVE  Walks(Walk(h), h.next, h.free_list, Length(h))
<1> DEFINE n == Length(h)
           R(w) == w = [k \in 0..n |-> IF k = 0 THEN h.free_list ELSE h.next[w[k - 1]]]
           v == CHOOSE w : R(w)
<1>1. \E w : R(w)
  <2>1. \E w : Walks(w, h.next, h.free_list, n)
    BY WalkExists, Zenon
  <2> QED
    BY <2>1, Zenon DEF Walks
<1>2. R(v)
  BY <1>1, Zenon
<1>3. Walk(h) = v
  BY Zenon DEF Walk
<1> QED
  BY <1>2, <1>3, Zenon DEF Walks

(* It stays among the headers. *)
LEMMA WalkStays ==
  ASSUME NEW D, NEW next, Ring(D, next), NEW start \in D, NEW n \in Nat, NEW w,
         Walks(w, next, start, n)
  PROVE  /\ \A k \in 0..n : w[k] \in D
         /\ w[0] = start
         /\ \A k \in 1..n : k - 1 \in 0..n /\ w[k] = next[w[k - 1]]
<1>1. /\ w[0] = start
      /\ \A k \in 1..n : k - 1 \in 0..n /\ w[k] = next[w[k - 1]]
  BY DEF Walks
<1> DEFINE Bad == {k \in 0..n : w[k] \notin D}
<1>2. ASSUME Bad # {} PROVE FALSE
  <2>0. Bad \in SUBSET Nat
    OBVIOUS
  <2>1. PICK k \in Bad : \A j \in Bad : k <= j
    BY <1>2, <2>0, Least
  <2>2. k \in 1..n
    BY <1>1
  <2>3. k - 1 \in 0..n /\ ~(k <= k - 1)
    BY <2>2
  <2>4. w[k - 1] \in D
    BY <2>1, <2>3
  <2> QED
    BY <1>1, <2>2, <2>4 DEF Ring
<1> QED
  BY <1>1, <1>2

\* How many headers lie below.
Rank(D, a) == Cardinality({d \in D : d < a})

(* The rank is the place in the circle. *)
LEMMA RankNext ==
  ASSUME NEW D, NEW next, Ring(D, next), NEW a \in D
  PROVE  /\ Cardinality(D) \in Nat \ {0}
         /\ Rank(D, a) \in 0..(Cardinality(D) - 1)
         /\ IF next[a] = Base THEN Rank(D, a) = Cardinality(D) - 1 /\ Rank(D, next[a]) = 0
            ELSE Rank(D, next[a]) = Rank(D, a) + 1
<1> DEFINE B == {d \in D : d < a}
           C == {d \in D : d < next[a]}
<1>0. D \in SUBSET Nat /\ IsFiniteSet(D) /\ next[a] \in D /\ Follows(D, a, next[a])
  BY DEF Ring
<1>a. a \in Nat /\ \A d \in D : d \in Nat
  BY <1>0
<1>1. IsFiniteSet(B) /\ Cardinality(B) \in Nat
  <2>1. B \in SUBSET D
    OBVIOUS
  <2> QED
    BY <1>0, <2>1, FS_Subset, FS_CardinalityType
<1>2. IsFiniteSet(B \cup {a}) /\ Cardinality(B \cup {a}) = Cardinality(B) + 1
  <2>1. a \notin B
    BY <1>0
  <2>2. IsFiniteSet(B)
    BY <1>1
  <2> HIDE DEF B
  <2> QED
    BY <2>1, <2>2, FS_AddElement
<1>3. Cardinality(B \cup {a}) <= Cardinality(D) /\ Cardinality(D) \in Nat
  <2>1. B \cup {a} \in SUBSET D
    OBVIOUS
  <2> QED
    BY <1>0, <2>1, FS_Subset, FS_CardinalityType
<1>4. CASE next[a] = Base
  <2>0. \A d \in D : d <= a
    BY <1>0, <1>4 DEF Follows
  <2>1. D = B \cup {a}
    <3>1. \A d \in D : d \in B \/ d = a
      BY <1>a, <2>0
    <3> QED
      BY <3>1
  <2>2. C = {}
    <3>1. \A d \in D : ~(d < next[a])
      BY <1>a, <1>4 DEF Base
    <3> QED
      BY <3>1
  <2>3. Rank(D, next[a]) = 0
    BY <2>2, FS_EmptySet DEF Rank
  <2>4. Rank(D, a) = Cardinality(B)
    BY DEF Rank
  <2> HIDE DEF B, C
  <2> QED
    BY <1>1, <1>2, <1>3, <1>4, <2>1, <2>3, <2>4
<1>5. CASE next[a] # Base
  <2>0. a < next[a] /\ \A d \in D : d <= a \/ next[a] <= d
    BY <1>0, <1>5 DEF Follows
  <2>1. C = B \cup {a}
    <3>0. next[a] \in Nat
      BY <1>0, <1>a
    <3>1. \A d \in D : d < next[a] <=> (d < a \/ d = a)
      BY <1>a, <2>0, <3>0
    <3> QED
      BY <3>1
  <2>2. Rank(D, a) = Cardinality(B) /\ Rank(D, next[a]) = Cardinality(C)
    BY DEF Rank
  <2> HIDE DEF B, C
  <2> QED
    BY <1>1, <1>2, <1>3, <1>5, <2>1, <2>2
<1> QED
  BY <1>4, <1>5

(* Headers of the same rank are the same. *)
LEMMA RankInjective ==
  ASSUME NEW D, NEW next, Ring(D, next), NEW a \in D, NEW c \in D, Rank(D, a) = Rank(D, c)
  PROVE  a = c
<1>1. ASSUME NEW x \in D, NEW y \in D, x < y PROVE Rank(D, x) # Rank(D, y)
  <2> DEFINE B == {d \in D : d < x}
             C == {d \in D : d < y}
  <2>1. IsFiniteSet(D) /\ D \in SUBSET Nat
    BY DEF Ring
  <2>a. x \in Nat /\ y \in Nat /\ \A d \in D : d \in Nat
    BY <2>1
  <2>b. x < y /\ ~(x < x) /\ \A d \in D : d < x => d < y
    BY <1>1, <2>a
  <2>2. C \in SUBSET D /\ B \in SUBSET C /\ x \in C /\ x \notin B
    BY <2>b
  <2> HIDE DEF B, C
  <2>3. IsFiniteSet(C)
    BY <2>1, <2>2, FS_Subset
  <2>4. Cardinality(C) # Cardinality(B)
    BY <2>2, <2>3, FS_Subset
  <2> QED
    BY <2>4 DEF Rank, B, C
<1>2. a \in Nat /\ c \in Nat
  BY DEF Ring
<1> QED
  BY <1>1, <1>2

(* A round from anywhere visits every header. *)
LEMMA WalkCovers ==
  ASSUME NEW D, NEW next, Ring(D, next), NEW start \in D, NEW w,
         Walks(w, next, start, Cardinality(D)), NEW a \in D
  PROVE  \E k \in 1..Cardinality(D) : w[k] = a
<1> DEFINE r == Rank(D, start)
<1>0. PICK n : n = Cardinality(D)
  OBVIOUS
<1>1. n \in Nat \ {0} /\ r \in 0..(n - 1) /\ Rank(D, a) \in 0..(n - 1)
  BY <1>0, RankNext
<1>2. /\ \A k \in 0..n : w[k] \in D
      /\ w[0] = start
      /\ \A k \in 1..n : k - 1 \in 0..n /\ w[k] = next[w[k - 1]]
  BY <1>0, <1>1, WalkStays
<1> DEFINE Bad == {k \in 0..n : Rank(D, w[k]) # (r + k) % n}
<1>3. ASSUME Bad # {} PROVE FALSE
  <2>0. Bad \in SUBSET Nat
    OBVIOUS
  <2>1. PICK k \in Bad : \A j \in Bad : k <= j
    BY <1>3, <2>0, Least
  <2>2. k # 0
    <3>1. r % n = r
      BY <1>1, ModSmall
    <3> QED
      BY <1>1, <1>2, <3>1
  <2>a. k \in 0..n
    BY <2>1
  <2>3. k \in 1..n /\ k - 1 \in 0..n /\ ~(k <= k - 1)
    BY <1>1, <2>a, <2>2
  <2>4. Rank(D, w[k - 1]) = (r + (k - 1)) % n
    BY <2>1, <2>3
  <2>5. PICK m, q : m = (r + (k - 1)) % n /\ q = (r + (k - 1)) \div n
    OBVIOUS
  <2>6. m \in 0..(n - 1) /\ q \in Int /\ r + (k - 1) = n * q + m
    <3>1. r + (k - 1) \in Int
      BY <1>1, <2>3
    <3> QED
      BY <1>1, <2>5, <3>1, DivMod
  <2>7. Rank(D, w[k]) = IF m = n - 1 THEN 0 ELSE m + 1
    <3>1. w[k - 1] \in D /\ w[k] = next[w[k - 1]] /\ w[k] \in D
      BY <1>2, <2>3
    <3>2. Rank(D, w[k]) \in 0..(n - 1)
      BY <1>0, <3>1, RankNext
    <3>3. IF w[k] = Base THEN m = n - 1 /\ Rank(D, w[k]) = 0
          ELSE Rank(D, w[k]) = m + 1
      BY <1>0, <2>4, <2>5, <3>1, RankNext
    <3> QED
      BY <2>6, <3>2, <3>3
  <2>8. (r + k) % n = IF m = n - 1 THEN 0 ELSE m + 1
    <3>1. r + k \in Int /\ q + 1 \in Int /\ 0 \in 0..(n - 1)
      BY <1>1, <2>3, <2>6
    <3>2. CASE m = n - 1
      <4>1. r + k = n * (q + 1) + 0
        BY <1>1, <2>3, <2>6, <3>2
      <4>2. (r + k) % n = 0
        BY <1>1, <3>1, <4>1, ModUnique
      <4> QED
        BY <3>2, <4>2
    <3>3. CASE m # n - 1
      <4>1. r + k = n * q + (m + 1) /\ m + 1 \in 0..(n - 1)
        BY <1>1, <2>3, <2>6, <3>3
      <4>2. (r + k) % n = m + 1
        BY <1>1, <2>6, <3>1, <4>1, ModUnique
      <4> QED
        BY <3>3, <4>2
    <3> QED
      BY <3>2, <3>3
  <2> QED
    BY <2>7, <2>8
<1>4. PICK j \in (r + 1)..((r + 1) + n - 1) : j % n = Rank(D, a)
  <2>1. r + 1 \in Nat
    BY <1>1
  <2> QED
    BY <1>1, <2>1, ModCover
<1>5. j - r \in 1..n /\ r + (j - r) = j
  BY <1>1
<1>6. Rank(D, w[j - r]) = Rank(D, a) /\ w[j - r] \in D
  BY <1>2, <1>3, <1>4, <1>5
<1>7. w[j - r] = a
  BY <1>6, RankInjective
<1> QED
  BY <1>0, <1>5, <1>7
-----------------------------------------------------------------------------
(* The blocks *)

Span(b) == b[1]..(b[1] + b[2] - 1)

(* The facts of Blocks about numbers. *)
LEMMA BlockNumbers ==
  ASSUME NEW D \in SUBSET Nat, NEW size, NEW used, Blocks(D, size, used)
  PROVE  /\ \A a \in D : a \in Nat /\ size[a] \in Nat /\ size[a] > 0
         /\ \A u \in used : u[1] \in Nat /\ u[2] \in Nat /\ u[1] > 1 /\ u[2] > 0
         /\ \A u \in used : u = <<u[1], u[2]>>
         /\ \A u, v \in used : u # v => Apart(u, v)
         /\ \A u \in used, a \in D : a + size[a] <= u[1] \/ u[1] + u[2] <= a
<1>1. \A a \in D : a \in Nat /\ size[a] \in Nat /\ size[a] > 0
  BY DEF Blocks
<1>2. \A u \in used : u \in Nat \X Nat
  BY DEF Blocks
<1>3. \A u \in used : u[1] \in Nat /\ u[2] \in Nat /\ u = <<u[1], u[2]>>
  BY <1>2
<1>4. ASSUME NEW u \in used, NEW v \in used, u # v PROVE Apart(u, v)
  <2>1. u \in used \ {v} /\ Room(D, size, used \ {v}, v)
    BY <1>4 DEF Blocks
  <2> QED
    BY <2>1 DEF Room
<1>5. \A u \in used : /\ u[1] > 1 /\ u[2] > 0
                      /\ \A a \in D : a + size[a] <= u[1] \/ u[1] + u[2] <= a
  BY DEF Blocks, Room
<1> QED
  BY <1>1, <1>3, <1>4, <1>5

(* And back. *)
LEMMA BlocksFrom ==
  ASSUME NEW D \in SUBSET Nat, NEW size \in [D -> Nat], NEW used \in SUBSET (Nat \X Nat),
         Base \in D, size[Base] = 1,
         \A a \in D : size[a] > 0,
         \A a, c \in D : a < c => a + size[a] < c,
         \A u \in used : u[1] > 1 /\ u[2] > 0,
         \A u, v \in used : u # v => Apart(u, v),
         \A u \in used, a \in D : a + size[a] <= u[1] \/ u[1] + u[2] <= a
  PROVE  Blocks(D, size, used)
<1>1. ASSUME NEW u \in used PROVE Room(D, size, used \ {u}, u)
  <2>1. \A v \in used \ {u} : Apart(v, u)
    OBVIOUS
  <2> QED
    BY <2>1 DEF Room
<1> QED
  BY <1>1 DEF Blocks

(* A block that has room may be handed out. *)
LEMMA BlocksUse ==
  ASSUME NEW D \in SUBSET Nat, Base \in D, NEW size, NEW used, Blocks(D, size, used),
         NEW b \in Nat \X Nat, Room(D, size, used, b)
  PROVE  /\ Blocks(D, size, used \cup {b})
         /\ CellsOf(D, size, used \cup {b}) = CellsOf(D, size, used) \cup Span(b)
<1> DEFINE V == used \cup {b}
<1>0. b[1] \in Nat /\ b[2] \in Nat /\ b[1] > 1 /\ b[2] > 0
  BY DEF Room
<1>1. /\ V \in SUBSET (Nat \X Nat) /\ size \in [D -> Nat] /\ size[Base] = 1
      /\ \A a \in D : size[a] > 0
      /\ \A a, c \in D : a < c => a + size[a] < c
  BY DEF Blocks
<1>2. \A u \in V : u[1] > 1 /\ u[2] > 0
  BY <1>0, BlockNumbers
<1>3. \A u, v \in V : u # v => Apart(u, v)
  <2>1. \A u \in used : Apart(u, b)
    BY DEF Room
  <2>2. \A u \in used : Apart(b, u)
    BY <2>1 DEF Apart
  <2>3. \A u, v \in used : u # v => Apart(u, v)
    BY BlockNumbers
  <2> QED
    BY <2>1, <2>2, <2>3
<1>4. \A u \in V, a \in D : a + size[a] <= u[1] \/ u[1] + u[2] <= a
  BY BlockNumbers DEF Room
<1>5. Blocks(D, size, V)
  BY <1>1, <1>2, <1>3, <1>4, BlocksFrom
<1>6. CellsOf(D, size, V) = CellsOf(D, size, used) \cup Span(b)
  <2>1. \A c : c \in Span(b) <=> c \in Nat /\ b[1] <= c /\ c < b[1] + b[2]
    BY <1>0 DEF Span
  <2> QED
    BY <2>1 DEF CellsOf
<1> QED
  BY <1>5, <1>6

\* The blocks in use without b.
Returned(v, D, size, used, b) ==
  /\ D \in SUBSET Nat /\ Base \in D /\ Blocks(D, size, used)
  /\ b \in used /\ v = used \ {b}

(* A block that is given back leaves its room. *)
LEMMA BlocksUnuse ==
  ASSUME NEW D, NEW size, NEW used, NEW b, NEW V, Returned(V, D, size, used, b)
  PROVE  /\ Blocks(D, size, V)
         /\ Room(D, size, V, b)
         /\ b \in Nat \X Nat
         /\ CellsOf(D, size, used) = CellsOf(D, size, V) \cup Span(b)
<1> USE DEF Returned
<1>1. /\ V \in SUBSET (Nat \X Nat) /\ size \in [D -> Nat] /\ size[Base] = 1
      /\ \A a \in D : size[a] > 0
      /\ \A a, c \in D : a < c => a + size[a] < c
  BY DEF Blocks
<1>2. Blocks(D, size, V)
  BY <1>1, BlockNumbers, BlocksFrom
<1>3. Room(D, size, V, b) /\ b \in Nat \X Nat
  BY DEF Blocks
<1>4. CellsOf(D, size, V \cup {b}) = CellsOf(D, size, V) \cup Span(b)
  BY <1>2, <1>3, BlocksUse
<1>5. V \cup {b} = used
  OBVIOUS
<1> QED
  BY <1>2, <1>3, <1>4, <1>5

\* s has the sizes of E, which is D without the header q of a block of k units.
TakenOff(E, s, D, size, used, q, k) ==
  /\ D \in SUBSET Nat /\ Base \in D /\ Blocks(D, size, used)
  /\ q \in D \ {Base} /\ E = D \ {q} /\ s = Without(size, q) /\ k = size[q]

(* A free block taken off the list leaves its room. *)
LEMMA BlocksRemove ==
  ASSUME NEW D, NEW size, NEW used, NEW q, NEW E, NEW s, NEW k,
         TakenOff(E, s, D, size, used, q, k)
  PROVE  /\ Blocks(E, s, used) /\ \A a \in E : s[a] = size[a]
         /\ Room(E, s, used, <<q, k>>)
         /\ q + k \notin D
         /\ CellsOf(D, size, used) = CellsOf(E, s, used) \cup Span(<<q, k>>)
<1> USE DEF TakenOff
<1>1. /\ size \in [D -> Nat] /\ size[Base] = 1
      /\ \A a \in D : size[a] > 0
      /\ \A a, c \in D : a < c => a + size[a] < c
      /\ used \in SUBSET (Nat \X Nat)
  BY DEF Blocks
<1>2. s \in [E -> Nat] /\ \A a \in E : s[a] = size[a]
  BY <1>1 DEF Without
<1>3. Blocks(E, s, used)
  <2>1. E \in SUBSET Nat /\ Base \in E /\ s[Base] = 1
    BY <1>1, <1>2
  <2>2. /\ \A a \in E : s[a] > 0
        /\ \A a, c \in E : a < c => a + s[a] < c
    BY <1>1, <1>2
  <2>3. \A u \in used, a \in E : a + s[a] <= u[1] \/ u[1] + u[2] <= a
    BY <1>2, BlockNumbers
  <2> QED
    BY <1>1, <1>2, <2>1, <2>2, <2>3, BlockNumbers, BlocksFrom
<1>4. q \in Nat /\ size[q] \in Nat /\ size[q] > 0 /\ q > 1
  BY <1>1 DEF Base
<1>5. Room(E, s, used, <<q, size[q]>>)
  <2>1. \A a \in E : a + s[a] <= q \/ q + size[q] <= a
    BY <1>1, <1>2
  <2>2. \A u \in used : Apart(u, <<q, size[q]>>)
    BY BlockNumbers DEF Apart
  <2> QED
    BY <1>4, <2>1, <2>2 DEF Room
<1>6. q + size[q] \notin D
  BY <1>1, <1>4
<1>7. CellsOf(D, size, used) = CellsOf(E, s, used) \cup Span(<<q, size[q]>>)
  <2>1. \A c : c \in Span(<<q, size[q]>>) <=> c \in Nat /\ q <= c /\ c < q + size[q]
    BY <1>4 DEF Span
  <2> QED
    BY <1>2, <2>1 DEF CellsOf
<1> QED
  BY <1>2, <1>3, <1>5, <1>6, <1>7

\* Two rooms, one behind the other, of m and n units.
Rooms(D, size, used, b, m, q, n, k) ==
  /\ D \in SUBSET Nat /\ Blocks(D, size, used)
  /\ b \in Nat /\ m \in Nat /\ n \in Nat /\ q = b + m /\ k = m + n
  /\ Room(D, size, used, <<b, m>>) /\ Room(D, size, used, <<q, n>>)

(* A room and the one behind it are one room. *)
LEMMA RoomJoin ==
  ASSUME NEW D, NEW size, NEW used, NEW b, NEW m, NEW n, NEW q, NEW k,
         Rooms(D, size, used, b, m, q, n, k)
  PROVE  /\ Room(D, size, used, <<b, k>>)
         /\ Span(<<b, k>>) = Span(<<b, m>>) \cup Span(<<q, n>>)
<1> USE DEF Rooms
<1>1. b > 1 /\ m > 0 /\ n > 0
  BY DEF Room
<1>2. \A a \in D : a + size[a] <= b \/ b + k <= a
  <2>1. ASSUME NEW a \in D PROVE a + size[a] <= b \/ b + k <= a
    <3>1. a \in Nat /\ size[a] \in Nat /\ size[a] > 0
      BY BlockNumbers
    <3>2. a + size[a] <= b \/ b + m <= a
      BY DEF Room
    <3>3. a + size[a] <= b + m \/ (b + m) + n <= a
      BY DEF Room
    <3> QED
      BY <3>1, <3>2, <3>3
  <2> QED
    BY <2>1
<1>3. \A u \in used : Apart(u, <<b, k>>)
  <2>1. ASSUME NEW u \in used PROVE Apart(u, <<b, k>>)
    <3>1. u[1] \in Nat /\ u[2] \in Nat /\ u[2] > 0
      BY BlockNumbers
    <3>2. u[1] + u[2] <= b \/ b + m <= u[1]
      BY DEF Room, Apart
    <3>3. u[1] + u[2] <= b + m \/ (b + m) + n <= u[1]
      BY DEF Room, Apart
    <3> QED
      BY <3>1, <3>2, <3>3 DEF Apart
  <2> QED
    BY <2>1
<1>4. Span(<<b, k>>) = Span(<<b, m>>) \cup Span(<<q, n>>)
  BY <1>1 DEF Span
<1> QED
  BY <1>1, <1>2, <1>3, <1>4 DEF Room

\* s has the sizes with m units more for p, that are behind it and not below
\* another free block.
Grown(s, D, size, used, p, b, m) ==
  /\ D \in SUBSET Nat /\ Base \in D /\ Blocks(D, size, used)
  /\ b \in Nat /\ m \in Nat /\ Room(D, size, used, <<b, m>>) /\ b + m \notin D
  /\ p \in D /\ p + size[p] = b /\ s = [size EXCEPT ![p] = @ + m]

(* A free block grows into the room behind it. *)
LEMMA BlocksGrow ==
  ASSUME NEW D, NEW size, NEW used, NEW b, NEW m, NEW p, NEW s,
         Grown(s, D, size, used, p, b, m)
  PROVE  /\ p # Base
         /\ Blocks(D, s, used)
         /\ CellsOf(D, s, used) = CellsOf(D, size, used) \cup Span(<<b, m>>)
<1> USE DEF Grown
<1>1. /\ size \in [D -> Nat] /\ size[Base] = 1
      /\ \A a \in D : size[a] > 0
      /\ \A a, c \in D : a < c => a + size[a] < c
      /\ used \in SUBSET (Nat \X Nat)
  BY DEF Blocks
<1>2. b > 1 /\ m > 0 /\ \A a \in D : a + size[a] <= b \/ b + m <= a
  BY DEF Room
<1>3. p # Base
  BY <1>1, <1>2 DEF Base
<1>4. s \in [D -> Nat] /\ s[p] = size[p] + m /\ \A a \in D \ {p} : s[a] = size[a]
  BY <1>1
<1>5. Blocks(D, s, used)
  <2>1. s[Base] = 1 /\ \A a \in D : s[a] > 0
    BY <1>1, <1>3, <1>4
  <2>2. ASSUME NEW a \in D, NEW c \in D, a < c PROVE a + s[a] < c
    <3>0. a \in Nat /\ c \in Nat /\ p \in Nat /\ size[a] \in Nat /\ size[c] \in Nat /\ size[p] \in Nat
      BY <1>1
    <3>1. a + size[a] < c
      BY <1>1, <2>2
    <3>2. CASE a = p
      BY <1>2, <1>4, <3>0, <3>1, <3>2
    <3>3. CASE a # p
      BY <1>4, <3>1, <3>3
    <3> QED
      BY <3>2, <3>3
  <2>3. ASSUME NEW u \in used, NEW a \in D PROVE a + s[a] <= u[1] \/ u[1] + u[2] <= a
    <3>0. u[1] \in Nat /\ u[2] \in Nat /\ u[2] > 0 /\ a \in Nat /\ size[a] \in Nat
      BY <1>1, BlockNumbers
    <3>1. a + size[a] <= u[1] \/ u[1] + u[2] <= a
      BY BlockNumbers
    <3>2. u[1] + u[2] <= b \/ b + m <= u[1]
      BY DEF Room, Apart
    <3>3. CASE a = p
      BY <1>4, <3>0, <3>1, <3>2, <3>3
    <3>4. CASE a # p
      BY <1>4, <3>1, <3>4
    <3> QED
      BY <3>3, <3>4
  <2> QED
    BY <1>1, <1>4, <2>1, <2>2, <2>3, BlockNumbers, BlocksFrom
<1>6. CellsOf(D, s, used) = CellsOf(D, size, used) \cup Span(<<b, m>>)
  <2>1. \A c : c \in Span(<<b, m>>) <=> c \in Nat /\ b <= c /\ c < b + m
    BY DEF Span
  <2>2. p \in Nat /\ size[p] \in Nat
    BY <1>1
  <2>3. \A c \in Nat : p <= c /\ c < p + s[p] <=> (p <= c /\ c < p + size[p]) \/ c \in Span(<<b, m>>)
    BY <1>4, <2>1, <2>2
  <2>4. p \in D \ {Base}
    BY <1>3
  <2>5. \A c \in Nat :
          (\E a \in D \ {Base} : a <= c /\ c < a + s[a])
            <=> (\E a \in D \ {Base} : a <= c /\ c < a + size[a]) \/ c \in Span(<<b, m>>)
    BY <1>4, <2>3, <2>4
  <2> QED
    BY <2>1, <2>5 DEF CellsOf
<1> QED
  BY <1>3, <1>5, <1>6

(* A new free block that touches no other. *)
LEMMA BlocksInsert ==
  ASSUME NEW D \in SUBSET Nat, Base \in D, NEW size, NEW used, Blocks(D, size, used),
         NEW b \in Nat, NEW m \in Nat, Room(D, size, used, <<b, m>>), b + m \notin D,
         \A a \in D : a + size[a] # b
  PROVE  /\ b \notin D
         /\ Blocks(D \cup {b}, With(size, b, m), used)
         /\ CellsOf(D \cup {b}, With(size, b, m), used)
              = CellsOf(D, size, used) \cup Span(<<b, m>>)
<1> DEFINE E == D \cup {b}
           s == With(size, b, m)
<1>1. /\ size \in [D -> Nat] /\ size[Base] = 1
      /\ \A a \in D : size[a] > 0
      /\ \A a, c \in D : a < c => a + size[a] < c
      /\ used \in SUBSET (Nat \X Nat)
  BY DEF Blocks
<1>2. b > 1 /\ m > 0 /\ \A a \in D : a + size[a] <= b \/ b + m <= a
  BY DEF Room
<1>3. b \notin D
  BY <1>1, <1>2
<1>4. s \in [E -> Nat] /\ s[b] = m /\ \A a \in D : s[a] = size[a]
  BY <1>1, <1>3 DEF With
<1> HIDE DEF s
<1>5. Blocks(E, s, used)
  <2>0. E \in SUBSET Nat /\ Base \in E
    OBVIOUS
  <2>1. s[Base] = 1 /\ \A a \in E : s[a] > 0
    BY <1>1, <1>2, <1>4
  <2>2. ASSUME NEW a \in E, NEW c \in E, a < c PROVE a + s[a] < c
    <3>1. CASE a \in D /\ c \in D
      BY <1>1, <1>4, <2>2, <3>1
    <3>2. CASE a \in D /\ c = b
      <4>1. a \in Nat /\ size[a] \in Nat /\ a + size[a] # b
        BY <1>1, <3>2
      <4> QED
        BY <1>2, <1>4, <2>2, <3>2, <4>1
    <3>3. CASE a = b /\ c \in D
      <4>1. c \in Nat /\ size[c] \in Nat /\ c # b + m /\ size[c] > 0
        BY <1>1, <3>3
      <4> QED
        BY <1>2, <1>4, <2>2, <3>3, <4>1
    <3> QED
      BY <2>2, <3>1, <3>2, <3>3
  <2>3. ASSUME NEW u \in used, NEW a \in E PROVE a + s[a] <= u[1] \/ u[1] + u[2] <= a
    BY <1>4, BlockNumbers DEF Room, Apart
  <2> QED
    BY <1>1, <1>4, <2>0, <2>1, <2>2, <2>3, BlockNumbers, BlocksFrom
<1>6. CellsOf(E, s, used) = CellsOf(D, size, used) \cup Span(<<b, m>>)
  <2>1. \A c : c \in Span(<<b, m>>) <=> c \in Nat /\ b <= c /\ c < b + m
    BY DEF Span
  <2>2. b # Base
    BY <1>2 DEF Base
  <2> QED
    BY <1>3, <1>4, <2>1, <2>2 DEF CellsOf
<1> QED
  BY <1>3, <1>5, <1>6 DEF s

\* s has the sizes with only r units for p; its last m units are cut off.
Shrunk(s, D, size, used, p, r, m) ==
  /\ D \in SUBSET Nat /\ Base \in D /\ Blocks(D, size, used)
  /\ p \in D \ {Base} /\ r \in Nat /\ m \in Nat /\ size[p] = r + m /\ r > 0 /\ m > 0
  /\ s = [size EXCEPT ![p] = r]

(* The tail of a free block split off. *)
LEMMA BlocksShrink ==
  ASSUME NEW s, NEW D, NEW size, NEW used, NEW p, NEW r, NEW m,
         Shrunk(s, D, size, used, p, r, m)
  PROVE  /\ Blocks(D, s, used)
         /\ Room(D, s, used, <<p + r, m>>)
         /\ CellsOf(D, size, used) = CellsOf(D, s, used) \cup Span(<<p + r, m>>)
<1> USE DEF Shrunk
<1>1. /\ size \in [D -> Nat] /\ size[Base] = 1
      /\ \A a \in D : size[a] > 0
      /\ \A a, c \in D : a < c => a + size[a] < c
      /\ used \in SUBSET (Nat \X Nat)
  BY DEF Blocks
<1>2. p \in Nat /\ p > 1
  BY <1>1 DEF Base
<1>4. s \in [D -> Nat] /\ s[p] = r /\ \A a \in D \ {p} : s[a] = size[a]
  BY <1>1
<1>a. ASSUME NEW a \in D PROVE a \in Nat /\ s[a] \in Nat /\ s[a] > 0 /\ s[a] <= size[a] /\ size[a] \in Nat
  BY <1>1, <1>4
<1>5. Blocks(D, s, used)
  <2>1. s[Base] = 1 /\ \A a \in D : s[a] > 0
    BY <1>1, <1>4, <1>a
  <2>2. \A a, c \in D : a < c => a + s[a] < c
    BY <1>1, <1>a
  <2>3. \A u \in used, a \in D : a + s[a] <= u[1] \/ u[1] + u[2] <= a
    <3>1. ASSUME NEW u \in used, NEW a \in D PROVE a + s[a] <= u[1] \/ u[1] + u[2] <= a
      <4>1. u[1] \in Nat /\ u[2] \in Nat /\ (a + size[a] <= u[1] \/ u[1] + u[2] <= a)
        BY BlockNumbers
      <4> QED
        BY <1>a, <4>1
    <3> QED
      BY <3>1
  <2> QED
    BY <1>1, <1>4, <2>1, <2>2, <2>3, BlockNumbers, BlocksFrom
<1>6. Room(D, s, used, <<p + r, m>>)
  <2>1. ASSUME NEW a \in D PROVE a + s[a] <= p + r \/ (p + r) + m <= a
    <3>1. a < p => a + size[a] < p
      BY <1>1
    <3>2. p < a => p + size[p] < a
      BY <1>1
    <3> QED
      BY <1>2, <1>4, <1>a, <3>1, <3>2
  <2>2. ASSUME NEW u \in used PROVE Apart(u, <<p + r, m>>)
    <3>1. u[1] \in Nat /\ u[2] \in Nat /\ (p + size[p] <= u[1] \/ u[1] + u[2] <= p)
      BY BlockNumbers
    <3> QED
      BY <1>2, <3>1 DEF Apart
  <2> QED
    BY <1>2, <2>1, <2>2 DEF Room
<1>7. CellsOf(D, size, used) = CellsOf(D, s, used) \cup Span(<<p + r, m>>)
  <2>1. \A c : c \in Span(<<p + r, m>>) <=> c \in Nat /\ p + r <= c /\ c < (p + r) + m
    BY <1>2 DEF Span
  <2>3. \A c \in Nat : p <= c /\ c < p + size[p] <=> (p <= c /\ c < p + s[p]) \/ c \in Span(<<p + r, m>>)
    BY <1>2, <1>4, <2>1
  <2>5. \A c \in Nat :
          (\E a \in D \ {Base} : a <= c /\ c < a + size[a])
            <=> (\E a \in D \ {Base} : a <= c /\ c < a + s[a]) \/ c \in Span(<<p + r, m>>)
    BY <1>4, <2>3
  <2> QED
    BY <2>1, <2>5 DEF CellsOf
<1> QED
  BY <1>5, <1>6, <1>7
-----------------------------------------------------------------------------
(* The heap *)

HeapType(D) ==
  [next : [D -> D], size : [D -> Nat], free_list : D, used : SUBSET (Nat \X Nat), brk : Nat]

\* A heap whose list runs through D, if the program held used.
Holding(h, D, used) == h \in HeapType(D) /\ Ring(D, h.next) /\ Blocks(D, h.size, used)

(* The walk of a heap is a walk of its circle. *)
LEMMA WalkOfHeap ==
  ASSUME NEW D, NEW h \in HeapType(D), Ring(D, h.next)
  PROVE  /\ DOMAIN h.next = D /\ DOMAIN h.size = D
         /\ Length(h) = Cardinality(D) /\ Cardinality(D) \in Nat
         /\ Walks(Walk(h), h.next, h.free_list, Cardinality(D))
         /\ h.free_list \in D
<1>1. DOMAIN h.next = D /\ DOMAIN h.size = D /\ h.free_list \in D
  BY DEF HeapType
<1>2. Length(h) = Cardinality(D) /\ Cardinality(D) \in Nat
  BY <1>1, FS_CardinalityType DEF Length, Ring
<1> QED
  BY <1>1, <1>2, WalkUnfolds

(* The least number of a set. *)
LEMMA MinIs ==
  ASSUME NEW S \in SUBSET Nat, S # {}
  PROVE  Min(S) \in S /\ \A x \in S : Min(S) <= x
<1>1. \E x \in S : \A y \in S : x <= y
  BY Least
<1>2. Min(S) = CHOOSE x \in S : \A y \in S : x <= y
  BY Zenon DEF Min
<1> QED
  BY <1>1, <1>2, Zenon

(* FreeBlock stops at the greatest header below the block. *)
LEMMA PositionFinds ==
  ASSUME NEW D, NEW h \in HeapType(D), Ring(D, h.next),
         NEW b \in Nat, b \notin D, b > 0,
         NEW p, p = Walk(h)[Position(h, b)]
  PROVE  p \in D /\ p < b /\ (h.next[p] = Base \/ b < h.next[p])
<1> DEFINE n == Cardinality(D)
           w == Walk(h)
           Stops(x, y) == (b > x /\ b < y) \/ (x >= y /\ (b > x \/ b < y))
           S == {k \in 0..n : Stops(w[k], h.next[w[k]])}
<1>0. D \in SUBSET Nat /\ Base \in D /\ h.next \in [D -> D] /\ Walks(w, h.next, h.free_list, n)
      /\ n \in Nat /\ Length(h) = n /\ h.free_list \in D
  BY WalkOfHeap DEF Ring
<1>1. \A k \in 0..n : w[k] \in D
  BY <1>0, WalkStays
<1>2. Position(h, b) = Min(S)
  BY <1>0, Zenon DEF Position
<1>3. \E d \in D : d < b /\ (h.next[d] = Base \/ b < h.next[d])
  <2> DEFINE T == {b - d : d \in {e \in D : e < b}}
  <2>0. \A d \in D : d \in Nat
    BY <1>0
  <2>1. T \in SUBSET Nat
    BY <2>0
  <2>2. b - Base \in T
    BY <1>0 DEF Base
  <2>3. PICK t \in T : \A y \in T : t <= y
    BY <2>1, <2>2, Least
  <2>4. PICK d \in D : d < b /\ t = b - d
    BY <2>3
  <2>5. \A e \in D : e < b => e <= d
    <3>1. ASSUME NEW e \in D, e < b PROVE e <= d
      <4>1. b - e \in T
        BY <3>1
      <4> QED
        BY <2>0, <2>3, <2>4, <4>1
    <3> QED
      BY <3>1
  <2>6. h.next[d] \in D /\ Follows(D, d, h.next[d])
    BY DEF Ring
  <2>7. h.next[d] = Base \/ b < h.next[d]
    BY <2>0, <2>4, <2>5, <2>6 DEF Follows
  <2> QED
    BY <2>4, <2>7
<1>4. PICK d \in D : d < b /\ (h.next[d] = Base \/ b < h.next[d])
  BY <1>3
<1>5. PICK k \in 1..n : w[k] = d
  BY <1>0, WalkCovers
<1>6. k \in S
  <2>1. k \in 0..n
    BY <1>0
  <2>2. d \in Nat /\ h.next[d] \in Nat
    BY <1>0
  <2>3. Stops(d, h.next[d])
    BY <1>4, <2>2 DEF Base
  <2> QED
    BY <1>5, <2>1, <2>3
<1>7. S \in SUBSET Nat /\ S # {}
  BY <1>0, <1>6
<1>8. Min(S) \in S
  BY <1>7, MinIs
<1>9. p \in D /\ Stops(p, h.next[p])
  BY <1>1, <1>2, <1>8
<1>10. p \in Nat /\ h.next[p] \in D /\ h.next[p] \in Nat /\ Follows(D, p, h.next[p])
  BY <1>0, <1>9 DEF Ring
<1> QED
  BY <1>9, <1>10 DEF Follows, Base

(* Any header can be reached by FindFirstFitBlock. *)
LEMMA FitsIf ==
  ASSUME NEW D, NEW h \in HeapType(D), Ring(D, h.next), NEW a \in D, NEW units \in Nat,
         h.size[a] >= units
  PROVE  Fits(h, units) # {}
<1>1. PICK k \in 1..Cardinality(D) : Walk(h)[k] = a
  BY WalkOfHeap, WalkCovers
<1>2. k \in Fits(h, units)
  BY <1>1, WalkOfHeap DEF Fits
<1> QED
  BY <1>2

(* What FindFirstFitBlock finds. *)
LEMMA FitFinds ==
  ASSUME NEW D, NEW h \in HeapType(D), Ring(D, h.next), NEW units \in Nat,
         Fits(h, units) # {},
         NEW p, p = Walk(h)[Min(Fits(h, units))],
         NEW pre, pre = Walk(h)[Min(Fits(h, units)) - 1]
  PROVE  pre \in D /\ p = h.next[pre] /\ p \in D /\ h.size[p] >= units
<1> DEFINE n == Cardinality(D)
           w == Walk(h)
<1>0. Walks(w, h.next, h.free_list, n) /\ n \in Nat /\ Length(h) = n /\ h.free_list \in D
  BY WalkOfHeap
<1>1. Fits(h, units) = {k \in 1..n : h.size[w[k]] >= units}
  BY <1>0, Zenon DEF Fits
<1>2. Min(Fits(h, units)) \in Fits(h, units)
  <2>1. Fits(h, units) \in SUBSET Nat
    BY <1>0, <1>1
  <2> QED
    BY <2>1, MinIs
<1>3. PICK k : k = Min(Fits(h, units))
  OBVIOUS
<1>4. k \in 1..n /\ h.size[w[k]] >= units
  BY <1>1, <1>2, <1>3
<1>5. /\ \A j \in 0..n : w[j] \in D
      /\ \A j \in 1..n : j - 1 \in 0..n /\ w[j] = h.next[w[j - 1]]
  BY <1>0, WalkStays
<1>6. k \in 0..n /\ k - 1 \in 0..n
  BY <1>0, <1>4
<1> QED
  BY <1>3, <1>4, <1>5, <1>6

\* The end of FreeBlock, when the block above has been merged or not.
Linked(h, p, n, s, next, block, size) ==
  IF p + h.size[p] = block
  THEN [h EXCEPT !.next = [n EXCEPT ![p] = next], !.size = [s EXCEPT ![p] = @ + size],
                 !.free_list = p]
  ELSE [h EXCEPT !.next = With([n EXCEPT ![p] = block], block, next),
                 !.size = With(s, block, size), !.free_list = p]

(* FreeBlock in two steps. *)
LEMMA FreeBlockIs ==
  ASSUME NEW h, NEW block, NEW units, NEW p, p = Walk(h)[Position(h, block)],
         NEW q, q = h.next[p], NEW g, g = FreeBlock(h, block, units)
  PROVE  /\ block + units = q =>
              g = Linked(h, p, Without(h.next, q), Without(h.size, q), h.next[q], block,
                         units + h.size[q])
         /\ block + units # q => g = Linked(h, p, h.next, h.size, q, block, units)
<1>1. CASE block + units = q
  BY <1>1, Zenon DEF FreeBlock, Linked
<1>2. CASE block + units # q
  BY <1>2, Zenon DEF FreeBlock, Linked
<1> QED
  BY <1>1, <1>2

\* g is h with the block linked in.
Gains(g, h, used, block, size, cells) ==
  /\ g.used = h.used /\ g.brk = h.brk
  /\ \E E : /\ Holding(g, E, used)
            /\ CellsOf(E, g.size, used) = cells \cup Span(<<block, size>>)
            /\ \E a \in E : g.size[a] >= size

(* The block is put behind p and merged with it if they touch. *)
LEMMA LinkedGains ==
  ASSUME NEW D, NEW h \in HeapType(D), NEW E \in SUBSET Nat, NEW used, NEW n, NEW s, NEW p \in E, NEW next,
         Ring(E, [n EXCEPT ![p] = next]), [n EXCEPT ![p] = next][p] = next,
         Blocks(E, s, used), s[p] = h.size[p],
         NEW block \in Nat, NEW size \in Nat, Room(E, s, used, <<block, size>>),
         block + size \notin E, p < block, next = Base \/ block < next
  PROVE  Gains(Linked(h, p, n, s, next, block, size), h, used, block, size,
               CellsOf(E, s, used))
<1> DEFINE r == [n EXCEPT ![p] = next]
           g == Linked(h, p, n, s, next, block, size)
<1>0. Base \in E /\ r \in [E -> E] /\ r[p] = next /\ Follows(E, p, next)
  BY DEF Ring
<1>1. s \in [E -> Nat] /\ \A a \in E : a \in Nat /\ s[a] \in Nat
  BY DEF Blocks
<1>2. CASE p + h.size[p] = block
  <2>0. PICK t : t = [s EXCEPT ![p] = @ + size]
    OBVIOUS
  <2>1. Blocks(E, t, used) /\ CellsOf(E, t, used) = CellsOf(E, s, used) \cup Span(<<block, size>>)
    <3>1. p + s[p] = block
      BY <1>2
    <3>2. Grown(t, E, s, used, p, block, size)
      BY <1>0, <2>0, <3>1 DEF Grown
    <3> QED
      BY <3>2, BlocksGrow
  <2>2. t \in [E -> Nat] /\ t[p] = s[p] + size
    BY <1>1, <2>0
  <2>3. t[p] >= size
    BY <1>1, <2>2
  <2>4. g = [h EXCEPT !.next = r, !.size = t, !.free_list = p]
    BY <1>2, <2>0, Zenon DEF Linked
  <2>5. Ring(E, r)
    OBVIOUS
  <2> HIDE DEF r, g
  <2>6. g.next = r /\ g.size = t /\ g.used = h.used /\ g.brk = h.brk
    BY <2>4 DEF HeapType
  <2>7. g \in HeapType(E)
    BY <1>0, <2>2, <2>4 DEF HeapType
  <2>8. Gains(g, h, used, block, size, CellsOf(E, s, used))
    BY <2>1, <2>3, <2>5, <2>6, <2>7 DEF Gains, Holding
  <2> QED
    BY <2>8 DEF g
<1>3. CASE p + h.size[p] # block
  <2> DEFINE F == E \cup {block}
             t == With(s, block, size)
             m == With([n EXCEPT ![p] = block], block, next)
  <2>1. \A a \in E : a + s[a] # block
    <3>1. ASSUME NEW a \in E PROVE a + s[a] # block
      <4>0. a \in Nat /\ s[a] \in Nat /\ s[a] > 0 /\ p \in Nat /\ next \in Nat
        BY <1>0, <1>1 DEF Blocks
      <4>1. a < p => a + s[a] < p
        BY DEF Blocks
      <4>2. a <= p \/ a > block
        BY <1>0, <4>0 DEF Follows
      <4> QED
        BY <1>3, <4>0, <4>1, <4>2
    <3> QED
      BY <3>1
  <2>2. /\ block \notin E /\ Blocks(F, t, used)
        /\ CellsOf(F, t, used) = CellsOf(E, s, used) \cup Span(<<block, size>>)
    BY <1>0, <2>1, BlocksInsert
  <2>3. [n EXCEPT ![p] = block] = [r EXCEPT ![p] = block]
    <3>1. DOMAIN n = E
      BY <1>0
    <3> QED
      BY <3>1
  <2>4. m = With([r EXCEPT ![p] = block], block, r[p])
    BY <1>0, <2>3
  <2>5. Ring(E, r)
    OBVIOUS
  <2> HIDE DEF r, m
  <2>6. Ring(F, m)
    BY <1>0, <2>2, <2>4, <2>5, RingInsert
  <2>7. t \in [F -> Nat] /\ t[block] = size /\ block \in F
    BY <1>1 DEF With
  <2>8. g = [h EXCEPT !.next = m, !.size = t, !.free_list = p]
    BY <1>3, Zenon DEF Linked, m
  <2> HIDE DEF t, g
  <2>9. g.next = m /\ g.size = t /\ g.used = h.used /\ g.brk = h.brk
    BY <2>8 DEF HeapType
  <2>10. m \in [F -> F] /\ p \in F
    BY <2>6 DEF Ring
  <2>11. g \in HeapType(F)
    BY <2>7, <2>8, <2>10 DEF HeapType
  <2>12. g.size[block] >= size
    BY <2>7, <2>9
  <2>13. Gains(g, h, used, block, size, CellsOf(E, s, used))
    BY <2>2, <2>6, <2>7, <2>9, <2>11, <2>12 DEF Gains, Holding
  <2> QED
    BY <2>13 DEF g
<1> QED
  BY <1>2, <1>3

(* FreeBlock makes a block that has room free. *)
LEMMA FreeBlockGains ==
  ASSUME NEW D, NEW used, NEW h, Holding(h, D, used), NEW block \in Nat, NEW units \in Nat,
         Room(D, h.size, used, <<block, units>>)
  PROVE  Gains(FreeBlock(h, block, units), h, used, block, units, CellsOf(D, h.size, used))
<1>0. h \in HeapType(D) /\ Ring(D, h.next) /\ Blocks(D, h.size, used)
  BY DEF Holding
<1>1. /\ D \in SUBSET Nat /\ Base \in D /\ h.next \in [D -> D]
      /\ \A a \in D : a \in Nat /\ h.size[a] \in Nat /\ h.size[a] > 0
  BY <1>0 DEF Ring, Blocks
<1>2. /\ block > 1 /\ units > 0
      /\ \A a \in D : a + h.size[a] <= block \/ block + units <= a
  BY DEF Room
<1>3. block \notin D
  BY <1>1, <1>2
<1>4. PICK p : p = Walk(h)[Position(h, block)]
  OBVIOUS
<1>5. p \in D /\ p < block /\ (h.next[p] = Base \/ block < h.next[p])
  BY <1>0, <1>2, <1>3, <1>4, PositionFinds
<1>6. PICK q : q = h.next[p]
  OBVIOUS
<1>7. q \in D /\ Follows(D, p, q)
  BY <1>0, <1>5, <1>6 DEF Ring
<1>10. PICK g : g = FreeBlock(h, block, units)
  OBVIOUS
<1>8. CASE block + units = q
  <2>0. PICK E, s, n, m, k : /\ E = D \ {q} /\ k = h.size[q] /\ m = units + k
                             /\ s = Without(h.size, q) /\ n = Without(h.next, q)
    OBVIOUS
  <2>1. q # Base /\ q \in D \ {Base}
    BY <1>2, <1>7, <1>8 DEF Base
  <2>a. PICK r : r = [Without(h.next, q) EXCEPT ![p] = h.next[q]]
    OBVIOUS
  <2>b. r = [n EXCEPT ![p] = h.next[q]]
    BY <2>0, <2>a
  <2>2. p < q /\ p \in E /\ Ring(E, r) /\ r[p] = h.next[q]
    <3>1. Unlinked(E, r, D, h.next, p, q)
      BY <1>0, <1>5, <1>6, <2>0, <2>1, <2>a DEF Unlinked
    <3> QED
      BY <3>1, RingRemove
  <2>3. /\ Blocks(E, s, used) /\ Room(E, s, used, <<q, k>>)
        /\ q + k \notin D
        /\ CellsOf(D, h.size, used) = CellsOf(E, s, used) \cup Span(<<q, k>>)
        /\ \A a \in E : s[a] = h.size[a]
    <3>1. TakenOff(E, s, D, h.size, used, q, k)
      BY <1>0, <1>1, <2>0, <2>1 DEF TakenOff
    <3> QED
      BY <3>1, BlocksRemove
  <2>4. E \in SUBSET Nat /\ k \in Nat
    BY <1>1, <1>7, <2>0
  <2>6. Room(E, s, used, <<block, units>>)
    BY <1>2, <2>0, <2>3 DEF Room
  <2>7. /\ Room(E, s, used, <<block, m>>)
        /\ Span(<<block, m>>) = Span(<<block, units>>) \cup Span(<<q, k>>)
    <3>1. Rooms(E, s, used, block, units, q, k, m)
      BY <1>8, <2>0, <2>3, <2>4, <2>6 DEF Rooms
    <3> QED
      BY <3>1, RoomJoin
  <2>8. m \in Nat /\ block + m = q + k
    BY <1>8, <2>0, <2>4
  <2>9. h.next[q] = Base \/ block < h.next[q]
    <3>1. h.next[q] \in D /\ Follows(D, q, h.next[q])
      BY <1>0, <1>7 DEF Ring
    <3>2. q \in Nat /\ h.next[q] \in Nat /\ block < q
      BY <1>1, <1>2, <1>7, <1>8, <3>1, block < block + units
    <3> QED
      BY <3>1, <3>2 DEF Follows
  <2>10. Gains(Linked(h, p, n, s, h.next[q], block, m), h, used, block, m, CellsOf(E, s, used))
    <3>1. s[p] = h.size[p] /\ block + m \notin E
      BY <2>0, <2>2, <2>3, <2>8
    <3> QED
      BY <1>0, <1>5, <2>b, <2>2, <2>3, <2>4, <2>7, <2>8, <2>9, <3>1, LinkedGains
  <2>12. g = Linked(h, p, n, s, h.next[q], block, m)
    BY <1>4, <1>6, <1>8, <1>10, <2>0, FreeBlockIs
  <2>13. CellsOf(E, s, used) \cup Span(<<block, m>>)
           = CellsOf(D, h.size, used) \cup Span(<<block, units>>)
    BY <2>3, <2>7
  <2>14. \A x \in Nat : x >= m => x >= units
    BY <2>0, <2>4
  <2>15. Gains(g, h, used, block, units, CellsOf(D, h.size, used))
    <3>0. Gains(g, h, used, block, m, CellsOf(E, s, used))
      BY <2>10, <2>12
    <3>1. PICK F : /\ Holding(g, F, used)
                   /\ CellsOf(F, g.size, used) = CellsOf(E, s, used) \cup Span(<<block, m>>)
                   /\ \E a \in F : g.size[a] >= m
      BY <3>0, Zenon DEF Gains
    <3>2. \A a \in F : g.size[a] \in Nat
      BY <3>1 DEF Holding, Blocks
    <3>3. \E a \in F : g.size[a] >= units
      BY <2>14, <3>1, <3>2
    <3>4. g.used = h.used /\ g.brk = h.brk
      BY <3>0 DEF Gains
    <3> QED
      BY <2>13, <3>1, <3>3, <3>4, Zenon DEF Gains
  <2> QED
    BY <1>10, <2>15
<1>9. CASE block + units # q
  <2>1. block + units \notin D
    BY <1>1, <1>2, <1>5, <1>6, <1>7, <1>9 DEF Follows
  <2>2. [h.next EXCEPT ![p] = q] = h.next
    BY <1>1, <1>5, <1>6
  <2>3. Gains(Linked(h, p, h.next, h.size, q, block, units), h, used, block, units,
              CellsOf(D, h.size, used))
    BY <1>0, <1>1, <1>5, <1>6, <2>1, <2>2, LinkedGains
  <2>4. g = Linked(h, p, h.next, h.size, q, block, units)
    BY <1>4, <1>6, <1>9, <1>10, FreeBlockIs
  <2> QED
    BY <1>10, <2>3, <2>4
<1> QED
  BY <1>8, <1>9

\* A heap as the program finds it.
HeapOK(h) == \E D : Holding(h, D, h.used)

\* The addresses of all blocks.
HeapCells(h) == UNION {BlockCells(b) : b \in HeapBlocks(h)}

(* They are the addresses of the headers' blocks and of those in use. *)
LEMMA CellsAre ==
  ASSUME NEW D, NEW h, Holding(h, D, h.used)
  PROVE  CellsOf(D, h.size, h.used) = HeapCells(h)
<1>0. /\ DOMAIN h.next = D
      /\ \A a \in D : a \in Nat /\ h.size[a] \in Nat
      /\ \A u \in h.used : u[1] \in Nat /\ u[2] \in Nat
  BY BlockNumbers DEF Holding, HeapType, Ring
<1>1. ASSUME NEW c \in CellsOf(D, h.size, h.used) PROVE c \in HeapCells(h)
  <2>1. c \in Nat
    BY DEF CellsOf
  <2>2. ASSUME NEW a \in D \ {Base}, a <= c, c < a + h.size[a] PROVE c \in HeapCells(h)
    <3>1. <<a, h.size[a]>> \in HeapBlocks(h)
      BY <1>0 DEF HeapBlocks
    <3>2. c \in BlockCells(<<a, h.size[a]>>)
      BY <1>0, <2>1, <2>2 DEF BlockCells
    <3> QED
      BY <3>1, <3>2 DEF HeapCells
  <2>3. ASSUME NEW u \in h.used, u[1] <= c, c < u[1] + u[2] PROVE c \in HeapCells(h)
    <3>1. u \in HeapBlocks(h)
      BY DEF HeapBlocks
    <3>2. c \in BlockCells(u)
      BY <1>0, <2>1, <2>3 DEF BlockCells
    <3> QED
      BY <3>1, <3>2 DEF HeapCells
  <2> QED
    BY <2>2, <2>3 DEF CellsOf
<1>2. ASSUME NEW c \in HeapCells(h) PROVE c \in CellsOf(D, h.size, h.used)
  <2>1. PICK b \in HeapBlocks(h) : c \in BlockCells(b)
    BY <1>2 DEF HeapCells
  <2>2. CASE b \in h.used
    <3>1. c \in Nat /\ b[1] <= c /\ c < b[1] + b[2]
      BY <1>0, <2>1, <2>2 DEF BlockCells
    <3> QED
      BY <2>2, <3>1 DEF CellsOf
  <2>3. ASSUME NEW a \in D \ {Base}, b = <<a, h.size[a]>> PROVE c \in CellsOf(D, h.size, h.used)
    <3>1. c \in Nat /\ a <= c /\ c < a + h.size[a]
      BY <1>0, <2>1, <2>3 DEF BlockCells
    <3> QED
      BY <3>1 DEF CellsOf
  <2> QED
    BY <1>0, <2>1, <2>2, <2>3 DEF HeapBlocks
<1> QED
  BY <1>1, <1>2

(* malloc with a fit: the block is taken from the free ones. *)
LEMMA TakenOK ==
  ASSUME NEW h, HeapOK(h), NEW units \in Nat \ {0, 1}, Fits(h, units) # {},
         NEW g, g = Taken(h, units)
  PROVE  HeapOK(g) /\ HeapCells(g) = HeapCells(h) /\ g.brk = h.brk
<1>1. PICK D : Holding(h, D, h.used)
  BY DEF HeapOK
<1>2. h \in HeapType(D) /\ Ring(D, h.next) /\ Blocks(D, h.size, h.used)
  BY <1>1 DEF Holding
<1>3. PICK p, pre, m : /\ p = Walk(h)[Min(Fits(h, units))]
                       /\ pre = Walk(h)[Min(Fits(h, units)) - 1]
                       /\ m = h.size[p]
  OBVIOUS
<1>4. pre \in D /\ p = h.next[pre] /\ p \in D /\ m >= units /\ units \in Nat
  BY <1>2, <1>3, FitFinds
<1>5. /\ D \in SUBSET Nat /\ Base \in D /\ m \in Nat /\ h.size[Base] = 1 /\ p \in Nat
      /\ h.used \in SUBSET (Nat \X Nat) /\ h.next \in [D -> D] /\ h.size \in [D -> Nat]
  BY <1>2, <1>3, <1>4 DEF Ring, Blocks
<1>6. p # Base /\ p \in D \ {Base}
  BY <1>3, <1>4, <1>5
<1>7. CASE m - units = 0
  <2>0. PICK E, n, s, v : /\ E = D \ {p} /\ s = Without(h.size, p) /\ v = h.used \cup {<<p, m>>}
                          /\ n = [Without(h.next, p) EXCEPT ![pre] = h.next[p]]
    OBVIOUS
  <2>b. PICK b : b = <<p, m>>
    OBVIOUS
  <2>1. pre \in E /\ Ring(E, n) /\ n = Without([h.next EXCEPT ![pre] = h.next[p]], p)
    <3>1. Unlinked(E, n, D, h.next, pre, p)
      BY <1>2, <1>4, <1>6, <2>0 DEF Unlinked
    <3>2. pre \in E /\ Ring(E, n)
      BY <3>1, RingRemove
    <3> QED
      BY <1>5, <2>0, <3>2 DEF Without
  <2>2. /\ Blocks(E, s, h.used) /\ Room(E, s, h.used, <<p, m>>)
        /\ CellsOf(D, h.size, h.used) = CellsOf(E, s, h.used) \cup Span(<<p, m>>)
    <3>1. TakenOff(E, s, D, h.size, h.used, p, m)
      BY <1>2, <1>3, <1>5, <1>6, <2>0 DEF TakenOff
    <3> QED
      BY <3>1, BlocksRemove
  <2>3. E \in SUBSET Nat /\ Base \in E /\ <<p, m>> \in Nat \X Nat
    BY <1>5, <1>6, <2>0
  <2>4. Blocks(E, s, v) /\ CellsOf(E, s, v) = CellsOf(D, h.size, h.used)
    <3>1. Room(E, s, h.used, b) /\ b \in Nat \X Nat /\ v = h.used \cup {b}
      BY <2>0, <2>b, <2>2, <2>3
    <3>2. Blocks(E, s, v) /\ CellsOf(E, s, v) = CellsOf(E, s, h.used) \cup Span(b)
      BY <2>2, <2>3, <3>1, BlocksUse
    <3> QED
      BY <2>2, <2>b, <3>2
  <2>5. m = units
    BY <1>4, <1>5, <1>7
  <2>6. g = [h EXCEPT !.next = n, !.size = s, !.free_list = pre, !.used = v]
    BY <1>3, <1>7, <2>0, <2>1, <2>5, Zenon DEF Taken
  <2>7. n \in [E -> E] /\ s \in [E -> Nat] /\ v \in SUBSET (Nat \X Nat)
    BY <2>1, <2>4 DEF Ring, Blocks
  <2>8. g.next = n /\ g.size = s /\ g.used = v /\ g.brk = h.brk
    BY <1>2, <2>6 DEF HeapType
  <2>9. g \in HeapType(E)
    BY <1>2, <2>1, <2>6, <2>7 DEF HeapType
  <2>10. Holding(g, E, g.used)
    BY <2>1, <2>4, <2>8, <2>9 DEF Holding
  <2>11. HeapCells(g) = CellsOf(E, s, v) /\ HeapCells(h) = CellsOf(D, h.size, h.used)
    BY <1>1, <2>8, <2>10, CellsAre
  <2> QED
    BY <2>4, <2>8, <2>10, <2>11 DEF HeapOK
<1>8. CASE m - units # 0
  <2>0. PICK r, s, v : /\ r = m - units /\ s = [h.size EXCEPT ![p] = r]
                       /\ v = h.used \cup {<<p + r, units>>}
    OBVIOUS
  <2>1. r \in Nat /\ r > 0 /\ m = r + units /\ units > 0
    BY <1>4, <1>5, <1>8, <2>0
  <2>2. /\ Blocks(D, s, h.used) /\ Room(D, s, h.used, <<p + r, units>>)
        /\ CellsOf(D, h.size, h.used) = CellsOf(D, s, h.used) \cup Span(<<p + r, units>>)
    <3>1. Shrunk(s, D, h.size, h.used, p, r, units)
      BY <1>2, <1>3, <1>4, <1>5, <1>6, <2>0, <2>1 DEF Shrunk
    <3> QED
      BY <3>1, BlocksShrink
  <2>3. <<p + r, units>> \in Nat \X Nat
    BY <1>4, <1>5, <2>1
  <2>4. Blocks(D, s, v) /\ CellsOf(D, s, v) = CellsOf(D, h.size, h.used)
    BY <1>5, <2>0, <2>2, <2>3, BlocksUse
  <2>6. g = [h EXCEPT !.size = s, !.free_list = p, !.used = v]
    <3>1. g = [h EXCEPT !.size[p] = r, !.free_list = p, !.used = @ \cup {<<p + r, units>>}]
      BY <1>3, <1>8, <2>0, Zenon DEF Taken
    <3>2. [h EXCEPT !.size[p] = r, !.free_list = p, !.used = @ \cup {<<p + r, units>>}]
            = [h EXCEPT !.size = s, !.free_list = p, !.used = v]
      BY <1>2, <1>5, <2>0 DEF HeapType
    <3> QED
      BY <3>1, <3>2
  <2>7. s \in [D -> Nat] /\ v \in SUBSET (Nat \X Nat)
    BY <2>4 DEF Blocks
  <2>8. g.next = h.next /\ g.size = s /\ g.used = v /\ g.brk = h.brk
    BY <1>2, <2>6 DEF HeapType
  <2>9. g \in HeapType(D)
    BY <1>2, <1>4, <2>6, <2>7 DEF HeapType
  <2>10. Holding(g, D, g.used)
    BY <1>2, <2>4, <2>8, <2>9 DEF Holding
  <2>11. HeapCells(g) = CellsOf(D, s, v) /\ HeapCells(h) = CellsOf(D, h.size, h.used)
    BY <1>1, <2>8, <2>10, CellsAre
  <2> QED
    BY <2>4, <2>8, <2>10, <2>11 DEF HeapOK
<1> QED
  BY <1>7, <1>8

(* free: the block becomes free memory. *)
LEMMA FreeOK ==
  ASSUME NEW h, HeapOK(h), NEW b \in h.used,
         NEW g, g = [FreeBlock(h, b[1], b[2]) EXCEPT !.used = @ \ {b}]
  PROVE  HeapOK(g) /\ HeapCells(g) = HeapCells(h) /\ g.brk = h.brk
<1>1. PICK D : Holding(h, D, h.used)
  BY DEF HeapOK
<1>2. /\ h \in HeapType(D) /\ Ring(D, h.next) /\ Blocks(D, h.size, h.used)
      /\ D \in SUBSET Nat /\ Base \in D
  BY <1>1 DEF Holding, Ring
<1>3. PICK v : v = h.used \ {b}
  OBVIOUS
<1>4. /\ Blocks(D, h.size, v) /\ Room(D, h.size, v, b) /\ b \in Nat \X Nat
      /\ CellsOf(D, h.size, h.used) = CellsOf(D, h.size, v) \cup Span(b)
  <2>1. Returned(v, D, h.size, h.used, b)
    BY <1>2, <1>3 DEF Returned
  <2> QED
    BY <2>1, BlocksUnuse
<1>5. PICK x, y : x = b[1] /\ y = b[2]
  OBVIOUS
<1>6. x \in Nat /\ y \in Nat /\ b = <<x, y>>
  BY <1>4, <1>5
<1>7. Holding(h, D, v) /\ Room(D, h.size, v, <<x, y>>)
  BY <1>2, <1>4, <1>6 DEF Holding
<1>8. PICK f : f = FreeBlock(h, x, y)
  OBVIOUS
<1>9. Gains(f, h, v, x, y, CellsOf(D, h.size, v))
  BY <1>6, <1>7, <1>8, FreeBlockGains
<1>10. PICK E : Holding(f, E, v) /\ CellsOf(E, f.size, v) = CellsOf(D, h.size, v) \cup Span(<<x, y>>)
  BY <1>9 DEF Gains
<1>11. f.used = h.used /\ f.brk = h.brk
  BY <1>9 DEF Gains
<1>12. g = [f EXCEPT !.used = v]
  BY <1>3, <1>5, <1>8, <1>11
<1>13. f \in HeapType(E) /\ Ring(E, f.next) /\ Blocks(E, f.size, v) /\ v \in SUBSET (Nat \X Nat)
  BY <1>10 DEF Holding, Blocks
<1>14. g.next = f.next /\ g.size = f.size /\ g.used = v /\ g.brk = f.brk /\ g \in HeapType(E)
  BY <1>12, <1>13 DEF HeapType
<1>15. Holding(g, E, g.used)
  BY <1>13, <1>14 DEF Holding
<1>16. HeapCells(g) = CellsOf(E, g.size, g.used) /\ HeapCells(h) = CellsOf(D, h.size, h.used)
  BY <1>1, <1>15, CellsAre
<1>17. HeapCells(g) = HeapCells(h)
  BY <1>4, <1>6, <1>10, <1>14, <1>16
<1> QED
  BY <1>11, <1>14, <1>15, <1>17 DEF HeapOK

\* The heap with what sbrk gave.
GrownHeap(h, addr, bytes) == [FreeBlock(h, addr, bytes) EXCEPT !.brk = @ + bytes]

(* GrowHeader: what sbrk gave becomes free memory, and there is a fit. *)
LEMMA GrownOK ==
  ASSUME NEW h, HeapOK(h), NEW addr \in Nat, NEW bytes \in Nat, addr > 1, bytes > 0,
         \A c \in HeapCells(h) : c < addr,
         NEW g, g = GrownHeap(h, addr, bytes),
         NEW units \in Nat, units <= bytes
  PROVE  /\ HeapOK(g) /\ HeapCells(g) = HeapCells(h) \cup (addr..(addr + bytes - 1))
         /\ g.brk = h.brk + bytes
         /\ Fits(g, units) # {}
<1>1. PICK D : Holding(h, D, h.used)
  BY DEF HeapOK
<1>2. /\ h \in HeapType(D) /\ Ring(D, h.next) /\ Blocks(D, h.size, h.used)
      /\ D \in SUBSET Nat /\ Base \in D /\ h.brk \in Nat
  BY <1>1 DEF Holding, Ring, HeapType
<1>3. HeapCells(h) = CellsOf(D, h.size, h.used)
  BY <1>1, CellsAre
<1>4. Room(D, h.size, h.used, <<addr, bytes>>)
  <2>1. ASSUME NEW a \in D PROVE a + h.size[a] <= addr
    <3>0. a \in Nat /\ h.size[a] \in Nat /\ h.size[a] > 0 /\ h.size[Base] = 1
      BY <1>2 DEF Blocks
    <3>1. CASE a = Base
      BY <3>0, <3>1 DEF Base
    <3>2. CASE a # Base
      <4>1. a + h.size[a] - 1 \in CellsOf(D, h.size, h.used)
        <5>1. PICK c : c = a + h.size[a] - 1
          OBVIOUS
        <5>2. c \in Nat /\ a <= c /\ c < a + h.size[a] /\ a \in D \ {Base}
          BY <3>0, <3>2, <5>1
        <5> QED
          BY <5>1, <5>2 DEF CellsOf
      <4>2. a + h.size[a] - 1 < addr
        BY <1>3, <4>1
      <4> QED
        BY <3>0, <4>2
    <3> QED
      BY <3>1, <3>2
  <2>2. ASSUME NEW u \in h.used PROVE Apart(u, <<addr, bytes>>)
    <3>0. u[1] \in Nat /\ u[2] \in Nat /\ u[2] > 0
      BY <1>2, BlockNumbers
    <3>1. u[1] + u[2] - 1 \in CellsOf(D, h.size, h.used)
      <4>1. PICK c : c = u[1] + u[2] - 1
        OBVIOUS
      <4>2. c \in Nat /\ u[1] <= c /\ c < u[1] + u[2]
        BY <3>0, <4>1
      <4> QED
        BY <4>1, <4>2 DEF CellsOf
    <3>2. u[1] + u[2] - 1 < addr
      BY <1>3, <3>1
    <3> QED
      BY <3>0, <3>2 DEF Apart
  <2> QED
    BY <2>1, <2>2 DEF Room
<1>5. PICK f : f = FreeBlock(h, addr, bytes)
  OBVIOUS
<1>6. Gains(f, h, h.used, addr, bytes, CellsOf(D, h.size, h.used))
  BY <1>1, <1>4, <1>5, FreeBlockGains
<1>7. PICK E : /\ Holding(f, E, h.used)
               /\ CellsOf(E, f.size, h.used) = CellsOf(D, h.size, h.used) \cup Span(<<addr, bytes>>)
               /\ \E a \in E : f.size[a] >= bytes
  BY <1>6 DEF Gains
<1>8. f.used = h.used /\ f.brk = h.brk
  BY <1>6 DEF Gains
<1>9. g = [f EXCEPT !.brk = h.brk + bytes]
  BY <1>5, <1>8 DEF GrownHeap
<1>10. f \in HeapType(E) /\ Ring(E, f.next) /\ Blocks(E, f.size, h.used) /\ h.brk + bytes \in Nat
  BY <1>2, <1>7 DEF Holding
<1>11. /\ g.next = f.next /\ g.size = f.size /\ g.used = h.used /\ g.brk = h.brk + bytes
       /\ g \in HeapType(E)
  BY <1>8, <1>9, <1>10 DEF HeapType
<1>12. Holding(g, E, g.used)
  BY <1>10, <1>11 DEF Holding
<1>13. HeapCells(g) = CellsOf(E, g.size, g.used)
  BY <1>12, CellsAre
<1>14. Span(<<addr, bytes>>) = addr..(addr + bytes - 1)
  BY DEF Span
<1>15. HeapCells(g) = HeapCells(h) \cup (addr..(addr + bytes - 1))
  BY <1>3, <1>7, <1>11, <1>13, <1>14
<1>16. PICK a \in E : f.size[a] >= bytes
  BY <1>7
<1>17. g.size[a] >= units /\ Ring(E, g.next)
  <2>1. f.size[a] \in Nat
    BY <1>10 DEF Blocks
  <2> QED
    BY <1>10, <1>11, <1>16, <2>1
<1>18. Fits(g, units) # {}
  BY <1>11, <1>17, FitsIf
<1> QED
  BY <1>11, <1>12, <1>15, <1>18 DEF HeapOK

-----------------------------------------------------------------------------
(* Regions *)

Regions == Seq(Nat \X Nat)

RegionCells(regions) ==
  UNION {regions[i][1]..(regions[i][2] - 1) : i \in 1..Len(regions)}

\* Some region ends above address 0.
Begun(regions) == \E i \in 1..Len(regions) : regions[i][2] > 0

\* The heap is in its regions, and as large as sbrk was asked for.
HeapIn(h, regions) ==
  /\ HeapOK(h)
  /\ IsFiniteSet(HeapCells(h)) /\ Cardinality(HeapCells(h)) = h.brk
  /\ HeapCells(h) \subseteq RegionCells(regions)
  /\ Begun(regions)

(* The regions have a highest end. *)
LEMMA MaxEnd ==
  ASSUME NEW regions \in Regions, NEW S,
         S = {0} \cup {regions[i][2] : i \in 1..Len(regions)}
  PROVE  S \in SUBSET Nat /\ Max(S) \in S /\ \A x \in S : x <= Max(S)
<1> DEFINE n == Len(regions)
           Bounds(b, k) == \A i \in 1..k : regions[i][2] <= b
           Bad == {k \in 0..n : \A b \in Nat : ~Bounds(b, k)}
<1>0. n \in Nat /\ \A i \in 1..n : regions[i] \in Nat \X Nat
  BY DEF Regions
<1>1. \A i \in 1..n : regions[i][2] \in Nat
  BY <1>0
<1>2. S \in SUBSET Nat
  BY <1>1
<1>3. ASSUME Bad # {} PROVE FALSE
  <2>0. Bad \in SUBSET Nat
    OBVIOUS
  <2>1. PICK k \in Bad : \A j \in Bad : k <= j
    BY <1>3, <2>0, Least
  <2>2. k \in 0..n /\ \A b \in Nat : ~Bounds(b, k)
    OBVIOUS
  <2>3. k # 0
    <3>1. Bounds(0, 0)
      OBVIOUS
    <3> QED
      BY <2>2, <3>1
  <2>4. k - 1 \in 0..n /\ ~(k <= k - 1) /\ k \in 1..n
    BY <1>0, <2>2, <2>3
  <2>5. PICK b \in Nat : Bounds(b, k - 1)
    BY <2>1, <2>4
  <2>6. PICK e : e = regions[k][2]
    OBVIOUS
  <2>7. e \in Nat
    BY <1>1, <2>4, <2>6
  <2>a. \A i \in 1..(k - 1) : regions[i][2] <= b
    BY <2>5
  <2> HIDE DEF Bad, Bounds
  <2>8. ASSUME NEW i \in 1..k PROVE regions[i][2] <= b + e
    <3>1. CASE i = k
      BY <2>6, <2>7, <3>1
    <3>2. CASE i # k
      <4>1. i \in 1..(k - 1) /\ i \in 1..n
        BY <2>4, <3>2
      <4>2. regions[i][2] <= b /\ regions[i][2] \in Nat
        BY <1>1, <2>a, <4>1
      <4> QED
        BY <2>7, <4>2
    <3> QED
      BY <3>1, <3>2
  <2>9. Bounds(b + e, k) /\ b + e \in Nat
    BY <2>7, <2>8 DEF Bounds
  <2> QED
    BY <2>2, <2>9
<1> DEFINE U == {b \in Nat : \A x \in S : x <= b}
<1>4. U # {} /\ U \in SUBSET Nat
  <2>0. n \notin Bad
    BY <1>3
  <2>1. n \in 0..n
    BY <1>0
  <2>2. PICK b \in Nat : Bounds(b, n)
    BY <2>0, <2>1
  <2>3. b \in U
    BY <2>2
  <2> QED
    BY <2>3
<1>5. PICK m \in U : \A b \in U : m <= b
  BY <1>4, Least
<1>6. m \in S
  <2> SUFFICES ASSUME m \notin S PROVE FALSE
    OBVIOUS
  <2>1. m \in Nat /\ \A x \in S : x <= m /\ x \in Nat /\ x # m
    BY <1>2
  <2>2. 0 \in S
    OBVIOUS
  <2>3. m - 1 \in Nat /\ \A x \in S : x <= m - 1
    BY <2>1, <2>2
  <2>4. m - 1 \in U
    BY <2>3
  <2>5. m <= m - 1
    BY <1>5, <2>4
  <2> QED
    BY <2>1, <2>5
<1>7. \E x \in S : \A y \in S : x >= y
  <2>1. \A y \in S : m >= y
    BY <1>2
  <2> QED
    BY <1>6, <2>1
<1>8. Max(S) = CHOOSE x \in S : \A y \in S : x >= y
  BY Zenon DEF Max
<1>9. Max(S) \in S /\ \A y \in S : Max(S) >= y
  BY <1>7, <1>8, Zenon
<1> QED
  BY <1>2, <1>9

(* The regions when one more is added. *)
LEMMA RegionAdded ==
  ASSUME NEW regions \in Regions, NEW r \in Nat \X Nat, NEW new, new = Append(regions, r)
  PROVE  /\ new \in Regions
         /\ RegionCells(regions) \subseteq RegionCells(new)
         /\ r[1]..(r[2] - 1) \subseteq RegionCells(new)
         /\ Begun(regions) => Begun(new)
<1>1. /\ new \in Regions /\ Len(regions) \in Nat /\ Len(new) = Len(regions) + 1
      /\ \A i \in 1..Len(regions) : new[i] = regions[i]
      /\ new[Len(regions) + 1] = r
  BY DEF Regions
<1>2. Len(regions) + 1 \in 1..Len(new) /\ \A i \in 1..Len(regions) : i \in 1..Len(new)
  BY <1>1
<1> QED
  BY <1>1, <1>2 DEF RegionCells, Begun

(* An address rounded up to a page. *)
LEMMA CastUp ==
  ASSUME NEW a \in Nat
  PROVE  /\ AddrCastUp(a) \in Nat /\ AddrCastUp(a) >= a
         /\ a > 0 => AddrCastUp(a) > 1
<1> DEFINE x == a + PageSize - 1
<1>0. PageSize \in Nat \ {0} /\ PageSize >= 2
  BY HeapAssumption
<1>1. x \in Int /\ x >= 0
  BY <1>0
<1>2. PICK q, r : q = x \div PageSize /\ r = x % PageSize
  OBVIOUS
<1>3. q \in Int /\ r \in 0..(PageSize - 1) /\ x = PageSize * q + r
  BY <1>0, <1>1, <1>2, DivMod
<1>4. AddrCastUp(a) = x - r
  BY <1>2 DEF AddrCastUp, AddrCastDown
<1>5. x - r \in Nat /\ x - r >= a
  BY <1>0, <1>1, <1>3
<1>6. ASSUME a > 0 PROVE x - r > 1
  <2>1. x >= PageSize
    BY <1>0, <1>6
  <2>2. q <= 0 => PageSize * q <= 0
    BY <1>0, <1>3
  <2>3. q >= 1
    BY <1>0, <1>3, <2>1, <2>2
  <2>4. PageSize * q >= PageSize
    BY <1>0, <1>3, <2>3
  <2> QED
    BY <1>0, <1>3, <2>4
<1> QED
  BY <1>4, <1>5, <1>6

(* sbrk gives addresses above all regions. *)
LEMMA GivenAddress ==
  ASSUME NEW space, NEW regions \in Regions, regions = space.regions
  PROVE  /\ MaxMemAddr(space) \in Nat
         /\ AddrCastUp(MaxMemAddr(space)) \in Nat
         /\ \A c \in RegionCells(regions) : c < AddrCastUp(MaxMemAddr(space))
         /\ Begun(regions) => AddrCastUp(MaxMemAddr(space)) > 1
<1> DEFINE S == {0} \cup {regions[i][2] : i \in 1..Len(regions)}
<1>1. PICK m : m = MaxMemAddr(space)
  OBVIOUS
<1>2. m = Max(S)
  BY <1>1 DEF MaxMemAddr
<1>3. S \in SUBSET Nat /\ Max(S) \in S /\ \A x \in S : x <= Max(S)
  BY MaxEnd
<1>4. m \in Nat /\ \A i \in 1..Len(regions) : regions[i][2] \in Nat /\ regions[i][2] <= m
  BY <1>2, <1>3
<1>5. PICK e : e = AddrCastUp(m)
  OBVIOUS
<1>6. e \in Nat /\ e >= m /\ (m > 0 => e > 1)
  BY <1>4, <1>5, CastUp
<1>7. ASSUME NEW c \in RegionCells(regions) PROVE c < e
  <2>1. PICK i \in 1..Len(regions) : c \in regions[i][1]..(regions[i][2] - 1)
    BY DEF RegionCells
  <2>2. regions[i] \in Nat \X Nat
    BY DEF Regions
  <2>3. regions[i][1] \in Nat /\ regions[i][2] \in Nat /\ regions[i][2] <= m
    BY <1>4, <2>2
  <2> QED
    BY <1>4, <1>6, <2>1, <2>3
<1>8. Begun(regions) => e > 1
  BY <1>4, <1>6 DEF Begun
<1> QED
  BY <1>1, <1>4, <1>5, <1>6, <1>7, <1>8

(* A program starts without a heap. *)
LEMMA EmptyIn ==
  ASSUME NEW regions, Begun(regions)
  PROVE  HeapIn(EmptyHeap, regions)
<1> DEFINE D == {Base}
<1>1. EmptyHeap \in HeapType(D)
  BY DEF EmptyHeap, HeapType, Base
<1>2. /\ EmptyHeap.next = [a \in D |-> Base] /\ EmptyHeap.size = [a \in D |-> 1]
      /\ EmptyHeap.used = {} /\ EmptyHeap.brk = 0
  BY DEF EmptyHeap
<1>3. Ring(D, EmptyHeap.next)
  <2>1. IsFiniteSet(D)
    BY FS_Singleton
  <2> QED
    BY <1>2, <2>1 DEF Ring, Follows, Base
<1>4. Blocks(D, EmptyHeap.size, EmptyHeap.used)
  BY <1>2 DEF Blocks, Base
<1>5. Holding(EmptyHeap, D, EmptyHeap.used)
  BY <1>1, <1>3, <1>4 DEF Holding
<1>6. HeapCells(EmptyHeap) = {}
  <2>1. DOMAIN EmptyHeap.next = {Base}
    BY <1>2
  <2>2. HeapBlocks(EmptyHeap) = {}
    BY <1>2, <2>1 DEF HeapBlocks
  <2> QED
    BY <2>2 DEF HeapCells
<1> QED
  BY <1>2, <1>5, <1>6, FS_EmptySet DEF HeapIn, HeapOK

(* malloc with a fit. *)
LEMMA TakenIn ==
  ASSUME NEW h, NEW regions, HeapIn(h, regions), NEW units \in Nat \ {0, 1},
         Fits(h, units) # {}, NEW g, g = Taken(h, units)
  PROVE  HeapIn(g, regions)
<1>1. HeapOK(g) /\ HeapCells(g) = HeapCells(h) /\ g.brk = h.brk
  BY TakenOK DEF HeapIn
<1> QED
  BY <1>1 DEF HeapIn

(* free. *)
LEMMA FreeIn ==
  ASSUME NEW h, NEW regions, HeapIn(h, regions), NEW b \in h.used,
         NEW g, g = [FreeBlock(h, b[1], b[2]) EXCEPT !.used = @ \ {b}]
  PROVE  HeapIn(g, regions)
<1>1. HeapOK(g) /\ HeapCells(g) = HeapCells(h) /\ g.brk = h.brk
  BY FreeOK DEF HeapIn
<1> QED
  BY <1>1 DEF HeapIn

(* The regions may grow behind a heap. *)
LEMMA MoreRegions ==
  ASSUME NEW h, NEW regions, NEW new, HeapIn(h, regions),
         RegionCells(regions) \subseteq RegionCells(new), Begun(regions) => Begun(new)
  PROVE  HeapIn(h, new)
BY DEF HeapIn

\* The heap f has bytes more, at addr above all regions; g has a block taken.
Growing(h, regions, units, bytes, addr, new, f, g) ==
  /\ regions \in Regions /\ HeapIn(h, regions)
  /\ units \in Nat \ {0, 1} /\ bytes \in Nat /\ bytes >= units
  /\ addr \in Nat /\ addr > 1 /\ \A c \in RegionCells(regions) : c < addr
  /\ new = Append(regions, <<addr, addr + bytes>>)
  /\ f = GrownHeap(h, addr, bytes) /\ g = Taken(f, units)

(* malloc without a fit. *)
LEMMA GrowIn ==
  ASSUME NEW h, NEW regions, NEW units, NEW bytes, NEW addr, NEW new, NEW f, NEW g,
         Growing(h, regions, units, bytes, addr, new, f, g)
  PROVE  HeapIn(g, new) /\ new \in Regions
<1>0. /\ regions \in Regions /\ HeapIn(h, regions)
      /\ units \in Nat \ {0, 1} /\ bytes \in Nat /\ bytes >= units
      /\ addr \in Nat /\ addr > 1 /\ \A c \in RegionCells(regions) : c < addr
      /\ new = Append(regions, <<addr, addr + bytes>>)
      /\ f = GrownHeap(h, addr, bytes) /\ g = Taken(f, units)
  BY DEF Growing
<1>1. HeapOK(h) /\ Begun(regions) /\ \A c \in HeapCells(h) : c < addr
  BY <1>0 DEF HeapIn
<1>2. bytes > 0 /\ units \in Nat /\ units <= bytes
  BY <1>0
<1>3. /\ HeapOK(f) /\ HeapCells(f) = HeapCells(h) \cup (addr..(addr + bytes - 1))
      /\ f.brk = h.brk + bytes /\ Fits(f, units) # {}
  BY <1>0, <1>1, <1>2, GrownOK
<1>4. PICK r : r = <<addr, addr + bytes>>
  OBVIOUS
<1>5. r \in Nat \X Nat /\ r[1] = addr /\ r[2] = addr + bytes /\ new = Append(regions, r)
  BY <1>0, <1>4
<1>6. /\ new \in Regions /\ RegionCells(regions) \subseteq RegionCells(new)
      /\ addr..(addr + bytes - 1) \subseteq RegionCells(new)
      /\ Begun(new)
  <2>1. /\ new \in Regions /\ RegionCells(regions) \subseteq RegionCells(new)
        /\ r[1]..(r[2] - 1) \subseteq RegionCells(new)
        /\ Begun(regions) => Begun(new)
    BY ONLY <1>0, <1>5, RegionAdded
  <2>2. r[1]..(r[2] - 1) = addr..(addr + bytes - 1)
    BY ONLY <1>0, <1>5
  <2> QED
    BY ONLY <1>1, <2>1, <2>2, Zenon
<1>7. IsFiniteSet(HeapCells(f)) /\ Cardinality(HeapCells(f)) = f.brk
  <2> DEFINE A == HeapCells(h)
             B == addr..(addr + bytes - 1)
  <2>1. IsFiniteSet(A) /\ Cardinality(A) = h.brk /\ h.brk \in Nat
    BY <1>0, FS_CardinalityType DEF HeapIn
  <2>2. IsFiniteSet(B) /\ Cardinality(B) = bytes
    <3>1. addr \in Int /\ addr + bytes - 1 \in Int
      BY <1>0
    <3>2. IsFiniteSet(B) /\ Cardinality(B) = IF addr > addr + bytes - 1 THEN 0
                                             ELSE (addr + bytes - 1) - addr + 1
      BY ONLY <3>1, FS_Interval, Zenon
    <3> QED
      BY <1>0, <1>2, <3>2
  <2>3. A \cap B = {}
    BY <1>0, <1>1
  <2> HIDE DEF A, B
  <2>4. /\ IsFiniteSet(A \cup B)
        /\ Cardinality(A \cup B) = Cardinality(A) + Cardinality(B) - Cardinality(A \cap B)
    BY ONLY <2>1, <2>2, FS_Union, Zenon
  <2>5. Cardinality(A \cap B) = 0
    BY <2>3, FS_EmptySet
  <2>6. Cardinality(A \cup B) = h.brk + bytes
    BY <1>0, <2>1, <2>2, <2>4, <2>5
  <2> QED
    BY <1>3, <2>4, <2>6 DEF A, B
<1>8. HeapIn(f, new)
  <2>1. HeapCells(h) \subseteq RegionCells(regions)
    BY <1>0 DEF HeapIn
  <2>2. HeapCells(f) \subseteq RegionCells(new)
    BY <1>3, <1>6, <2>1
  <2> QED
    BY <1>3, <1>6, <1>7, <2>2 DEF HeapIn
<1> QED
  BY <1>0, <1>3, <1>6, <1>8, TakenIn
-----------------------------------------------------------------------------
(* The inductive invariant.  Page tables, frames and page numbers are taken *)
(* from some set: no fact about them is needed.                             *)

AnyImage == Images \cup Libraries \cup {InitImage}
SpaceType(U) == [frame : U, root : U, pte : U, regions : Regions, got : U]
States == {"unused", "used", "live", "zombie"}
Ops == {"none", "fork", "exec", "dlopen"}
TaskType(U) == [state : States, kernel_sp : U, space : SpaceType(U)]
CallType(U) == [op : Ops, child : U, new : U,
                tmp : SpaceType(U), image : AnyImage, k : Nat, at : U, offset : Nat]

Typed(U) == task \in [Slots -> TaskType(U)] /\ sys \in [Slots -> CallType(U)]

\* exec has made a region of each segment it has loaded.
ExecSoFar(c) ==
  /\ c.image \in Images /\ c.k > 0 /\ Len(c.tmp.regions) = c.k - 1
  /\ \A j \in 1..(c.k - 1) : c.tmp.regions[j][2] = c.image.segs[j].beg + c.image.segs[j].memsz

\* A process in a call lives.
CallsOK ==
  \A s \in Slots : /\ sys[s].op # "none" => task[s].state = "live"
                   /\ sys[s].op = "exec" => ExecSoFar(sys[s])
                   /\ sys[s].op = "dlopen" => sys[s].k > 0

HeapsOK ==
  /\ DOMAIN heap = Slots
  /\ \A s \in Slots : task[s].state = "live" => HeapIn(heap[s], task[s].space.regions)

IInv == (\E U : Typed(U)) /\ CallsOK /\ HeapsOK

(* The set of page tables may be chosen larger. *)
LEMMA Widen ==
  ASSUME \E U : Typed(U), NEW X
  PROVE  \E U : X \subseteq U /\ Typed(U)
<1>1. PICK U : Typed(U)
  OBVIOUS
<1>2. PICK V : V = U \cup X
  OBVIOUS
<1>3. SpaceType(U) \subseteq SpaceType(V)
  BY <1>2 DEF SpaceType
<1>4. TaskType(U) \subseteq TaskType(V)
  BY <1>2, <1>3 DEF TaskType
<1>5. CallType(U) \subseteq CallType(V)
  BY <1>2, <1>3 DEF CallType
<1>6. Typed(V)
  BY <1>1, <1>4, <1>5 DEF Typed
<1> QED
  BY <1>2, <1>6

(* Calls that leave the task table and the regions alone. *)
LEMMA UserKeeps ==
  ASSUME IInv, task' = task, sys' = sys, DOMAIN heap' = Slots,
         \A s \in Slots : task[s].state = "live" => HeapIn(heap'[s], task[s].space.regions)
  PROVE  IInv'
BY DEF IInv, Typed, CallsOK, HeapsOK

(* malloc with a fit. *)
LEMMA MallocKeeps ==
  ASSUME IInv, NEW p \in Slots, NEW units \in Sizes, Malloc(p, units)
  PROVE  IInv'
<1>1. /\ task' = task /\ sys' = sys /\ task[p].state = "live"
      /\ Fits(heap[p], units) # {}
      /\ heap' = [heap EXCEPT ![p] = Taken(heap[p], units)]
  BY DEF Malloc, UserOp, InUser, vars
<1>2. PICK g : g = Taken(heap[p], units)
  OBVIOUS
<1>3. units \in Nat \ {0, 1}
  BY HeapAssumption
<1>4. HeapIn(g, task[p].space.regions)
  <2>1. HeapIn(heap[p], task[p].space.regions)
    BY <1>1 DEF IInv, HeapsOK
  <2> QED
    BY <1>1, <1>2, <1>3, <2>1, TakenIn
<1>5. DOMAIN heap' = Slots /\ \A s \in Slots : heap'[s] = IF s = p THEN g ELSE heap[s]
  BY <1>1, <1>2 DEF IInv, HeapsOK
<1> QED
  BY <1>1, <1>4, <1>5, UserKeeps DEF IInv, HeapsOK

(* free. *)
LEMMA FreeKeeps ==
  ASSUME IInv, NEW p \in Slots, Free(p)
  PROVE  IInv'
<1>1. PICK b \in heap[p].used :
        heap' = [heap EXCEPT ![p] = [FreeBlock(heap[p], b[1], b[2]) EXCEPT !.used = @ \ {b}]]
  BY DEF Free
<1>2. task' = task /\ sys' = sys /\ task[p].state = "live"
  BY DEF Free, UserOp, InUser, vars
<1>3. PICK g : g = [FreeBlock(heap[p], b[1], b[2]) EXCEPT !.used = @ \ {b}]
  OBVIOUS
<1>4. HeapIn(g, task[p].space.regions)
  <2>1. HeapIn(heap[p], task[p].space.regions)
    BY <1>2 DEF IInv, HeapsOK
  <2> QED
    BY <1>3, <2>1, FreeIn
<1>5. DOMAIN heap' = Slots /\ \A s \in Slots : heap'[s] = IF s = p THEN g ELSE heap[s]
  <2>1. heap' = [heap EXCEPT ![p] = g]
    BY <1>1, <1>3
  <2> QED
    BY <2>1 DEF IInv, HeapsOK
<1> QED
  BY <1>2, <1>4, <1>5, UserKeeps DEF IInv, HeapsOK

(* A store to data does not touch the headers. *)
LEMMA StoreKeeps ==
  ASSUME IInv, NEW p \in Slots, Store(p)
  PROVE  IInv'
<1>1. task' = task /\ sys' = sys /\ heap' = heap
  BY DEF Store, UserStore
<1> QED
  BY <1>1, UserKeeps DEF IInv, HeapsOK

\* A task with another page table, with another region too, and one that
\* CopyFrom has finished.
WithTable(t, x) == [t EXCEPT !.space.pte = x]
WithRegions(t, x, r) == [t EXCEPT !.space.pte = x, !.space.regions = r]
Finished(t, r, y) == [t EXCEPT !.state = "live", !.space.regions = r, !.space.got = y]

(* Setting a field keeps the type and the other fields: the page table, *)
LEMMA TableSet ==
  ASSUME NEW U, NEW t \in TaskType(U), NEW x \in U
  PROVE  /\ WithTable(t, x) \in TaskType(U)
         /\ WithTable(t, x).state = t.state
         /\ WithTable(t, x).space.regions = t.space.regions
<1>1. PICK z : z = t.space
  OBVIOUS
<1>2. z \in SpaceType(U) /\ t \in [state : States, kernel_sp : U, space : SpaceType(U)]
  BY <1>1 DEF TaskType
<1>3. PICK y : y = [z EXCEPT !.pte = x]
  OBVIOUS
<1>4. y \in SpaceType(U) /\ y.regions = z.regions
  BY <1>2, <1>3 DEF SpaceType
<1>5. WithTable(t, x) = [t EXCEPT !.space = y]
  BY <1>1, <1>2, <1>3 DEF WithTable
<1> QED
  BY <1>1, <1>2, <1>4, <1>5 DEF TaskType

(* page table and regions, *)
LEMMA RegionsSet ==
  ASSUME NEW U, NEW t \in TaskType(U), NEW x \in U, NEW r \in Regions
  PROVE  /\ WithRegions(t, x, r) \in TaskType(U)
         /\ WithRegions(t, x, r).state = t.state
         /\ WithRegions(t, x, r).space.regions = r
<1>1. PICK z : z = t.space
  OBVIOUS
<1>2. z \in SpaceType(U) /\ t \in [state : States, kernel_sp : U, space : SpaceType(U)]
  BY <1>1 DEF TaskType
<1>3. PICK y : y = [z EXCEPT !.pte = x, !.regions = r]
  OBVIOUS
<1>4. y \in SpaceType(U) /\ y.regions = r
  BY <1>2, <1>3 DEF SpaceType
<1>5. WithRegions(t, x, r) = [t EXCEPT !.space = y]
  BY <1>1, <1>2, <1>3 DEF WithRegions
<1> QED
  BY <1>1, <1>2, <1>4, <1>5 DEF TaskType

(* and what CopyFrom sets. *)
LEMMA FinishedSet ==
  ASSUME NEW U, NEW t \in TaskType(U), NEW r \in Regions, NEW x \in U
  PROVE  /\ Finished(t, r, x) \in TaskType(U)
         /\ Finished(t, r, x).state = "live"
         /\ Finished(t, r, x).space.regions = r
<1>1. PICK z : z = t.space
  OBVIOUS
<1>2. z \in SpaceType(U) /\ t \in [state : States, kernel_sp : U, space : SpaceType(U)]
  BY <1>1 DEF TaskType
<1>3. PICK y : y = [z EXCEPT !.regions = r, !.got = x]
  OBVIOUS
<1>4. y \in SpaceType(U) /\ y.regions = r
  BY <1>2, <1>3 DEF SpaceType
<1>5. Finished(t, r, x) = [t EXCEPT !.state = "live", !.space = y]
  BY <1>1, <1>2, <1>3 DEF Finished
<1>6. "live" \in States
  BY DEF States
<1> QED
  BY <1>1, <1>2, <1>4, <1>5, <1>6 DEF TaskType

\* The page table of c is x now and its regions are r.
NewTable(c, x, r) == task' = [task EXCEPT ![c].space.pte = x, ![c].space.regions = r]

(* A process whose page table changes and that gets a region more or none. *)
LEMMA TaskKeeps ==
  ASSUME IInv, NEW c, NEW x, NEW r \in Regions, NewTable(c, x, r)
  PROVE  /\ \E U : Typed(U) /\ task' \in [Slots -> TaskType(U)]
         /\ \A s \in Slots : /\ task'[s].state = task[s].state
                             /\ task'[s].space.regions
                                  = IF s = c THEN r ELSE task[s].space.regions
<1>1. PICK U : {x} \subseteq U /\ Typed(U)
  BY Widen DEF IInv
<1>2. x \in U /\ DOMAIN task = Slots /\ \A s \in Slots : task[s] \in TaskType(U)
  BY <1>1 DEF Typed
<1>3. task' = [s \in Slots |-> IF s = c THEN WithRegions(task[s], x, r) ELSE task[s]]
  BY <1>1, <1>2 DEF NewTable, WithRegions, Typed
<1>4. \A s \in Slots : /\ WithRegions(task[s], x, r) \in TaskType(U)
                       /\ WithRegions(task[s], x, r).state = task[s].state
                       /\ WithRegions(task[s], x, r).space.regions = r
  BY <1>2, RegionsSet
<1>5. task' \in [Slots -> TaskType(U)]
  BY <1>2, <1>3, <1>4
<1>6. ASSUME NEW s \in Slots
      PROVE  /\ task'[s].state = task[s].state
             /\ task'[s].space.regions = IF s = c THEN r ELSE task[s].space.regions
  BY <1>3, <1>4
<1> QED
  BY <1>1, <1>5, <1>6

(* malloc without a fit: sbrk adds a region, the block is taken from the grown heap. *)
LEMMA MallocGrowsKeeps ==
  ASSUME IInv, NEW p \in Slots, NEW units \in Sizes, MallocGrows(p, units)
  PROVE  IInv'
<1>1. PICK bytes, addr, f, g, x, r :
        /\ bytes = Max({units, GrowUnits})
        /\ addr = AddrCastUp(MaxMemAddr(task[p].space))
        /\ f = GrownHeap(heap[p], addr, bytes) /\ g = Taken(f, units)
        /\ r = Append(task[p].space.regions, <<addr, addr + bytes>>)
        /\ task' = [task EXCEPT ![p].space.pte = x, ![p].space.regions = r]
        /\ heap' = [heap EXCEPT ![p] = g]
  <2>1. PICK e : /\ e = ExpandMemory(task[p].space, Max({units, GrowUnits}))
                 /\ task' = [task EXCEPT ![p].space.pte = e.mem.pte,
                                         ![p].space.regions = Append(@, e.region)]
    BY Zenon DEF MallocGrows, SysSbrk
  <2>2. /\ e.addr = AddrCastUp(MaxMemAddr(task[p].space))
        /\ e.region = <<e.addr, e.addr + Max({units, GrowUnits})>>
    BY <2>1 DEF ExpandMemory
  <2>3. heap' = [heap EXCEPT ![p] = Taken(GrownHeap(heap[p], e.addr, Max({units, GrowUnits})), units)]
    BY <2>1, Zenon DEF MallocGrows, GrownHeap
  <2>4. PICK r : r = Append(task[p].space.regions, e.region)
    OBVIOUS
  <2>5. task' = [task EXCEPT ![p].space.pte = e.mem.pte, ![p].space.regions = r]
    BY <2>1, <2>4 DEF IInv, Typed, TaskType, SpaceType
  <2> QED
    BY <2>2, <2>3, <2>4, <2>5
<1>2. /\ sys' = sys /\ task[p].state = "live"
  BY DEF MallocGrows, SysSbrk, UserOp, InUser
<1>3. units \in Nat \ {0, 1} /\ GrowUnits \in Nat
  BY HeapAssumption
<1>4. bytes \in Nat /\ bytes >= units
  <2>1. \E z \in {units, GrowUnits} : \A y \in {units, GrowUnits} : z >= y
    BY <1>3
  <2>2. Max({units, GrowUnits}) = CHOOSE z \in {units, GrowUnits} : \A y \in {units, GrowUnits} : z >= y
    BY Zenon DEF Max
  <2>3. bytes \in {units, GrowUnits} /\ \A y \in {units, GrowUnits} : bytes >= y
    BY <1>1, <2>1, <2>2, Zenon
  <2> QED
    BY <1>3, <2>3
<1>5. PICK regions : regions = task[p].space.regions
  OBVIOUS
<1>6. regions \in Regions /\ HeapIn(heap[p], regions)
  BY <1>2, <1>5 DEF IInv, Typed, TaskType, SpaceType, HeapsOK
<1>7. addr \in Nat /\ addr > 1 /\ \A c \in RegionCells(regions) : c < addr
  BY <1>1, <1>5, <1>6, GivenAddress DEF HeapIn
<1>8. HeapIn(g, r) /\ r \in Regions
  <2>1. r = Append(regions, <<addr, addr + bytes>>)
    BY <1>1, <1>5
  <2> QED
    <3>1. Growing(heap[p], regions, units, bytes, addr, r, f, g)
      BY <1>1, <1>3, <1>4, <1>6, <1>7, <2>1 DEF Growing
    <3> QED
      BY <3>1, GrowIn
<1>9. /\ \E U : Typed(U) /\ task' \in [Slots -> TaskType(U)]
      /\ \A s \in Slots : /\ task'[s].state = task[s].state
                          /\ task'[s].space.regions
                               = IF s = p THEN r ELSE task[s].space.regions
  <2>1. NewTable(p, x, r)
    BY <1>1 DEF NewTable
  <2> QED
    BY <1>8, <2>1, TaskKeeps
<1>10. DOMAIN heap' = Slots /\ \A s \in Slots : heap'[s] = IF s = p THEN g ELSE heap[s]
  BY <1>1 DEF IInv, HeapsOK
<1>11. HeapsOK'
  BY <1>8, <1>9, <1>10 DEF IInv, HeapsOK
<1>12. CallsOK'
  BY <1>2, <1>9 DEF IInv, CallsOK
<1>13. (\E U : Typed(U))'
  BY <1>2, <1>9 DEF Typed
<1> QED
  BY <1>11, <1>12, <1>13 DEF IInv

(* The initial values of tasks and calls. *)
LEMMA NoneTyped ==
  ASSUME NEW U, {0, NoTable} \subseteq U
  PROVE  /\ NoSpace \in SpaceType(U) /\ NoCall \in CallType(U) /\ UnusedTask \in TaskType(U)
         /\ NoCall.op = "none" /\ UnusedTask.state = "unused"
<1>1. PICK t : t = NoTable
  OBVIOUS
<1>2. t \in U /\ 0 \in U
  BY <1>1
<1>3. PICK sp : sp = NoSpace
  OBVIOUS
<1>4. sp = [frame |-> 0, root |-> 0, pte |-> t, regions |-> <<>>, got |-> 0]
  BY <1>1, <1>3 DEF NoSpace
<1>5. <<>> \in Regions
  BY DEF Regions
<1>6. sp \in SpaceType(U)
  BY <1>2, <1>4, <1>5 DEF SpaceType
<1>7. InitImage \in AnyImage
  BY DEF AnyImage
<1>8. NoCall \in CallType(U) /\ NoCall.op = "none"
  BY <1>2, <1>3, <1>6, <1>7 DEF NoCall, CallType, Ops
<1>9. UnusedTask \in TaskType(U) /\ UnusedTask.state = "unused"
  BY <1>2, <1>3, <1>6 DEF UnusedTask, TaskType, States
<1> QED
  BY <1>3, <1>6, <1>8, <1>9

\* Steps that keep the heaps and whose processes keep their memory.
Quiet ==
  /\ heap' = heap
  /\ \A s \in Slots : task'[s].state = "live" =>
       /\ task[s].state = "live"
       /\ RegionCells(task[s].space.regions) \subseteq RegionCells(task'[s].space.regions)
       /\ Begun(task[s].space.regions) => Begun(task'[s].space.regions)

(* Such steps keep the heaps right. *)
LEMMA QuietKeeps ==
  ASSUME IInv, Quiet
  PROVE  HeapsOK'
<1>1. ASSUME NEW s \in Slots, task'[s].state = "live"
      PROVE  HeapIn(heap'[s], task'[s].space.regions)
  <2>1. /\ task[s].state = "live" /\ heap' = heap
        /\ RegionCells(task[s].space.regions) \subseteq RegionCells(task'[s].space.regions)
        /\ Begun(task[s].space.regions) => Begun(task'[s].space.regions)
    BY <1>1 DEF Quiet
  <2>2. HeapIn(heap[s], task[s].space.regions)
    BY <2>1 DEF IInv, HeapsOK
  <2> QED
    BY <2>1, <2>2, MoreRegions
<1> QED
  BY <1>1 DEF IInv, HeapsOK, Quiet

\* The process p goes on with call.
Goes(p, call) == sys' = [sys EXCEPT ![p] = call]

(* A step of p that leaves the task table alone. *)
LEMMA GoesKeeps ==
  ASSUME IInv, NEW U, Typed(U), NEW p \in Slots, NEW call \in CallType(U),
         Goes(p, call), task' = task, heap' = heap,
         call.op # "none" => task[p].state = "live",
         call.op = "exec" => ExecSoFar(call),
         call.op = "dlopen" => call.k > 0
  PROVE  IInv'
<1>1. sys' \in [Slots -> CallType(U)] /\ \A s \in Slots : sys'[s] = IF s = p THEN call ELSE sys[s]
  BY DEF Goes, Typed
<1>2. (\E V : Typed(V))'
  BY <1>1 DEF Typed
<1>3. CallsOK'
  BY <1>1 DEF CallsOK, IInv
<1>4. HeapsOK'
  BY DEF HeapsOK, IInv
<1> QED
  BY <1>2, <1>3, <1>4 DEF IInv

(* fork's begin: the child does not live yet. *)
LEMMA SysForkKeeps ==
  ASSUME IInv, NEW p \in Slots, SysFork(p), heap' = heap
  PROVE  IInv'
<1>1. PICK c, kp, fr, rt, pt, at :
        /\ c \in {s \in Slots : task[s].state = "unused"}
        /\ task' = [task EXCEPT ![c] = [state |-> "used", kernel_sp |-> kp,
                      space |-> [NoSpace EXCEPT !.frame = fr, !.root = rt, !.pte = pt]]]
        /\ sys' = [sys EXCEPT ![p] = [NoCall EXCEPT !.op = "fork", !.child = c, !.k = 1, !.at = at]]
  <2> DEFINE unused == {s \in Slots : task[s].state = "unused"}
             i == InitSpace(Mem(NoTable))
  <2>1. /\ unused # {}
        /\ task' = [task EXCEPT ![Min(unused)] =
                     [state |-> "used", kernel_sp |-> Alloc(i.mem).got, space |-> SpaceOf(i)]]
        /\ sys' = [sys EXCEPT ![p] = [NoCall EXCEPT !.op = "fork", !.child = Min(unused), !.k = 1,
                                        !.at = CopyAt(task[p].space.regions, 1)]]
    BY Zenon DEF SysFork
  <2>2. unused \in SUBSET Nat
    BY HeapAssumption
  <2>3. Min(unused) \in unused
    BY <2>1, <2>2, MinIs
  <2>4. SpaceOf(i) = [NoSpace EXCEPT !.frame = i.frame, !.root = i.root, !.pte = i.mem.pte]
    BY Zenon DEF SpaceOf
  <2> HIDE DEF i, unused
  <2>5. /\ Min(unused) \in unused
        /\ task' = [task EXCEPT ![Min(unused)] = [state |-> "used", kernel_sp |-> Alloc(i.mem).got,
                      space |-> [NoSpace EXCEPT !.frame = i.frame, !.root = i.root, !.pte = i.mem.pte]]]
        /\ sys' = [sys EXCEPT ![p] = [NoCall EXCEPT !.op = "fork", !.child = Min(unused), !.k = 1,
                                        !.at = CopyAt(task[p].space.regions, 1)]]
    BY <2>1, <2>3, <2>4, Zenon
  <2> QED
    BY <2>5, Zenon DEF unused
<1>2. task[p].state = "live" /\ c \in Slots /\ task[c].state = "unused" /\ c # p
  BY <1>1 DEF SysFork, InUser
<1>3. PICK U : {0, NoTable, c, kp, fr, rt, pt, at} \subseteq U /\ Typed(U)
  BY Widen DEF IInv
<1>4. NoSpace \in SpaceType(U) /\ NoCall \in CallType(U)
  BY <1>3, NoneTyped
<1>5. PICK sp, call : /\ sp = [NoSpace EXCEPT !.frame = fr, !.root = rt, !.pte = pt]
                      /\ call = [NoCall EXCEPT !.op = "fork", !.child = c, !.k = 1, !.at = at]
  OBVIOUS
<1>6. sp \in SpaceType(U) /\ call \in CallType(U) /\ call.op = "fork"
  BY <1>3, <1>4, <1>5 DEF SpaceType, CallType, Ops
<1>7. /\ sys' \in [Slots -> CallType(U)]
      /\ \A s \in Slots : sys'[s] = IF s = p THEN call ELSE sys[s]
  BY <1>1, <1>3, <1>5, <1>6 DEF Typed
<1>8. PICK t : t = [state |-> "used", kernel_sp |-> kp, space |-> sp]
  OBVIOUS
<1>9. t \in TaskType(U) /\ t.state = "used"
  BY <1>3, <1>6, <1>8 DEF TaskType, States
<1>10. /\ task' \in [Slots -> TaskType(U)]
       /\ \A s \in Slots : task'[s] = IF s = c THEN t ELSE task[s]
  BY <1>1, <1>3, <1>5, <1>8, <1>9 DEF Typed
<1>11. CallsOK'
  BY <1>2, <1>6, <1>7, <1>9, <1>10 DEF IInv, CallsOK
<1>12. Quiet
  BY <1>9, <1>10 DEF Quiet
<1>13. (\E V : Typed(V))'
  BY <1>7, <1>10 DEF Typed
<1> QED
  BY <1>11, <1>12, <1>13, QuietKeeps DEF IInv

(* fork copies a page: only the child's page table changes. *)
LEMMA CopyMemoryKeeps ==
  ASSUME IInv, NEW p \in Slots, CopyMemory(p), heap' = heap
  PROVE  IInv'
<1>1. PICK x, at1, at2 :
        /\ task' = [task EXCEPT ![sys[p].child].space.pte = x]
        /\ \/ sys' = [sys EXCEPT ![p] = [sys[p] EXCEPT !.at = at1]]
           \/ sys' = [sys EXCEPT ![p] = [sys[p] EXCEPT !.k = @ + 1, !.at = at2]]
  BY Zenon DEF CopyMemory
<1>2. sys[p].op = "fork" /\ task[p].state = "live"
  BY DEF CopyMemory, IInv, CallsOK
<1>3. PICK U : {x, at1, at2} \subseteq U /\ Typed(U)
  BY Widen DEF IInv
<1>4. PICK call : /\ sys' = [sys EXCEPT ![p] = call] /\ call \in CallType(U) /\ call.op = "fork"
  <2>1. [sys[p] EXCEPT !.at = at1] \in CallType(U) /\ [sys[p] EXCEPT !.at = at1].op = "fork"
    BY <1>2, <1>3 DEF Typed, CallType
  <2>2. /\ [sys[p] EXCEPT !.k = @ + 1, !.at = at2] \in CallType(U)
        /\ [sys[p] EXCEPT !.k = @ + 1, !.at = at2].op = "fork"
    <3>1. PICK call, n : call = sys[p] /\ n = call.k + 1
      OBVIOUS
    <3>2. call \in CallType(U) /\ n \in Nat /\ at2 \in U /\ call.op = "fork"
      BY <1>2, <1>3, <3>1 DEF Typed, CallType
    <3>3. [call EXCEPT !.k = n, !.at = at2] \in CallType(U) /\ [call EXCEPT !.k = n, !.at = at2].op = "fork"
      BY <3>2 DEF CallType
    <3>4. [sys[p] EXCEPT !.k = @ + 1, !.at = at2] = [call EXCEPT !.k = n, !.at = at2]
      BY <3>1
    <3> QED
      BY <3>3, <3>4
  <2> QED
    BY <1>1, <2>1, <2>2
<1>5. /\ sys' \in [Slots -> CallType(U)]
      /\ \A s \in Slots : sys'[s] = IF s = p THEN call ELSE sys[s]
  BY <1>3, <1>4 DEF Typed
<1>6. /\ task' \in [Slots -> TaskType(U)]
      /\ \A s \in Slots : /\ task'[s].state = task[s].state
                          /\ task'[s].space.regions = task[s].space.regions
  <2>1. x \in U /\ DOMAIN task = Slots /\ \A s \in Slots : task[s] \in TaskType(U)
    BY <1>3 DEF Typed
  <2>2. task' = [s \in Slots |-> IF s = sys[p].child THEN WithTable(task[s], x) ELSE task[s]]
    BY <1>1, <2>1 DEF WithTable
  <2>3. \A s \in Slots : /\ WithTable(task[s], x) \in TaskType(U)
                         /\ WithTable(task[s], x).state = task[s].state
                         /\ WithTable(task[s], x).space.regions = task[s].space.regions
    BY <2>1, TableSet
  <2>4. task' \in [Slots -> TaskType(U)]
    BY <2>1, <2>2, <2>3
  <2> QED
    BY <2>2, <2>3, <2>4
<1>7. CallsOK'
  BY <1>2, <1>4, <1>5, <1>6 DEF IInv, CallsOK
<1>8. Quiet
  BY <1>6 DEF Quiet
<1>9. (\E V : Typed(V))'
  BY <1>5, <1>6 DEF Typed
<1> QED
  BY <1>7, <1>8, <1>9, QuietKeeps DEF IInv

(* fork's end: the child gets the parent's regions and heap. *)
LEMMA CopyFromKeeps ==
  ASSUME IInv, NEW p \in Slots, CopyFrom(p),
         heap' = [heap EXCEPT ![sys[p].child] = heap[p]]
  PROVE  IInv'
<1>1. PICK c, r, y :
        /\ c = sys[p].child /\ r = task[p].space.regions /\ y = task[p].space.got
        /\ task' = [task EXCEPT ![c].state = "live", ![c].space.regions = r, ![c].space.got = y]
        /\ sys' = [sys EXCEPT ![p] = NoCall]
  BY Zenon DEF CopyFrom
<1>2. sys[p].op = "fork" /\ task[p].state = "live"
  BY DEF CopyFrom, IInv, CallsOK
<1>3. PICK U : {0, NoTable, y} \subseteq U /\ Typed(U)
  BY Widen DEF IInv
<1>4. NoCall \in CallType(U) /\ NoCall.op = "none"
  BY <1>3, NoneTyped
<1>5. /\ sys' \in [Slots -> CallType(U)]
      /\ \A s \in Slots : sys'[s] = IF s = p THEN NoCall ELSE sys[s]
  BY <1>1, <1>3, <1>4 DEF Typed
<1>6. /\ y \in U /\ DOMAIN task = Slots /\ \A s \in Slots : task[s] \in TaskType(U)
      /\ r \in Regions
  BY <1>1, <1>3 DEF Typed, TaskType, SpaceType
<1>7. task' = [s \in Slots |-> IF s = c THEN Finished(task[s], r, y) ELSE task[s]]
  <2>1. task' = [task EXCEPT ![c] = Finished(task[c], r, y)]
    BY <1>1, Zenon DEF Finished
  <2> QED
    BY <1>6, <2>1
<1>8. \A s \in Slots : /\ Finished(task[s], r, y) \in TaskType(U)
                       /\ Finished(task[s], r, y).state = "live"
                       /\ Finished(task[s], r, y).space.regions = r
  BY <1>6, FinishedSet
<1>9. task' \in [Slots -> TaskType(U)]
  BY <1>6, <1>7, <1>8
<1>10. \A s \in Slots : IF s = c THEN task'[s].state = "live" /\ task'[s].space.regions = r
                        ELSE task'[s] = task[s]
  BY <1>7, <1>8
<1>11. CallsOK'
  BY <1>4, <1>5, <1>10 DEF IInv, CallsOK
<1>12. HeapsOK'
  <2>1. DOMAIN heap' = Slots /\ \A s \in Slots : heap'[s] = IF s = c THEN heap[p] ELSE heap[s]
    BY <1>1 DEF IInv, HeapsOK
  <2>2. HeapIn(heap[p], r)
    BY <1>1, <1>2 DEF IInv, HeapsOK
  <2> QED
    BY <1>10, <2>1, <2>2 DEF IInv, HeapsOK
<1>13. (\E V : Typed(V))'
  BY <1>5, <1>9 DEF Typed
<1> QED
  BY <1>11, <1>12, <1>13 DEF IInv

\* The call of exec at its begin.
ExecCall(image, new, fr, rt, pt) ==
  [NoCall EXCEPT !.op = "exec", !.new = new,
                 !.tmp = [NoSpace EXCEPT !.frame = fr, !.root = rt, !.pte = pt],
                 !.image = image, !.k = 1]

(* exec's begin: nothing is loaded yet. *)
LEMMA SysExecKeeps ==
  ASSUME IInv, NEW p \in Slots, SysExec(p), heap' = heap
  PROVE  IInv'
<1>0. PICK image \in Images :
        \E w, fr, rt, pt : sys' = [sys EXCEPT ![p] = ExecCall(image, w, fr, rt, pt)]
  <2>1. PICK image \in Images : LET new == Alloc(Mem(NoTable))
                                    i == InitSpace(new)
                                IN  /\ InUser(p)
                                    /\ sys' = [sys EXCEPT ![p] = [NoCall EXCEPT !.op = "exec", !.new = new.got,
                                                 !.tmp = SpaceOf(i), !.image = image, !.k = 1]]
                                    /\ UNCHANGED <<task, leaked>>
    BY Zenon DEF SysExec
  <2>2. PICK new, i :
          /\ InUser(p)
          /\ sys' = [sys EXCEPT ![p] = [NoCall EXCEPT !.op = "exec", !.new = new.got,
                                          !.tmp = SpaceOf(i), !.image = image, !.k = 1]]
          /\ task' = task
    BY <2>1, Zenon
  <2>3. SpaceOf(i) = [NoSpace EXCEPT !.frame = i.frame, !.root = i.root, !.pte = i.mem.pte]
    BY Zenon DEF SpaceOf
  <2>4. sys' = [sys EXCEPT ![p] = [NoCall EXCEPT !.op = "exec", !.new = new.got,
                  !.tmp = [NoSpace EXCEPT !.frame = i.frame, !.root = i.root, !.pte = i.mem.pte],
                  !.image = image, !.k = 1]]
    BY <2>2, <2>3, Zenon
  <2>7. sys' = [sys EXCEPT ![p] = ExecCall(image, new.got, i.frame, i.root, i.mem.pte)]
    BY <2>4, Zenon DEF ExecCall
  <2>10. \E w, fr, rt, pt : sys' = [sys EXCEPT ![p] = ExecCall(image, w, fr, rt, pt)]
    BY ONLY <2>7, Zenon
  <2> QED
    BY <2>10, Zenon
<1>a. PICK new, fr, rt, pt : sys' = [sys EXCEPT ![p] = ExecCall(image, new, fr, rt, pt)]
  BY <1>0, Zenon
<1>b. task' = task /\ task[p].state = "live"
  BY Zenon DEF SysExec, InUser
<1>1. /\ image \in Images
      /\ sys' = [sys EXCEPT ![p] = ExecCall(image, new, fr, rt, pt)]
      /\ task' = task /\ task[p].state = "live"
  BY <1>a, <1>b
<1>2. PICK U : {0, NoTable, new, fr, rt, pt} \subseteq U /\ Typed(U)
  BY Widen DEF IInv
<1>3. NoSpace \in SpaceType(U) /\ NoCall \in CallType(U)
  BY <1>2, NoneTyped
<1>4. PICK sp, call : /\ sp = [NoSpace EXCEPT !.frame = fr, !.root = rt, !.pte = pt]
                      /\ call = [NoCall EXCEPT !.op = "exec", !.new = new, !.tmp = sp,
                                               !.image = image, !.k = 1]
  OBVIOUS
<1>5. sp \in SpaceType(U) /\ sp.regions = NoSpace.regions
  BY <1>2, <1>3, <1>4 DEF SpaceType
<1>6. Len(sp.regions) = 0
  BY <1>5 DEF NoSpace
<1>7. /\ call \in CallType(U) /\ call.op = "exec" /\ call.tmp = sp /\ call.image = image
      /\ call.k = 1
  BY <1>1, <1>2, <1>3, <1>4, <1>5 DEF CallType, Ops, AnyImage
<1>8. ExecSoFar(call)
  BY <1>1, <1>6, <1>7 DEF ExecSoFar
<1>9. Goes(p, call)
  BY <1>1, <1>4 DEF Goes, ExecCall
<1> QED
  BY <1>1, <1>2, <1>7, <1>8, <1>9, GoesKeeps

(* A segment loaded by exec becomes a region of the new address space. *)
LEMMA ExecLoadKeeps ==
  ASSUME IInv, NEW p \in Slots, ExecLoad(p), heap' = heap
  PROVE  IInv'
<1>1. PICK c, seg, x : /\ c = sys[p] /\ seg = c.image.segs[c.k]
                       /\ c.op = "exec" /\ c.k <= Len(c.image.segs) /\ task' = task
                       /\ sys' = [sys EXCEPT ![p].tmp.pte = x, ![p].k = @ + 1,
                                             ![p].tmp.regions = Append(@, RegionOf(seg, 0))]
  BY Zenon DEF ExecLoad
<1>2. PICK U : {x} \subseteq U /\ Typed(U)
  BY Widen DEF IInv
<1>3. PICK t, r, n : t = c.tmp /\ r = Append(t.regions, RegionOf(seg, 0)) /\ n = c.k + 1
  OBVIOUS
<1>4. /\ c \in CallType(U) /\ t \in SpaceType(U) /\ c.k \in Nat /\ n \in Nat /\ x \in U
      /\ t.regions \in Regions
  BY <1>1, <1>2, <1>3 DEF Typed, CallType, SpaceType
<1>5. ExecSoFar(c) /\ task[p].state = "live"
  BY <1>1 DEF IInv, CallsOK
<1>6. seg \in [beg : Nat, memsz : Nat, filesz : Nat] /\ c.image \in Images /\ c.k > 0
  <2>1. c.image \in Images /\ c.k > 0
    BY <1>5 DEF ExecSoFar
  <2>2. PICK segs, k : segs = c.image.segs /\ k = c.k
    OBVIOUS
  <2>3. segs \in Seq([beg : Nat, memsz : Nat, filesz : Nat])
    BY <2>1, <2>2, ImageAssumption
  <2>4. k \in 1..Len(segs) /\ seg = segs[k]
    BY <1>1, <1>4, <2>1, <2>2, <2>3
  <2>5. seg \in [beg : Nat, memsz : Nat, filesz : Nat]
    <3>1. PICK R : R = [beg : Nat, memsz : Nat, filesz : Nat]
      OBVIOUS
    <3>2. segs \in Seq(R)
      BY <2>3, <3>1
    <3>3. seg \in R
      BY ONLY <2>4, <3>2
    <3> QED
      BY <3>1, <3>3
  <2> QED
    BY <2>1, <2>5
<1>7. RegionOf(seg, 0) \in Nat \X Nat /\ RegionOf(seg, 0)[2] = seg.beg + seg.memsz
  BY <1>6 DEF RegionOf
<1>8. /\ r \in Regions /\ Len(t.regions) \in Nat /\ Len(r) = Len(t.regions) + 1
      /\ \A j \in 1..Len(t.regions) : r[j] = t.regions[j]
      /\ r[Len(t.regions) + 1] = RegionOf(seg, 0)
  BY <1>3, <1>4, <1>7 DEF Regions
<1>9. PICK u, call : u = [t EXCEPT !.pte = x, !.regions = r] /\ call = [c EXCEPT !.tmp = u, !.k = n]
  OBVIOUS
<1>10. u \in SpaceType(U) /\ u.regions = r
  BY <1>4, <1>8, <1>9 DEF SpaceType
<1>11. /\ call \in CallType(U) /\ call.op = "exec" /\ call.tmp = u /\ call.k = n
       /\ call.image = c.image
  BY <1>1, <1>4, <1>9, <1>10 DEF CallType
<1>12. ExecSoFar(call)
  <2>1. /\ c.k > 0 /\ Len(t.regions) = c.k - 1
        /\ \A j \in 1..(c.k - 1) : t.regions[j][2] = c.image.segs[j].beg + c.image.segs[j].memsz
    BY <1>3, <1>5 DEF ExecSoFar
  <2>2. n > 0 /\ Len(r) = n - 1
    BY <1>3, <1>4, <1>8, <2>1
  <2>3. ASSUME NEW j \in 1..(n - 1)
        PROVE  r[j][2] = c.image.segs[j].beg + c.image.segs[j].memsz
    <3>1. CASE j = c.k
      <4>1. Len(t.regions) + 1 = c.k
        BY <1>4, <2>1
      <4> QED
        BY <1>1, <1>7, <1>8, <3>1, <4>1
    <3>2. CASE j # c.k
      <4>1. j \in 1..(c.k - 1) /\ j \in 1..Len(t.regions)
        BY <1>3, <1>4, <2>1, <3>2
      <4> QED
        BY <1>8, <2>1, <4>1
    <3> QED
      BY <3>1, <3>2
  <2> QED
    BY <1>6, <1>10, <1>11, <2>2, <2>3 DEF ExecSoFar
<1>13. Goes(p, call)
  <2>1. DOMAIN sys = Slots
    BY <1>2 DEF Typed
  <2>2. [sys EXCEPT ![p].tmp.pte = x, ![p].k = @ + 1, ![p].tmp.regions = Append(@, RegionOf(seg, 0))]
          = [sys EXCEPT ![p] = [c EXCEPT !.tmp.pte = x, !.k = @ + 1,
                                         !.tmp.regions = Append(@, RegionOf(seg, 0))]]
    BY <1>1, <2>1
  <2>3. [c EXCEPT !.tmp.pte = x, !.k = @ + 1, !.tmp.regions = Append(@, RegionOf(seg, 0))] = call
    BY <1>3, <1>4, <1>9 DEF CallType, SpaceType
  <2> QED
    BY <1>1, <2>2, <2>3 DEF Goes
<1> QED
  BY <1>1, <1>2, <1>5, <1>11, <1>12, <1>13, GoesKeeps

(* A failed exec leaves the process as it was. *)
LEMMA ExecFailsKeeps ==
  ASSUME IInv, NEW p \in Slots, ExecFails(p), heap' = heap
  PROVE  IInv'
<1>1. sys' = [sys EXCEPT ![p] = NoCall] /\ task' = task
  BY Zenon DEF ExecFails
<1>2. PICK U : {0, NoTable} \subseteq U /\ Typed(U)
  BY Widen DEF IInv
<1>3. NoCall \in CallType(U) /\ NoCall.op = "none"
  BY <1>2, NoneTyped
<1>4. Goes(p, NoCall)
  BY <1>1 DEF Goes
<1> QED
  BY <1>1, <1>2, <1>3, <1>4, GoesKeeps

(* So does a dlopen that has come to its end. *)
LEMMA DlopenReturnsKeeps ==
  ASSUME IInv, NEW p \in Slots, DlopenReturns(p), heap' = heap
  PROVE  IInv'
<1>1. sys' = [sys EXCEPT ![p] = NoCall] /\ task' = task
  BY Zenon DEF DlopenReturns
<1>2. PICK U : {0, NoTable} \subseteq U /\ Typed(U)
  BY Widen DEF IInv
<1>3. NoCall \in CallType(U) /\ NoCall.op = "none"
  BY <1>2, NoneTyped
<1>4. Goes(p, NoCall)
  BY <1>1 DEF Goes
<1> QED
  BY <1>1, <1>2, <1>3, <1>4, GoesKeeps

(* dlopen's begin: the library will be loaded above all regions. *)
LEMMA SysDlopenKeeps ==
  ASSUME IInv, NEW p \in Slots, SysDlopen(p), heap' = heap
  PROVE  IInv'
<1>1. PICK image \in Libraries :
        /\ InUser(p) /\ task' = task
        /\ sys' = [sys EXCEPT ![p] = [NoCall EXCEPT !.op = "dlopen", !.image = image, !.k = 1,
                                        !.offset = AddrCastUp(MaxMemAddr(task[p].space))]]
  BY Zenon DEF SysDlopen
<1>2. PICK U : {0, NoTable} \subseteq U /\ Typed(U)
  BY Widen DEF IInv
<1>3. NoCall \in CallType(U) /\ NoCall.op = "none"
  BY <1>2, NoneTyped
<1>4. PICK off, regions : /\ off = AddrCastUp(MaxMemAddr(task[p].space))
                          /\ regions = task[p].space.regions
  OBVIOUS
<1>5. regions \in Regions /\ task[p].state = "live"
  BY <1>1, <1>2, <1>4 DEF Typed, TaskType, SpaceType, InUser
<1>6. off \in Nat
  BY <1>4, <1>5, GivenAddress
<1>7. PICK call : call = [NoCall EXCEPT !.op = "dlopen", !.image = image, !.k = 1, !.offset = off]
  OBVIOUS
<1>8. call \in CallType(U) /\ call.op = "dlopen" /\ call.k = 1
  BY <1>3, <1>6, <1>7 DEF CallType, Ops, AnyImage
<1>9. Goes(p, call)
  BY <1>1, <1>4, <1>7, Zenon DEF Goes
<1> QED
  BY <1>1, <1>2, <1>5, <1>8, <1>9, GoesKeeps

(* A process that exits takes its heap out of the account. *)
LEMMA ExitKeeps ==
  ASSUME IInv, NEW p \in Slots, Exit(p), heap' = heap
  PROVE  IInv'
<1>1. /\ task' = [task EXCEPT ![p].state = "zombie"] /\ sys' = sys
      /\ sys[p].op = "none"
  BY DEF Exit, InUser
<1>2. PICK U : Typed(U)
  BY DEF IInv
<1>3. PICK t : t = [task[p] EXCEPT !.state = "zombie"]
  OBVIOUS
<1>4. t \in TaskType(U) /\ t.state = "zombie"
  BY <1>2, <1>3 DEF Typed, TaskType, States
<1>5. /\ task' \in [Slots -> TaskType(U)]
      /\ \A s \in Slots : task'[s] = IF s = p THEN t ELSE task[s]
  BY <1>1, <1>2, <1>3, <1>4 DEF Typed
<1>6. CallsOK'
  BY <1>1, <1>5 DEF IInv, CallsOK
<1>7. Quiet
  BY <1>4, <1>5 DEF Quiet
<1>8. (\E V : Typed(V))'
  BY <1>1, <1>2, <1>5 DEF Typed
<1> QED
  BY <1>6, <1>7, <1>8, QuietKeeps DEF IInv

(* wait gives the slot of a zombie back. *)
LEMMA ResetProcessKeeps ==
  ASSUME IInv, NEW p \in Slots, ResetProcess(p), heap' = [heap EXCEPT ![p] = EmptyHeap]
  PROVE  IInv'
<1>1. /\ task' = [task EXCEPT ![p] = UnusedTask] /\ sys' = sys
      /\ task[p].state = "zombie"
  BY DEF ResetProcess
<1>2. PICK U : {0, NoTable} \subseteq U /\ Typed(U)
  BY Widen DEF IInv
<1>3. UnusedTask \in TaskType(U) /\ UnusedTask.state = "unused"
  BY <1>2, NoneTyped
<1>4. /\ task' \in [Slots -> TaskType(U)]
      /\ \A s \in Slots : task'[s] = IF s = p THEN UnusedTask ELSE task[s]
  BY <1>1, <1>2, <1>3 DEF Typed
<1>5. CallsOK'
  BY <1>1, <1>4 DEF IInv, CallsOK
<1>6. HeapsOK'
  <2>1. DOMAIN heap' = Slots /\ \A s \in Slots : s # p => heap'[s] = heap[s]
    BY DEF IInv, HeapsOK
  <2> QED
    BY <1>3, <1>4, <2>1 DEF IInv, HeapsOK
<1>7. (\E V : Typed(V))'
  BY <1>1, <1>2, <1>4 DEF Typed
<1> QED
  BY <1>5, <1>6, <1>7 DEF IInv

(* The segments of an image are ranges of addresses. *)
LEMMA SegmentTyped ==
  ASSUME NEW image \in AnyImage, NEW k \in Nat, k > 0, k <= Len(image.segs),
         NEW seg, seg = image.segs[k]
  PROVE  seg.beg \in Nat /\ seg.memsz \in Nat /\ k \in 1..Len(image.segs)
<1>1. PICK segs, R : segs = image.segs /\ R = [beg : Nat, memsz : Nat, filesz : Nat]
  OBVIOUS
<1>2. segs \in Seq(R)
  BY <1>1, ImageAssumption DEF AnyImage
<1>3. k \in 1..Len(segs) /\ seg = segs[k]
  BY <1>1, <1>2
<1>4. seg \in R
  BY ONLY <1>2, <1>3
<1> QED
  BY <1>1, <1>3, <1>4

(* dlopen adds a region for a segment of the library. *)
LEMMA DlopenLoadKeeps ==
  ASSUME IInv, NEW p \in Slots, DlopenLoad(p), heap' = heap
  PROVE  IInv'
<1>1. PICK c, seg, x : /\ c = sys[p] /\ seg = c.image.segs[c.k]
                       /\ c.op = "dlopen" /\ c.k <= Len(c.image.segs)
                       /\ task' = [task EXCEPT ![p].space.pte = x,
                            ![p].space.regions = Append(@, RegionOf(seg, c.offset))]
                       /\ sys' = [sys EXCEPT ![p].k = @ + 1]
  BY Zenon DEF DlopenLoad
<1>2. (\E U : Typed(U)) /\ task[p].state = "live" /\ c.k > 0
  BY <1>1 DEF IInv, CallsOK
<1>3. PICK V : Typed(V)
  BY <1>2
<1>4. /\ c.image \in AnyImage /\ c.k \in Nat /\ c.offset \in Nat
      /\ task[p].space.regions \in Regions
  BY <1>1, <1>3 DEF Typed, CallType, TaskType, SpaceType
<1>5. seg.beg \in Nat /\ seg.memsz \in Nat
  BY <1>1, <1>2, <1>4, SegmentTyped
<1>6. PICK regions, a, r : /\ regions = task[p].space.regions
                           /\ a = RegionOf(seg, c.offset) /\ r = Append(regions, a)
  OBVIOUS
<1>7. a \in Nat \X Nat /\ regions \in Regions
  BY <1>4, <1>5, <1>6 DEF RegionOf
<1>8. /\ r \in Regions /\ RegionCells(regions) \subseteq RegionCells(r)
      /\ Begun(regions) => Begun(r)
  BY <1>6, <1>7, RegionAdded
<1>9. NewTable(p, x, r)
  BY <1>1, <1>3, <1>6 DEF NewTable, Typed, TaskType, SpaceType
<1>10. /\ \E U : Typed(U) /\ task' \in [Slots -> TaskType(U)]
       /\ \A s \in Slots : /\ task'[s].state = task[s].state
                           /\ task'[s].space.regions
                                = IF s = p THEN r ELSE task[s].space.regions
  BY <1>8, <1>9, TaskKeeps
<1>11. PICK U : Typed(U) /\ task' \in [Slots -> TaskType(U)]
  BY <1>10
<1>12. PICK n, call : n = c.k + 1 /\ call = [c EXCEPT !.k = n]
  OBVIOUS
<1>13. c \in CallType(U) /\ n \in Nat /\ n > 0
  BY <1>1, <1>4, <1>11, <1>12 DEF Typed
<1>14. call \in CallType(U) /\ call.op = "dlopen" /\ call.k = n
  BY <1>1, <1>12, <1>13 DEF CallType
<1>15. /\ sys' \in [Slots -> CallType(U)]
       /\ \A s \in Slots : sys'[s] = IF s = p THEN call ELSE sys[s]
  <2>1. sys' = [sys EXCEPT ![p] = call]
    BY <1>1, <1>12, <1>13
  <2> QED
    BY <1>11, <1>14, <2>1 DEF Typed
<1>16. CallsOK'
  BY <1>2, <1>10, <1>13, <1>14, <1>15 DEF IInv, CallsOK
<1>17. Quiet
  BY <1>6, <1>8, <1>10 DEF Quiet
<1>18. (\E W : Typed(W))'
  BY <1>11, <1>15 DEF Typed
<1> QED
  BY <1>16, <1>17, <1>18, QuietKeeps DEF IInv

(* exec's end: the new program has its segments and no heap. *)
LEMMA ExecReturnsKeeps ==
  ASSUME IInv, NEW p \in Slots, ExecReturns(p), heap' = [heap EXCEPT ![p] = EmptyHeap]
  PROVE  IInv'
<1>1. PICK c, y : /\ c = sys[p] /\ y = c.image.got /\ c.op = "exec"
                  /\ ~Rejected(c, "exec") /\ c.k > Len(c.image.segs)
                  /\ task' = [task EXCEPT ![p].space = [c.tmp EXCEPT !.got = y]]
                  /\ sys' = [sys EXCEPT ![p] = NoCall]
  BY Zenon DEF ExecReturns
<1>2. task[p].state = "live" /\ ExecSoFar(c)
  BY <1>1 DEF IInv, CallsOK
<1>3. PICK U : {0, NoTable, y} \subseteq U /\ Typed(U)
  BY Widen DEF IInv
<1>4. NoCall \in CallType(U) /\ NoCall.op = "none"
  BY <1>3, NoneTyped
<1>5. /\ sys' \in [Slots -> CallType(U)]
      /\ \A s \in Slots : sys'[s] = IF s = p THEN NoCall ELSE sys[s]
  BY <1>1, <1>3, <1>4 DEF Typed
<1>6. PICK z, t : z = [c.tmp EXCEPT !.got = y] /\ t = [task[p] EXCEPT !.space = z]
  OBVIOUS
<1>7. c.tmp \in SpaceType(U) /\ c.k \in Nat /\ y \in U /\ task[p] \in TaskType(U)
  BY <1>1, <1>3 DEF Typed, CallType
<1>8. z \in SpaceType(U) /\ z.regions = c.tmp.regions
  BY <1>6, <1>7 DEF SpaceType
<1>9. t \in TaskType(U) /\ t.state = "live" /\ t.space = z
  BY <1>2, <1>6, <1>7, <1>8 DEF TaskType
<1>10. /\ task' \in [Slots -> TaskType(U)]
       /\ \A s \in Slots : task'[s] = IF s = p THEN t ELSE task[s]
  <2>1. task' = [task EXCEPT ![p] = t]
    BY <1>1, <1>3, <1>6 DEF Typed
  <2> QED
    BY <1>3, <1>9, <2>1 DEF Typed
<1>11. Begun(z.regions)
  <2>1. c.image \in Images /\ c.image.type = "exec"
    BY <1>1, <1>2 DEF ExecSoFar, Rejected
  <2>2. PICK i \in 1..Len(c.image.segs) : c.image.segs[i].beg + c.image.segs[i].memsz > 0
    BY <2>1, HeapAssumption
  <2>3. Len(c.image.segs) \in Nat
    BY <2>1, ImageAssumption
  <2>4. i \in 1..(c.k - 1)
    BY <1>1, <1>7, <2>3
  <2> QED
    BY <1>2, <1>8, <2>2, <2>4 DEF ExecSoFar, Begun
<1>12. HeapIn(EmptyHeap, z.regions)
  BY <1>11, EmptyIn
<1>13. HeapsOK'
  <2>1. DOMAIN heap' = Slots /\ \A s \in Slots : heap'[s] = IF s = p THEN EmptyHeap ELSE heap[s]
    BY DEF IInv, HeapsOK
  <2> QED
    BY <1>9, <1>10, <1>12, <2>1 DEF IInv, HeapsOK
<1>14. CallsOK'
  BY <1>4, <1>5, <1>10 DEF IInv, CallsOK
<1>15. (\E W : Typed(W))'
  BY <1>5, <1>10 DEF Typed
<1> QED
  BY <1>13, <1>14, <1>15 DEF IInv

\* The first process when start has loaded its program.
BootSpace(fr, rt, pt, y, r) ==
  [frame |-> fr, root |-> rt, pte |-> pt, regions |-> r, got |-> y]
BootTask(kp, sp) == [state |-> "live", kernel_sp |-> kp, space |-> sp]

InitRegions == [j \in 1..Len(InitImage.segs) |-> RegionOf(InitImage.segs[j], 0)]

(* It lives in the regions of its segments. *)
LEMMA BootIs ==
  \E kp, fr, rt, pt : Boot.task = BootTask(kp, BootSpace(fr, rt, pt, InitImage.got, InitRegions))
<1>1. PICK m, kp, i, x :
        Boot = [mem |-> m,
                task |-> [state |-> "live", kernel_sp |-> kp,
                   space |-> [SpaceOf(i) EXCEPT !.pte = x, !.got = InitImage.got,
                                                !.regions = InitRegions]]]
  BY Zenon DEF Boot, InitRegions
<1>2. SpaceOf(i) = [NoSpace EXCEPT !.frame = i.frame, !.root = i.root, !.pte = i.mem.pte]
  BY Zenon DEF SpaceOf
<1>3. PICK t, a, b, e, y, r, sp, new :
        /\ t = NoTable /\ a = i.frame /\ b = i.root /\ e = i.mem.pte
        /\ y = InitImage.got /\ r = InitRegions /\ sp = SpaceOf(i)
        /\ new = [sp EXCEPT !.pte = x, !.got = y, !.regions = r]
  OBVIOUS
<1>4. sp = [frame |-> a, root |-> b, pte |-> e, regions |-> <<>>, got |-> 0]
  BY <1>2, <1>3 DEF NoSpace
<1>5. new = BootSpace(a, b, x, y, r)
  <2>1. new = [sp EXCEPT !.pte = x, !.got = y, !.regions = r]
    BY <1>3
  <2> QED
    BY ONLY <1>4, <2>1 DEF BootSpace
<1>6. Boot.task = BootTask(kp, new)
  <2>1. Boot = [mem |-> m, task |-> BootTask(kp, new)]
    BY <1>1, <1>3, Zenon DEF BootTask
  <2> QED
    BY <2>1
<1> QED
  BY <1>3, <1>5, <1>6

(* The first process has its segments and no heap. *)
LEMMA InitHolds ==
  ASSUME Init
  PROVE  IInv
<1>1. /\ task = [s \in Slots |-> IF s = Min(Slots) THEN Boot.task ELSE UnusedTask]
      /\ sys = [s \in Slots |-> NoCall]
      /\ heap = [s \in Slots |-> EmptyHeap]
  BY DEF Init, SpaceInit
<1>2. PICK kp, fr, rt, pt :
        Boot.task = BootTask(kp, BootSpace(fr, rt, pt, InitImage.got, InitRegions))
  BY BootIs
<1>3. PICK U : U = {0, NoTable, kp, fr, rt, pt, InitImage.got}
  OBVIOUS
<1>4. /\ NoCall \in CallType(U) /\ NoCall.op = "none"
      /\ UnusedTask \in TaskType(U) /\ UnusedTask.state = "unused"
  BY <1>3, NoneTyped
<1>5. /\ InitRegions \in Regions /\ Begun(InitRegions)
  <2>1. PICK n, image : image = InitImage /\ n = Len(image.segs)
    OBVIOUS
  <2>2. image \in AnyImage
    BY <2>1 DEF AnyImage
  <2>3. n \in Nat
    BY <2>1, ImageAssumption
  <2>4. \A j \in 1..n : image.segs[j].beg \in Nat /\ image.segs[j].memsz \in Nat
    BY <2>1, <2>2, <2>3, SegmentTyped
  <2>5. \A j \in 1..n : /\ RegionOf(image.segs[j], 0) \in Nat \X Nat
                        /\ RegionOf(image.segs[j], 0)[2] = image.segs[j].beg + image.segs[j].memsz
    BY <2>4 DEF RegionOf
  <2>6. InitRegions = [j \in 1..n |-> RegionOf(image.segs[j], 0)]
    BY <2>1 DEF InitRegions
  <2>7. InitRegions \in [1..n -> Nat \X Nat]
    BY <2>5, <2>6
  <2>8. InitRegions \in Seq(Nat \X Nat) /\ Len(InitRegions) = n
    BY <2>3, <2>7
  <2>9. \E i \in 1..n : image.segs[i].beg + image.segs[i].memsz > 0
    BY <2>1, HeapAssumption
  <2>10. Begun(InitRegions)
    BY <2>5, <2>6, <2>8, <2>9 DEF Begun
  <2> QED
    BY <2>8, <2>10 DEF Regions
<1>6. PICK sp, t : /\ sp = BootSpace(fr, rt, pt, InitImage.got, InitRegions)
                   /\ t = BootTask(kp, sp)
  OBVIOUS
<1>7. sp \in SpaceType(U) /\ sp.regions = InitRegions
  BY <1>3, <1>5, <1>6 DEF SpaceType, BootSpace
<1>8. t \in TaskType(U) /\ t.state = "live" /\ t.space.regions = InitRegions
  BY <1>3, <1>6, <1>7 DEF TaskType, BootTask, States
<1>9. \A s \in Slots : task[s] = t \/ task[s] = UnusedTask
  BY <1>1, <1>2, <1>6
<1>10. Typed(U)
  BY <1>1, <1>4, <1>8, <1>9 DEF Typed
<1>11. CallsOK
  BY <1>1, <1>4 DEF CallsOK
<1>12. HeapsOK
  <2>1. HeapIn(EmptyHeap, InitRegions)
    BY <1>5, EmptyIn
  <2> QED
    BY <1>1, <1>4, <1>8, <1>9, <2>1 DEF HeapsOK
<1> QED
  BY <1>10, <1>11, <1>12 DEF IInv

(* Every step keeps the invariant. *)
LEMMA StepKeeps ==
  ASSUME IInv, [Next]_allVars
  PROVE  IInv'
<1>1. CASE UNCHANGED allVars
  <2>1. task' = task /\ sys' = sys /\ heap' = heap
    BY <1>1 DEF allVars, vars
  <2> QED
    BY <2>1, UserKeeps DEF IInv, HeapsOK
<1>2. CASE Next
  <2> SUFFICES ASSUME NEW p \in Slots,
                 \/ \E units \in Sizes : Malloc(p, units) \/ MallocGrows(p, units)
                 \/ Free(p)
                 \/ Store(p)
                 \/ SysFork(p) /\ heap' = heap
                 \/ CopyMemory(p) /\ heap' = heap
                 \/ CopyFrom(p) /\ heap' = [heap EXCEPT ![sys[p].child] = heap[p]]
                 \/ SysExec(p) /\ heap' = heap
                 \/ ExecLoad(p) /\ heap' = heap
                 \/ ExecFails(p) /\ heap' = heap
                 \/ ExecReturns(p) /\ heap' = [heap EXCEPT ![p] = EmptyHeap]
                 \/ SysDlopen(p) /\ heap' = heap
                 \/ DlopenLoad(p) /\ heap' = heap
                 \/ DlopenReturns(p) /\ heap' = heap
                 \/ Exit(p) /\ heap' = heap
                 \/ ResetProcess(p) /\ heap' = [heap EXCEPT ![p] = EmptyHeap]
               PROVE  IInv'
    BY <1>2, Zenon DEF Next, HeapStays
  <2>1. ASSUME NEW units \in Sizes, Malloc(p, units) \/ MallocGrows(p, units) PROVE IInv'
    BY <2>1, MallocKeeps, MallocGrowsKeeps
  <2>2. CASE Free(p) \/ Store(p)
    BY <2>2, FreeKeeps, StoreKeeps
  <2>3. CASE SysFork(p) /\ heap' = heap
    BY <2>3, SysForkKeeps
  <2>4. CASE CopyMemory(p) /\ heap' = heap
    BY <2>4, CopyMemoryKeeps
  <2>5. CASE CopyFrom(p) /\ heap' = [heap EXCEPT ![sys[p].child] = heap[p]]
    BY <2>5, CopyFromKeeps, Zenon
  <2>6. CASE SysExec(p) /\ heap' = heap
    BY <2>6, SysExecKeeps
  <2>7. CASE ExecLoad(p) /\ heap' = heap
    BY <2>7, ExecLoadKeeps
  <2>8. CASE ExecFails(p) /\ heap' = heap
    BY <2>8, ExecFailsKeeps
  <2>9. CASE ExecReturns(p) /\ heap' = [heap EXCEPT ![p] = EmptyHeap]
    BY <2>9, ExecReturnsKeeps, Zenon
  <2>10. CASE SysDlopen(p) /\ heap' = heap
    BY <2>10, SysDlopenKeeps
  <2>11. CASE DlopenLoad(p) /\ heap' = heap
    BY <2>11, DlopenLoadKeeps
  <2>12. CASE DlopenReturns(p) /\ heap' = heap
    BY <2>12, DlopenReturnsKeeps
  <2>13. CASE Exit(p) /\ heap' = heap
    BY <2>13, ExitKeeps
  <2>14. CASE ResetProcess(p) /\ heap' = [heap EXCEPT ![p] = EmptyHeap]
    BY <2>14, ResetProcessKeeps, Zenon
  <2> QED
    BY <2>1, <2>2, <2>3, <2>4, <2>5, <2>6, <2>7, <2>8, <2>9, <2>10, <2>11, <2>12, <2>13, <2>14
<1> QED
  BY <1>1, <1>2
-----------------------------------------------------------------------------
(* What the invariant says of one heap *)

(* The circle is in address order. *)
LEMMA RingOrder ==
  ASSUME NEW D, NEW next, Ring(D, next), NEW a \in D, NEW above, above = {b \in D : b > a}
  PROVE  next[a] = IF above = {} THEN Base ELSE Min(above)
<1>1. /\ D \in SUBSET Nat /\ next[a] \in D /\ Follows(D, a, next[a])
      /\ above \in SUBSET Nat
  BY DEF Ring
<1>2. PICK n : n = next[a]
  OBVIOUS
<1>3. CASE n = Base
  BY <1>1, <1>2, <1>3 DEF Follows
<1>4. CASE n # Base
  <2>1. n \in above /\ \A d \in above : n <= d
    BY <1>1, <1>2, <1>4 DEF Follows
  <2>2. PICK m : m = Min(above)
    OBVIOUS
  <2>3. m \in above /\ \A d \in above : m <= d
    BY <1>1, <2>1, <2>2, MinIs
  <2>4. m = n
    BY <1>1, <2>1, <2>3
  <2> QED
    BY <1>2, <2>1, <2>2, <2>4
<1> QED
  BY <1>3, <1>4

(* No free block ends where another begins. *)
LEMMA NoTouch ==
  ASSUME NEW D, NEW size, NEW used, Blocks(D, size, used), D \in SUBSET Nat, NEW a \in D
  PROVE  a + size[a] \notin D
<1>1. a \in Nat /\ size[a] \in Nat /\ size[a] > 0
  BY DEF Blocks
<1>2. a + size[a] \in D => a < a + size[a]
  BY <1>1
<1>3. a + size[a] \in D => a + size[a] < a + size[a]
  BY <1>2 DEF Blocks
<1> QED
  BY <1>1, <1>3

(* Blocks that are apart share no address. *)
LEMMA ApartCells ==
  ASSUME NEW b, NEW c, b[1] \in Nat, b[2] \in Nat, c[1] \in Nat, c[2] \in Nat, Apart(b, c)
  PROVE  BlockCells(b) \cap BlockCells(c) = {}
BY DEF Apart, BlockCells

(* Two blocks of a heap do not overlap. *)
LEMMA BlocksApart ==
  ASSUME NEW D, NEW h, Holding(h, D, h.used),
         NEW b \in HeapBlocks(h), NEW c \in HeapBlocks(h), b # c
  PROVE  BlockCells(b) \cap BlockCells(c) = {}
<1>0. /\ DOMAIN h.next = D /\ Blocks(D, h.size, h.used)
      /\ \A a \in D : a \in Nat /\ h.size[a] \in Nat
      /\ \A u \in h.used : u[1] \in Nat /\ u[2] \in Nat
  BY BlockNumbers DEF Holding, HeapType, Ring
<1>1. \A x \in HeapBlocks(h) : x \in h.used \/ \E a \in D : x = <<a, h.size[a]>>
  BY <1>0 DEF HeapBlocks
<1>2. \A x \in HeapBlocks(h) : x[1] \in Nat /\ x[2] \in Nat
  BY <1>0, <1>1
<1>3. \A u, v \in h.used : u # v => Apart(u, v)
  BY <1>0 DEF Blocks, Room
<1>4. \A u \in h.used : \A a \in D : Apart(<<a, h.size[a]>>, u)
  BY <1>0 DEF Blocks, Room, Apart
<1>5. \A a, e \in D : a # e => Apart(<<a, h.size[a]>>, <<e, h.size[e]>>)
  <2> SUFFICES ASSUME NEW a \in D, NEW e \in D, a # e
               PROVE  Apart(<<a, h.size[a]>>, <<e, h.size[e]>>)
    OBVIOUS
  <2>1. a < e => a + h.size[a] < e
    BY <1>0 DEF Blocks
  <2>2. e < a => e + h.size[e] < a
    BY <1>0 DEF Blocks
  <2> QED
    BY <1>0, <2>1, <2>2 DEF Apart
<1>6. \A x, y : Apart(x, y) <=> Apart(y, x)
  BY DEF Apart
<1>7. Apart(b, c)
  <2>1. CASE b \in h.used /\ c \in h.used
    BY <1>3, <2>1
  <2>2. CASE b \in h.used /\ c \notin h.used
    BY <1>1, <1>4, <1>6, <2>2
  <2>3. CASE b \notin h.used /\ c \in h.used
    BY <1>1, <1>4, <2>3
  <2>4. CASE b \notin h.used /\ c \notin h.used
    BY <1>1, <1>5, <2>4
  <2> QED
    BY <2>1, <2>2, <2>3, <2>4
<1> QED
  BY <1>2, <1>7, ApartCells

(* The invariant implies the property the runs check. *)
LEMMA SoundIf ==
  ASSUME IInv
  PROVE  HeapSound
<1> SUFFICES ASSUME NEW p \in Slots, task[p].state = "live", NEW h, h = heap[p]
             PROVE  /\ \A a \in DOMAIN h.next :
                         LET above == {b \in DOMAIN h.next : b > a} IN
                         h.next[a] = IF above = {} THEN Base ELSE Min(above)
                    /\ \A a \in DOMAIN h.next \ {Base} : a + h.size[a] \notin DOMAIN h.next
                    /\ \A b, c \in HeapBlocks(h) : b # c => BlockCells(b) \cap BlockCells(c) = {}
                    /\ Cardinality(UNION {BlockCells(b) : b \in HeapBlocks(h)}) = h.brk
                    /\ UNION {BlockCells(b) : b \in HeapBlocks(h)} \subseteq Cells(task[p].space)
  BY Zenon DEF HeapSound
<1>1. HeapIn(h, task[p].space.regions)
  BY DEF IInv, HeapsOK
<1>2. PICK D : Holding(h, D, h.used)
  BY <1>1 DEF HeapIn, HeapOK
<1>3. DOMAIN h.next = D /\ Ring(D, h.next) /\ Blocks(D, h.size, h.used) /\ D \in SUBSET Nat
  BY <1>2 DEF Holding, Ring
<1>4. \A a \in DOMAIN h.next :
        LET above == {b \in DOMAIN h.next : b > a} IN
        h.next[a] = IF above = {} THEN Base ELSE Min(above)
  <2> SUFFICES ASSUME NEW a \in D, NEW above, above = {b \in D : b > a}
               PROVE  h.next[a] = IF above = {} THEN Base ELSE Min(above)
    BY <1>3, Zenon
  <2> QED
    BY <1>3, RingOrder
<1>5. \A a \in DOMAIN h.next \ {Base} : a + h.size[a] \notin DOMAIN h.next
  BY <1>3, NoTouch
<1>6. \A b, c \in HeapBlocks(h) : b # c => BlockCells(b) \cap BlockCells(c) = {}
  BY <1>2, BlocksApart
<1>7. Cardinality(UNION {BlockCells(b) : b \in HeapBlocks(h)}) = h.brk
  BY <1>1 DEF HeapIn, HeapCells
<1>8. UNION {BlockCells(b) : b \in HeapBlocks(h)} \subseteq Cells(task[p].space)
  <2>1. HeapCells(h) \subseteq RegionCells(task[p].space.regions)
    BY <1>1 DEF HeapIn
  <2>2. RegionCells(task[p].space.regions) \subseteq Cells(task[p].space)
    BY Zenon DEF RegionCells, Cells
  <2> QED
    BY <2>1, <2>2 DEF HeapCells
<1> QED
  BY <1>4, <1>5, <1>6, <1>7, <1>8, Zenon

\* malloc, free and GrowHeader (lib/memory.cc:24-114) with sbrk, fork, exec,
\* dlopen, exit and wait around them: in every reachable state, for every
\* number of processes, set of sizes, page size and set of programs, each
\* live process has one free list in address order without unmerged
\* neighbours, and its free and used blocks do not overlap, add up to what
\* sbrk has given and lie in regions the kernel knows.
THEOREM HeapCorrect == Spec => []HeapSound
<1>1. Init => IInv
  BY InitHolds
<1>2. IInv /\ [Next]_allVars => IInv'
  BY StepKeeps
<1>3. IInv => HeapSound
  BY SoundIf
<1> QED
  BY <1>1, <1>2, <1>3, PTL DEF Spec

=============================================================================
