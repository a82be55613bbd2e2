------------------------------ MODULE RingFacts ------------------------------
(***************************************************************************)
(* Facts about numbers and rings that the proofs about drivers share: the  *)
(* remainder behind every index that wraps, least elements, and windows of *)
(* a ring whose free running indices lo and hi are taken modulo its size.  *)
(***************************************************************************)
EXTENDS Integers, FiniteSets, FiniteSetTheorems, WellFoundedInduction, TLAPS

\* What the ring of size n holds from index lo up to hi, hi excluded.
Window(ring, lo, hi, n) == {ring[i % n] : i \in lo..(hi - 1)}

\* No element is in that part of the ring twice.
Distinct(ring, lo, hi, n) ==
  \A i, j \in lo..(hi - 1) : ring[i % n] = ring[j % n] => i = j

\* A ring of descriptors in which x can be written behind the window.
HasRoom(ring, lo, hi, n, x) ==
  /\ n \in Nat \ {0}
  /\ ring \in [0..(n - 1) -> 0..(n - 1)]
  /\ lo \in Nat /\ hi \in Nat /\ lo <= hi /\ hi - lo < n
  /\ Distinct(ring, lo, hi, n)
  /\ x \in (0..(n - 1)) \ Window(ring, lo, hi, n)

Written(new, ring, hi, n, x) == new = [ring EXCEPT ![hi % n] = x]

-----------------------------------------------------------------------------
(* Quotient and remainder, for every divisor. *)
LEMMA DivMod ==
  ASSUME NEW a \in Int, NEW n \in Nat \ {0}
  PROVE  /\ a \div n \in Int
         /\ a % n \in 0..(n - 1)
         /\ a = n * (a \div n) + (a % n)
OBVIOUS

(* The remainder of a ring index is a place of the ring. *)
LEMMA ModRange ==
  ASSUME NEW a \in Int, NEW n \in Nat \ {0}
  PROVE  a % n \in 0..(n - 1)
BY DivMod

(* An index that has not wrapped is its own remainder. *)
LEMMA ModSmall ==
  ASSUME NEW n \in Nat \ {0}, NEW a \in 0..(n - 1)
  PROVE  a % n = a
OBVIOUS

(* An index that has wrapped once. *)
LEMMA ModWrap ==
  ASSUME NEW n \in Nat \ {0}, NEW a \in n..(2 * n - 1)
  PROVE  a % n = a - n
OBVIOUS

(* The only multiple of n in between -n and n is 0. *)
LEMMA Multiple ==
  ASSUME NEW n \in Nat \ {0}, NEW q \in Int, NEW d \in Int, d = n * q, -n < d, d < n
  PROVE  d = 0
<1>1. q >= 1 => n * q >= n
  OBVIOUS
<1>2. q <= -1 => n * q <= -n
  OBVIOUS
<1> QED
  BY <1>1, <1>2

(* The remainder is determined by its range. *)
LEMMA ModUnique ==
  ASSUME NEW n \in Nat \ {0}, NEW a \in Int, NEW q \in Int, NEW r \in 0..(n - 1),
         a = n * q + r
  PROVE  a % n = r
<1> DEFINE p == a \div n
<1>1. p \in Int /\ a % n \in 0..(n - 1) /\ a = n * p + (a % n)
  BY DivMod
<1>2. (a % n) - r = n * (q - p)
  BY <1>1
<1>3. (a % n) - r = 0
  BY <1>1, <1>2, Multiple
<1> QED
  BY <1>1, <1>3

(* A multiple of the ring's size does not move an index. *)
LEMMA ModMultiple ==
  ASSUME NEW n \in Nat \ {0}, NEW k \in Int, NEW a \in Int
  PROVE  (a + n * k) % n = a % n
<1> DEFINE p == a \div n
<1>1. p \in Int /\ a % n \in 0..(n - 1) /\ a = n * p + (a % n)
  BY DivMod
<1>2. a + n * k = n * (p + k) + (a % n)
  BY <1>1
<1>3. a + n * k \in Int /\ p + k \in Int
  BY <1>1
<1> HIDE DEF p
<1> QED
  BY ONLY <1>1, <1>2, <1>3, ModUnique, n \in Nat \ {0}, Zenon

(* Two indices less than a ring apart have different places. *)
LEMMA ModDistinct ==
  ASSUME NEW n \in Nat \ {0}, NEW i \in Int, NEW j \in Int, i < j, j - i < n
  PROVE  i % n # j % n
<1> SUFFICES ASSUME i % n = j % n PROVE FALSE
  OBVIOUS
<1>1. i \div n \in Int /\ i = n * (i \div n) + (i % n)
  BY DivMod
<1>2. j \div n \in Int /\ j = n * (j \div n) + (j % n)
  BY DivMod
<1>3. j - i = n * ((j \div n) - (i \div n))
  BY <1>1, <1>2
<1>4. /\ (j \div n) - (i \div n) \in Int
      /\ j - i \in Int /\ -n < j - i /\ j - i # 0
  BY <1>1, <1>2
<1> QED
  BY <1>3, <1>4, Multiple, Zenon

(* A nonempty set of natural numbers has a least element. *)
LEMMA Least ==
  ASSUME NEW S \in SUBSET Nat, S # {}
  PROVE  \E x \in S : \A y \in S : x <= y
<1>1. PICK x \in S : \A y \in S : ~ (<<y, x>> \in OpToRel(<, Nat))
  BY NatLessThanWellFounded, WFMin, Zenon
<1>2. \A y \in S : ~ (y < x)
  BY <1>1 DEF OpToRel
<1> QED
  BY <1>2

-----------------------------------------------------------------------------
(* An element written behind the window joins it, as long as the window is  *)
(* not the whole ring.                                                      *)
LEMMA WindowPush ==
  ASSUME NEW ring, NEW lo, NEW hi, NEW n, NEW x, NEW new,
         HasRoom(ring, lo, hi, n, x), Written(new, ring, hi, n, x)
  PROVE  /\ Window(new, lo, hi + 1, n) = Window(ring, lo, hi, n) \cup {x}
         /\ Distinct(new, lo, hi + 1, n)
<1> USE DEF HasRoom, Written
<1>1. \A i \in lo..hi : i % n \in 0..(n - 1)
  <2> TAKE i \in lo..hi
  <2>1. i \in Int
    OBVIOUS
  <2> QED
    BY <2>1, ModRange
<1>2. \A i \in lo..(hi - 1) : i % n # hi % n
  <2> TAKE i \in lo..(hi - 1)
  <2>1. i \in Int /\ hi \in Int /\ i < hi /\ hi - i < n
    OBVIOUS
  <2> QED
    BY <2>1, ModDistinct
<1>a. hi \in lo..hi /\ \A i \in lo..(hi - 1) : i \in lo..hi
  OBVIOUS
<1>b. hi % n \in 0..(n - 1) /\ \A i \in lo..(hi - 1) : i % n \in 0..(n - 1)
  BY <1>1, <1>a
<1>3. new[hi % n] = x /\ \A i \in lo..(hi - 1) : new[i % n] = ring[i % n]
  BY <1>2, <1>b
<1>4. lo..((hi + 1) - 1) = (lo..(hi - 1)) \cup {hi}
  <2>1. lo \in Nat /\ hi \in Nat /\ lo <= hi
    OBVIOUS
  <2> QED
    BY ONLY <2>1
<1>5. Window(new, lo, hi + 1, n) = Window(ring, lo, hi, n) \cup {x}
  BY <1>3, <1>4 DEF Window
<1>6. \A i \in lo..(hi - 1) : ring[i % n] # x
  BY DEF Window
<1>7. Distinct(new, lo, hi + 1, n)
  BY <1>3, <1>4, <1>6 DEF Distinct
<1> QED
  BY <1>5, <1>7

(* The element at the window's lower end leaves it. *)
LEMMA WindowPop ==
  ASSUME NEW n, NEW ring, NEW lo \in Nat, NEW hi \in Nat, lo < hi,
         Distinct(ring, lo, hi, n)
  PROVE  /\ ring[lo % n] \in Window(ring, lo, hi, n)
         /\ Window(ring, lo + 1, hi, n) = Window(ring, lo, hi, n) \ {ring[lo % n]}
         /\ Distinct(ring, lo + 1, hi, n)
<1>1. lo..(hi - 1) = ((lo + 1)..(hi - 1)) \cup {lo} /\ lo \notin (lo + 1)..(hi - 1)
  OBVIOUS
<1> QED
  BY <1>1 DEF Window, Distinct

(* A window of distinct elements that misses one is not the whole ring. *)
LEMMA WindowHasRoom ==
  ASSUME NEW n \in Nat \ {0}, NEW ring \in [0..(n - 1) -> 0..(n - 1)], NEW x \in 0..(n - 1),
         NEW lo \in Nat, NEW hi \in Nat, lo <= hi,
         Distinct(ring, lo, hi, n), x \notin Window(ring, lo, hi, n)
  PROVE  HasRoom(ring, lo, hi, n, x)
<1> SUFFICES ASSUME hi - lo >= n PROVE FALSE
  BY DEF HasRoom
<1> DEFINE S == lo..(hi - 1)
           T == (0..(n - 1)) \ {x}
           f == [i \in S |-> ring[i % n]]
<1>1. IsFiniteSet(S) /\ Cardinality(S) = hi - lo
  <2>1. lo \in Int /\ hi - 1 \in Int
    OBVIOUS
  <2>2. IsFiniteSet(S) /\ Cardinality(S) = IF lo > hi - 1 THEN 0 ELSE (hi - 1) - lo + 1
    BY ONLY <2>1, FS_Interval, Zenon
  <2> QED
    BY <2>2
<1>2. IsFiniteSet(0..(n - 1)) /\ Cardinality(0..(n - 1)) = n
  <2>1. 0 \in Int /\ n - 1 \in Int
    OBVIOUS
  <2>2. /\ IsFiniteSet(0..(n - 1))
        /\ Cardinality(0..(n - 1)) = IF 0 > n - 1 THEN 0 ELSE (n - 1) - 0 + 1
    BY ONLY <2>1, FS_Interval, Zenon
  <2> QED
    BY <2>2
<1>3. IsFiniteSet(T) /\ Cardinality(T) = n - 1
  <2>1. /\ IsFiniteSet(T)
        /\ Cardinality(T) = IF x \in 0..(n - 1) THEN Cardinality(0..(n - 1)) - 1
                                                ELSE Cardinality(0..(n - 1))
    BY ONLY <1>2, FS_RemoveElement, Zenon
  <2> QED
    BY <1>2, <2>1
<1>4. f \in [S -> T]
  <2> SUFFICES ASSUME NEW i \in S PROVE ring[i % n] \in T
    OBVIOUS
  <2>1. i \in Int
    OBVIOUS
  <2>2. i % n \in 0..(n - 1)
    BY <2>1, ModRange
  <2>3. ring[i % n] \in Window(ring, lo, hi, n)
    BY DEF Window
  <2> QED
    BY <2>2, <2>3
<1>5. \A i, j \in S : f[i] = f[j] => i = j
  BY DEF Distinct
<1>6. Cardinality(T) < Cardinality(S)
  BY <1>1, <1>3
<1> HIDE DEF S, T, f
<1>7. \E i, j \in S : i # j /\ f[i] = f[j]
  BY ONLY <1>1, <1>3, <1>4, <1>6, FS_PigeonHole
<1> QED
  BY ONLY <1>5, <1>7
(* A remainder is not above what it is the remainder of. *)
LEMMA ModLe ==
  ASSUME NEW a \in Nat, NEW n \in Nat \ {0}
  PROVE  a % n <= a
<1> DEFINE q == a \div n
<1>1. q \in Int /\ a % n \in 0..(n - 1) /\ a = n * q + (a % n)
  BY DivMod
<1>2. q <= -1 => n * q <= -n
  BY <1>1
<1>3. q >= 0
  BY <1>1, <1>2
<1>4. n * q >= 0
  BY <1>1, <1>3
<1> QED
  BY <1>1, <1>4

(* As many consecutive indices as the ring has places reach every place. *)
LEMMA ModCover ==
  ASSUME NEW n \in Nat \ {0}, NEW lo \in Nat, NEW j \in 0..(n - 1)
  PROVE  \E k \in lo..(lo + n - 1) : k % n = j
<1> DEFINE q == lo \div n
           m == lo % n
<1>1. q \in Int /\ m \in 0..(n - 1) /\ lo = n * q + m
  BY DivMod
<1> HIDE DEF q, m
<1>2. CASE m <= j
  <2>1. (n * q + j) % n = j
    BY <1>1, ModUnique
  <2>2. n * q + j \in lo..(lo + n - 1)
    BY <1>1, <1>2
  <2> QED
    BY <2>1, <2>2
<1>3. CASE j < m
  <2>1. q + 1 \in Int /\ n * q + n + j = n * (q + 1) + j /\ n * q + n + j \in Int
    BY <1>1
  <2>2. (n * q + n + j) % n = j
    BY <2>1, ModUnique
  <2>3. n * q + n + j \in lo..(lo + n - 1)
    BY <1>1, <1>3
  <2> QED
    BY <2>2, <2>3
<1> QED
  BY <1>1, <1>2, <1>3
=============================================================================
