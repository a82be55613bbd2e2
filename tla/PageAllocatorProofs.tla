------------------------- MODULE PageAllocatorProofs -------------------------
(***************************************************************************)
(* Proofs about PageAllocator for every size of memory and of the kernel.  *)
(*                                                                         *)
(* The free list is a walk along links that lie in the pages themselves,   *)
(* so nothing about it is inductive as ListMatchesBitmap says it.  The     *)
(* invariant names the order of its pages instead: a function s from       *)
(* 1..size_ such that the links of page s[i] are s[i + 1] and s[i - 1].    *)
(* Push, Pop and Erase shift that function.  What the recursive functions  *)
(* of the model compute is then shown by least counterexample.             *)
(***************************************************************************)
EXTENDS PageAllocator, RingFacts, TLAPS

PageOrNull == Pages \cup {Null}

ListRecord ==
  [head_: PageOrNull, tail_: PageOrNull, size_: Nat, next: [Pages -> PageOrNull],
   previous: [Pages -> PageOrNull], identify: [Pages -> BOOLEAN]]

\* The pages of the list, from head_ to tail_, are s[1] to s[size_].
Linked(list, s) ==
  /\ list \in ListRecord
  /\ s \in [1..list.size_ -> Pages]
  /\ \A i, j \in 1..list.size_ : s[i] = s[j] => i = j
  /\ list.size_ = 0 => list.head_ = Null /\ list.tail_ = Null
  /\ list.size_ > 0 => list.head_ = s[1] /\ list.tail_ = s[list.size_]
  /\ \A i \in 1..list.size_ :
       /\ list.identify[s[i]]
       /\ list.next[s[i]] = IF i = list.size_ THEN Null ELSE s[i + 1]
       /\ list.previous[s[i]] = IF i = 1 THEN Null ELSE s[i - 1]

Members(list, s) == {s[i] : i \in 1..list.size_}

\* The list holds exactly the pages of F.
Holds(list, F) == \E s : Linked(list, s) /\ Members(list, s) = F

\* The free list and the bitmap agree, and the kernel's own pages are never free.
IInv ==
  /\ bit_map_ \in SUBSET Pages
  /\ Pages \ UserPages \subseteq bit_map_
  /\ returned \in SUBSET Pages
  /\ faulted \in BOOLEAN
  /\ Holds(memory_list_, Pages \ bit_map_)

\* The masks of AllocContinuousPage look at every page of the runs that are asked
\* for, and the list always keeps a page, so that Erase is not asked for its last.
RunsFit == MasksSelect /\ Spare >= 1

-----------------------------------------------------------------------------
(* The list *)

(* Pages are numbers, Null is none of them. *)
LEMMA PageFacts ==
  /\ PageNum \in Nat \ {0} /\ ByteBits \in Nat \ {0} /\ KernelPages \in Nat
  /\ ByteBits <= KernelPages /\ KernelPages < PageNum
  /\ Null \notin Pages
  /\ UserPages \subseteq Pages
  /\ Pages \subseteq Nat
BY PageAssumption DEF Pages, UserPages

(* Push puts a page in front. *)
LEMMA PushHolds ==
  ASSUME NEW list, NEW F, Holds(list, F), NEW m \in Pages, m \notin F
  PROVE  Holds(Push(list, m), F \cup {m}) /\ Push(list, m).size_ = list.size_ + 1
<1>1. PICK s : Linked(list, s) /\ Members(list, s) = F
  BY DEF Holds
<1> DEFINE new == Push(list, m)
           n == list.size_
           t == [i \in 1..(n + 1) |-> IF i = 1 THEN m ELSE s[i - 1]]
<1>2. /\ n \in Nat /\ s \in [1..n -> Pages] /\ \A i, j \in 1..n : s[i] = s[j] => i = j
      /\ \A i \in 1..n : s[i] # m
      /\ list \in ListRecord
  BY <1>1 DEF Linked, ListRecord, Members
<1>3. /\ new.head_ = m
      /\ new.tail_ = IF list.head_ = Null THEN m ELSE list.tail_
      /\ new.size_ = n + 1
      /\ new.next = [list.next EXCEPT ![m] = list.head_]
      /\ new.previous = [p \in Pages |-> IF p = m THEN Null
                                         ELSE IF p = list.head_ THEN m ELSE list.previous[p]]
      /\ new.identify = [list.identify EXCEPT ![m] = TRUE]
  BY DEF Push
<1>4. new \in ListRecord
  BY <1>2 DEF Push, ListRecord, PageOrNull
<1>5. t \in [1..(n + 1) -> Pages] /\ \A i, j \in 1..(n + 1) : t[i] = t[j] => i = j
  BY <1>2
<1>6. Linked(new, t)
  <2> HIDE DEF new
  <2>0. n > 0 => list.head_ = s[1] /\ list.tail_ = s[n] /\ list.head_ # Null
    BY <1>1, <1>2, PageFacts DEF Linked
  <2>1. new.tail_ = t[n + 1] /\ t[1] = m
    BY <1>1, <1>2, <1>3, <2>0 DEF Linked
  <2>2. ASSUME NEW i \in 1..(n + 1)
        PROVE  /\ new.identify[t[i]]
               /\ new.next[t[i]] = IF i = n + 1 THEN Null ELSE t[i + 1]
               /\ new.previous[t[i]] = IF i = 1 THEN Null ELSE t[i - 1]
    <3>1. CASE i = 1
      <4>1. t[1] = m /\ new.identify[m] /\ new.next[m] = list.head_ /\ new.previous[m] = Null
        BY <1>2, <1>3 DEF ListRecord
      <4>2. n = 0 => list.head_ = Null
        BY <1>1 DEF Linked
      <4>3. n > 0 => t[2] = s[1]
        BY <1>2
      <4> QED
        BY <1>2, <2>0, <3>1, <4>1, <4>2, <4>3
    <3>2. CASE i > 1
      <4>1. t[i] = s[i - 1] /\ i - 1 \in 1..n /\ s[i - 1] \in Pages /\ s[i - 1] # m
        BY <1>2, <3>2
      <4>2. /\ list.identify[s[i - 1]]
            /\ list.next[s[i - 1]] = IF i - 1 = n THEN Null ELSE s[i]
            /\ list.previous[s[i - 1]] = IF i - 1 = 1 THEN Null ELSE s[i - 2]
        BY <1>1, <1>2, <4>1 DEF Linked
      <4>3. s[i - 1] = list.head_ <=> i = 2
        BY <1>2, <2>0, <3>2, <4>1
      <4>4. new.identify[t[i]] /\ new.next[t[i]] = list.next[s[i - 1]]
        BY <1>2, <1>3, <4>1, <4>2 DEF ListRecord
      <4>5. new.previous[t[i]] = IF i = 2 THEN m ELSE list.previous[s[i - 1]]
        BY <1>2, <1>3, <4>1, <4>3
      <4>6. /\ i # n + 1 => t[i + 1] = s[i]
            /\ i # 2 => t[i - 1] = s[i - 2]
            /\ i = 2 => t[i - 1] = m
        BY <1>2, <3>2
      <4>7. i - 1 = n <=> i = n + 1
        BY <1>2
      <4>8. new.next[t[i]] = IF i = n + 1 THEN Null ELSE t[i + 1]
        BY <4>2, <4>4, <4>6, <4>7
      <4>9. new.previous[t[i]] = t[i - 1]
        BY <4>2, <4>5, <4>6
      <4> QED
        BY <3>2, <4>4, <4>8, <4>9
    <3> QED
      BY <1>2, <3>1, <3>2
  <2> HIDE DEF t
  <2> QED
    BY <1>2, <1>3, <1>4, <1>5, <2>1, <2>2 DEF Linked
<1>7. Members(new, t) = F \cup {m}
  <2>1. \A i \in 1..n : i + 1 \in 1..(n + 1) /\ t[i + 1] = s[i]
    BY <1>2
  <2>2. \A i \in 1..(n + 1) : t[i] = m \/ (i - 1 \in 1..n /\ t[i] = s[i - 1])
    BY <1>2
  <2>3. 1 \in 1..(n + 1) /\ t[1] = m
    BY <1>2
  <2> HIDE DEF t, new
  <2> QED
    BY <1>1, <1>3, <2>1, <2>2, <2>3 DEF Members
<1> HIDE DEF t
<1> QED
  BY <1>3, <1>6, <1>7 DEF Holds
(* memset over a page that is not on the list. *)
LEMMA ClearedHolds ==
  ASSUME NEW list, NEW F, Holds(list, F), NEW m \in Pages, m \notin F
  PROVE  Holds(Cleared(list, m), F) /\ Cleared(list, m).size_ = list.size_
<1>1. PICK s : Linked(list, s) /\ Members(list, s) = F
  BY DEF Holds
<1> DEFINE new == Cleared(list, m)
<1>2. /\ list.size_ \in Nat /\ s \in [1..list.size_ -> Pages]
      /\ \A i \in 1..list.size_ : s[i] # m
      /\ list \in ListRecord
  BY <1>1 DEF Linked, ListRecord, Members
<1>3. /\ new.head_ = list.head_ /\ new.tail_ = list.tail_ /\ new.size_ = list.size_
      /\ new.next = [list.next EXCEPT ![m] = Null]
      /\ new.previous = [list.previous EXCEPT ![m] = Null]
      /\ new.identify = [list.identify EXCEPT ![m] = FALSE]
  BY <1>2 DEF Cleared, ListRecord
<1>4. new \in ListRecord
  BY <1>2 DEF Cleared, ListRecord, PageOrNull
<1> HIDE DEF new
<1>5. ASSUME NEW p \in Pages, p # m
      PROVE  /\ new.next[p] = list.next[p] /\ new.previous[p] = list.previous[p]
             /\ new.identify[p] <=> list.identify[p]
  BY <1>2, <1>3, <1>5 DEF ListRecord
<1>6. ASSUME NEW i \in 1..list.size_
      PROVE  /\ new.next[s[i]] = list.next[s[i]] /\ new.previous[s[i]] = list.previous[s[i]]
             /\ new.identify[s[i]] <=> list.identify[s[i]]
  BY <1>2, <1>5
<1>7. Linked(new, s)
  BY <1>1, <1>3, <1>4, <1>6 DEF Linked
<1>8. Members(new, s) = F
  BY <1>1, <1>3 DEF Members
<1> QED
  BY <1>3, <1>7, <1>8 DEF Holds, new

(* Pop takes the first page off, whose own links stay. *)
LEMMA PopHolds ==
  ASSUME NEW list, NEW F, Holds(list, F), list.head_ # Null
  PROVE  /\ list.head_ \in F /\ list.head_ \in Pages
         /\ Holds(Pop(list), F \ {list.head_})
<1>1. PICK s : Linked(list, s) /\ Members(list, s) = F
  BY DEF Holds
<1> DEFINE new == Pop(list)
           n == list.size_
           t == [i \in 1..(n - 1) |-> s[i + 1]]
           h == list.next[list.head_]
<1>2. /\ n \in Nat /\ s \in [1..n -> Pages] /\ \A i, j \in 1..n : s[i] = s[j] => i = j
      /\ list \in ListRecord
      /\ n > 0
  BY <1>1 DEF Linked, ListRecord
<1>3. /\ list.head_ = s[1] /\ list.tail_ = s[n] /\ s[1] \in Pages
      /\ h = IF n = 1 THEN Null ELSE s[2]
  BY <1>1, <1>2 DEF Linked
<1>4. h \in PageOrNull /\ (h = Null <=> n = 1) /\ \A i \in 1..n : s[i] = h <=> i = 2
  <2>1. n # 1 => s[2] \in Pages
    BY <1>2
  <2>2. \A i \in 1..n : s[i] \in Pages
    BY <1>2
  <2>3. \A i \in 1..n : n # 1 => (s[i] = s[2] <=> i = 2)
    BY <1>2
  <2> QED
    BY <1>2, <1>3, <2>1, <2>2, <2>3, PageFacts DEF PageOrNull
<1> HIDE DEF h
<1>5. /\ new.head_ = h /\ new.size_ = n - 1
      /\ new.tail_ = IF h = Null THEN Null ELSE list.tail_
      /\ new.previous = [p \in Pages |-> IF p = h THEN Null ELSE list.previous[p]]
      /\ new.next = list.next /\ new.identify = list.identify
  BY <1>2 DEF Pop, ListRecord, h
<1>6. new \in ListRecord
  <2>1. new = [list EXCEPT !.head_ = h, !.size_ = n - 1,
                           !.tail_ = IF h = Null THEN Null ELSE @,
                           !.previous = [p \in Pages |-> IF p = h THEN Null ELSE @[p]]]
    BY DEF Pop, h
  <2>2. n - 1 \in Nat /\ Null \in PageOrNull
    BY <1>2 DEF PageOrNull
  <2> HIDE DEF new, n
  <2> QED
    BY <1>2, <1>4, <2>1, <2>2 DEF ListRecord
<1> HIDE DEF new
<1>7. /\ t \in [1..(n - 1) -> Pages] /\ \A i, j \in 1..(n - 1) : t[i] = t[j] => i = j
      /\ \A i \in 1..(n - 1) : t[i] = s[i + 1] /\ i + 1 \in 1..n
  BY <1>2
<1>8. ASSUME NEW i \in 1..(n - 1)
      PROVE  /\ new.identify[t[i]]
             /\ new.next[t[i]] = IF i = n - 1 THEN Null ELSE t[i + 1]
             /\ new.previous[t[i]] = IF i = 1 THEN Null ELSE t[i - 1]
  <2>1. /\ list.identify[s[i + 1]]
        /\ list.next[s[i + 1]] = IF i + 1 = n THEN Null ELSE s[i + 2]
        /\ list.previous[s[i + 1]] = s[i]
    BY <1>1, <1>2, <1>7 DEF Linked
  <2>2. s[i + 1] = h <=> i = 1
    BY <1>2, <1>4
  <2>3. i # n - 1 => t[i + 1] = s[i + 2]
    BY <1>2
  <2>4. i # 1 => t[i - 1] = s[i]
    BY <1>2
  <2>5. i + 1 = n <=> i = n - 1
    BY <1>2
  <2>6. s[i + 1] \in Pages
    BY <1>2, <1>7
  <2>7. new.previous[t[i]] = IF i = 1 THEN Null ELSE s[i]
    BY <1>5, <1>7, <2>1, <2>2, <2>6
  <2> HIDE DEF t
  <2> QED
    BY <1>5, <1>7, <2>1, <2>3, <2>4, <2>5, <2>7
<1>9. Linked(new, t)
  <2>1. n - 1 > 0 => new.head_ = t[1] /\ new.tail_ = t[n - 1]
    BY <1>2, <1>3, <1>4, <1>5 DEF h
  <2>2. n - 1 = 0 => new.head_ = Null /\ new.tail_ = Null
    BY <1>2, <1>3, <1>4, <1>5 DEF h
  <2> HIDE DEF t
  <2> QED
    BY <1>5, <1>6, <1>7, <1>8, <2>1, <2>2 DEF Linked
<1>10. Members(new, t) = F \ {s[1]}
  <2>1. \A i \in 1..n : i = 1 \/ (i - 1 \in 1..(n - 1) /\ t[i - 1] = s[i])
    BY <1>2
  <2>2. \A i \in 1..n : s[i] = s[1] => i = 1
    BY <1>2
  <2>3. \A i \in 1..(n - 1) : i + 1 # 1
    BY <1>2
  <2> HIDE DEF t
  <2> QED
    BY <1>1, <1>2, <1>5, <1>7, <2>1, <2>2, <2>3 DEF Members
<1>11. s[1] \in F
  BY <1>1, <1>2 DEF Members
<1> HIDE DEF t
<1> QED
  BY <1>3, <1>9, <1>10, <1>11 DEF Holds, new
(* Erase takes a page out wherever it is, unless it is the only one. *)
LEMMA EraseHolds ==
  ASSUME NEW list, NEW F, Holds(list, F), NEW m \in F, list.size_ > 1
  PROVE  Holds(Erase(list, m), F \ {m}) /\ Erase(list, m).size_ = list.size_ - 1
<1>1. PICK s : Linked(list, s) /\ Members(list, s) = F
  BY DEF Holds
<1>2. PICK n : n = list.size_
  OBVIOUS
<1>3. /\ n \in Nat /\ n > 1 /\ s \in [1..n -> Pages]
      /\ \A i, j \in 1..n : s[i] = s[j] => i = j
      /\ list \in ListRecord
      /\ list.head_ = s[1] /\ list.tail_ = s[n]
  BY <1>1, <1>2 DEF Linked, ListRecord
<1>4. PICK k \in 1..n : s[k] = m
  BY <1>1, <1>2 DEF Members
<1>5. PICK x : x = list.next[m]
  OBVIOUS
<1>6. PICK p : p = list.previous[m]
  OBVIOUS
<1>7. /\ list.identify[m] /\ m \in Pages
      /\ x = IF k = n THEN Null ELSE s[k + 1]
      /\ p = IF k = 1 THEN Null ELSE s[k - 1]
  BY <1>1, <1>2, <1>3, <1>4, <1>5, <1>6 DEF Linked
<1>8. /\ k # n => x \in Pages /\ x # Null
      /\ k # 1 => p \in Pages /\ p # Null
      /\ x \in PageOrNull /\ p \in PageOrNull
  <2>1. k # n => k + 1 \in 1..n
    BY <1>3
  <2>2. k # 1 => k - 1 \in 1..n
    BY <1>3
  <2> QED
    BY <1>3, <1>7, <2>1, <2>2, PageFacts DEF PageOrNull
<1>9. /\ \A i \in 1..n : s[i] = x <=> i = k + 1
      /\ \A i \in 1..n : s[i] = p <=> i = k - 1
  <2>1. \A i \in 1..n : s[i] \in Pages /\ s[i] # Null
    BY <1>3, PageFacts
  <2>2. ASSUME NEW i \in 1..n PROVE s[i] = x <=> i = k + 1
    <3>1. CASE k = n
      BY <1>3, <1>7, <2>1, <3>1
    <3>2. CASE k # n
      BY <1>3, <1>7, <3>2
    <3> QED
      BY <3>1, <3>2
  <2>3. ASSUME NEW i \in 1..n PROVE s[i] = p <=> i = k - 1
    <3>1. CASE k = 1
      BY <1>3, <1>7, <2>1, <3>1
    <3>2. CASE k # 1
      BY <1>3, <1>7, <3>2
    <3> QED
      BY <3>1, <3>2
  <2> QED
    BY <2>2, <2>3
<1>10. Erasable(list, m) /\ (p = Null => m = list.head_)
  <2>1. x # Null \/ p # Null
    BY <1>3, <1>8
  <2>2. x = Null => m = list.tail_
    BY <1>3, <1>4, <1>8
  <2>3. p = Null => m = list.head_
    BY <1>3, <1>4, <1>8
  <2> QED
    BY <1>5, <1>6, <1>7, <2>1, <2>2, <2>3 DEF Erasable
<1> DEFINE new == Erase(list, m)
<1>11. new = [[list EXCEPT !.tail_ = IF x = Null THEN p ELSE @,
                           !.previous = [q \in Pages |-> IF q = x THEN p ELSE @[q]]]
                EXCEPT !.head_ = IF p = Null THEN x ELSE @,
                       !.next = [q \in Pages |-> IF q = p THEN x ELSE @[q]],
                       !.size_ = @ - 1]
  BY <1>5, <1>6, <1>10, Zenon DEF Erase
<1> HIDE DEF new
<1>12. /\ new.head_ = IF p = Null THEN x ELSE list.head_
       /\ new.tail_ = IF x = Null THEN p ELSE list.tail_
       /\ new.size_ = n - 1
       /\ new.next = [q \in Pages |-> IF q = p THEN x ELSE list.next[q]]
       /\ new.previous = [q \in Pages |-> IF q = x THEN p ELSE list.previous[q]]
       /\ new.identify = list.identify
  BY <1>2, <1>3, <1>11 DEF ListRecord
<1>13. new \in ListRecord
  <2> DEFINE y == [list EXCEPT !.tail_ = IF x = Null THEN p ELSE @,
                               !.previous = [q \in Pages |-> IF q = x THEN p ELSE @[q]]]
  <2>1. y \in ListRecord /\ y.size_ = n
    BY <1>2, <1>3, <1>8 DEF ListRecord
  <2>2. new = [y EXCEPT !.head_ = IF p = Null THEN x ELSE @,
                        !.next = [q \in Pages |-> IF q = p THEN x ELSE @[q]],
                        !.size_ = @ - 1]
    BY <1>11
  <2> HIDE DEF y
  <2>3. n - 1 \in Nat
    BY <1>3
  <2> QED
    BY <1>8, <2>1, <2>2, <2>3 DEF ListRecord
<1> DEFINE t == [i \in 1..(n - 1) |-> IF i < k THEN s[i] ELSE s[i + 1]]
<1>14. /\ t \in [1..(n - 1) -> Pages]
       /\ \A i, j \in 1..(n - 1) : t[i] = t[j] => i = j
       /\ \A i \in 1..(n - 1) : /\ i < k => t[i] = s[i] /\ i \in 1..n
                                /\ i >= k => t[i] = s[i + 1] /\ i + 1 \in 1..n
  BY <1>3
<1> HIDE DEF t
<1>15. ASSUME NEW i \in 1..(n - 1)
       PROVE  /\ new.identify[t[i]]
              /\ new.next[t[i]] = IF i = n - 1 THEN Null ELSE t[i + 1]
              /\ new.previous[t[i]] = IF i = 1 THEN Null ELSE t[i - 1]
  <2>0. ASSUME NEW j \in 1..n
        PROVE  /\ list.identify[s[j]]
               /\ list.next[s[j]] = IF j = n THEN Null ELSE s[j + 1]
               /\ list.previous[s[j]] = IF j = 1 THEN Null ELSE s[j - 1]
               /\ new.next[s[j]] = IF j = k - 1 THEN x ELSE list.next[s[j]]
               /\ new.previous[s[j]] = IF j = k + 1 THEN p ELSE list.previous[s[j]]
               /\ new.identify[s[j]]
    <3>1. /\ list.identify[s[j]]
          /\ list.next[s[j]] = IF j = n THEN Null ELSE s[j + 1]
          /\ list.previous[s[j]] = IF j = 1 THEN Null ELSE s[j - 1]
      BY <1>1, <1>2 DEF Linked
    <3>2. s[j] \in Pages
      BY <1>3
    <3> QED
      BY <1>9, <1>12, <3>1, <3>2
  <2>1. CASE i < k
    <3>1. t[i] = s[i] /\ i \in 1..n /\ i # k + 1 /\ i # n
      BY <1>3, <1>14, <2>1
    <3>2. new.next[t[i]] = IF i = n - 1 THEN Null ELSE t[i + 1]
      <4>1. CASE i = k - 1
        <5>1. new.next[t[i]] = x
          BY <2>0, <3>1, <4>1
        <5>2. i # n - 1 => k # n /\ t[i + 1] = s[k + 1]
          BY <1>3, <1>14, <4>1
        <5>3. i = n - 1 => k = n
          BY <1>3, <4>1
        <5> QED
          BY <1>7, <5>1, <5>2, <5>3
      <4>2. CASE i # k - 1
        <5>1. i # n - 1 /\ t[i + 1] = s[i + 1]
          BY <1>3, <1>14, <2>1, <4>2
        <5> QED
          BY <2>0, <3>1, <4>2, <5>1
      <4> QED
        BY <4>1, <4>2
    <3>3. new.previous[t[i]] = IF i = 1 THEN Null ELSE t[i - 1]
      <4>1. i # 1 => t[i - 1] = s[i - 1]
        BY <1>3, <1>14, <2>1
      <4> QED
        BY <2>0, <3>1, <4>1
    <3> QED
      BY <2>0, <3>1, <3>2, <3>3
  <2>2. CASE i >= k
    <3>1. t[i] = s[i + 1] /\ i + 1 \in 1..n /\ i + 1 # k - 1 /\ (i + 1 = n <=> i = n - 1)
      BY <1>3, <1>14, <2>2
    <3>2. new.next[t[i]] = IF i = n - 1 THEN Null ELSE t[i + 1]
      <4>1. i # n - 1 => t[i + 1] = s[i + 2]
        BY <1>3, <1>14, <2>2
      <4>2. list.next[s[i + 1]] = IF i + 1 = n THEN Null ELSE s[(i + 1) + 1]
        BY <2>0, <3>1
      <4>3. (i + 1) + 1 = i + 2
        OBVIOUS
      <4> QED
        BY <2>0, <3>1, <4>1, <4>2, <4>3
    <3>3. new.previous[t[i]] = IF i = 1 THEN Null ELSE t[i - 1]
      <4>1. CASE i = k
        <5>1. new.previous[t[i]] = p
          BY <2>0, <3>1, <4>1
        <5>2. i # 1 => t[i - 1] = s[k - 1]
          BY <1>3, <1>14, <4>1
        <5> QED
          BY <1>7, <4>1, <5>1, <5>2
      <4>2. CASE i # k
        <5>1. i # 1 /\ t[i - 1] = s[i]
          BY <1>3, <1>14, <2>2, <4>2
        <5>2. list.previous[s[i + 1]] = s[i]
          <6>1. (i + 1) - 1 = i /\ i + 1 # 1
            OBVIOUS
          <6> QED
            BY <2>0, <3>1, <6>1
        <5>3. i + 1 # k + 1
          BY <1>3, <4>2
        <5> QED
          BY <2>0, <3>1, <5>1, <5>2, <5>3
      <4> QED
        BY <4>1, <4>2
    <3> QED
      BY <2>0, <3>1, <3>2, <3>3
  <2> QED
    BY <1>3, <2>1, <2>2
<1>16. new.head_ = t[1] /\ new.tail_ = t[n - 1]
  <2>1. t[1] = IF k = 1 THEN s[2] ELSE s[1]
    BY <1>3, <1>14
  <2>2. t[n - 1] = IF k = n THEN s[n - 1] ELSE s[n]
    BY <1>3, <1>14
  <2>3. new.head_ = IF k = 1 THEN s[2] ELSE s[1]
    BY <1>3, <1>7, <1>8, <1>12
  <2>4. new.tail_ = IF k = n THEN s[n - 1] ELSE s[n]
    BY <1>3, <1>7, <1>8, <1>12
  <2> QED
    BY <2>1, <2>2, <2>3, <2>4
<1>17. Linked(new, t)
  <2>1. new.size_ = n - 1 /\ n - 1 # 0
    BY <1>3, <1>12
  <2>2. new.size_ = 0 => new.head_ = Null /\ new.tail_ = Null
    BY <2>1
  <2>3. new.size_ > 0 => new.head_ = t[1] /\ new.tail_ = t[new.size_]
    BY <1>16, <2>1
  <2>4. t \in [1..new.size_ -> Pages] /\ \A i, j \in 1..new.size_ : t[i] = t[j] => i = j
    BY <1>14, <2>1
  <2>5. \A i \in 1..new.size_ :
          /\ new.identify[t[i]]
          /\ new.next[t[i]] = IF i = new.size_ THEN Null ELSE t[i + 1]
          /\ new.previous[t[i]] = IF i = 1 THEN Null ELSE t[i - 1]
    BY <1>15, <2>1
  <2> QED
    BY <1>13, <2>2, <2>3, <2>4, <2>5 DEF Linked
<1>18. Members(new, t) = F \ {m}
  <2>1. \A i \in 1..(n - 1) : t[i] \in F /\ t[i] # m
    <3>1. \A j \in 1..n : s[j] \in F /\ (s[j] = m => j = k)
      BY <1>1, <1>2, <1>3, <1>4 DEF Members
    <3> QED
      BY <1>3, <1>14, <3>1
  <2>2. ASSUME NEW f \in F, f # m PROVE \E i \in 1..(n - 1) : t[i] = f
    <3>1. PICK j \in 1..n : s[j] = f
      BY <1>1, <1>2 DEF Members
    <3>2. CASE j < k
      <4>1. j \in 1..(n - 1) /\ t[j] = f
        BY <1>3, <1>14, <3>1, <3>2
      <4> QED
        BY <4>1
    <3>3. CASE j > k
      <4>1. j - 1 \in 1..(n - 1) /\ j - 1 >= k /\ (j - 1) + 1 = j
        BY <1>3, <3>3
      <4>2. t[j - 1] = f
        BY <1>14, <3>1, <4>1
      <4> QED
        BY <4>1, <4>2
    <3> QED
      BY <1>3, <1>4, <2>2, <3>1, <3>2, <3>3
  <2>3. Members(new, t) = {t[i] : i \in 1..(n - 1)}
    BY <1>12 DEF Members
  <2> QED
    BY <2>1, <2>2, <2>3
<1> QED
  BY <1>2, <1>12, <1>17, <1>18 DEF Holds, new

(* size_ counts the pages of the list. *)
LEMMA HoldsCount ==
  ASSUME NEW list, NEW F, Holds(list, F), F \subseteq Pages
  PROVE  /\ list \in ListRecord
         /\ list.size_ = Cardinality(F)
         /\ list.size_ \in 0..PageNum
<1>1. PICK s : Linked(list, s) /\ Members(list, s) = F
  BY DEF Holds
<1>2. PICK n \in Nat : n = list.size_
  BY <1>1 DEF Linked, ListRecord
<1>3. s \in [1..n -> Pages] /\ \A i, j \in 1..n : s[i] = s[j] => i = j
  BY <1>1, <1>2 DEF Linked
<1>4. s \in Bijection(1..n, F)
  <2>1. F = {s[i] : i \in 1..n}
    BY <1>1, <1>2 DEF Members
  <2> QED
    BY <1>3, <2>1 DEF Bijection, Injection, Surjection, IsInjective
<1>5. Cardinality(F) = n
  BY <1>4, FS_CountingElements DEF ExistsBijection
<1>6. IsFiniteSet(Pages) /\ Cardinality(Pages) = PageNum
  BY PageFacts, FS_Interval DEF Pages
<1>7. Cardinality(F) <= PageNum
  BY <1>6, FS_Subset
<1> QED
  BY <1>1, <1>2, <1>5, <1>7 DEF Linked

(* What the walk from head_ along next finds. *)
LEMMA WalkFinds ==
  ASSUME NEW s, Linked(memory_list_, s), memory_list_.size_ \in 0..PageNum
  PROVE  Chunks = [k \in 0..PageNum |-> IF k < memory_list_.size_ THEN s[k + 1] ELSE Null]
<1>1. PICK n \in 0..PageNum : n = memory_list_.size_
  OBVIOUS
<1> DEFINE g == [k \in 0..PageNum |-> IF k < n THEN s[k + 1] ELSE Null]
           next == memory_list_.next
           W(f) == [k \in 0..PageNum |-> IF k = 0 THEN memory_list_.head_
                                         ELSE IF f[k - 1] = Null THEN Null ELSE next[f[k - 1]]]
<1>2. \A i \in 1..n : s[i] \in Pages /\ s[i] # Null /\ next[s[i]] = IF i = n THEN Null ELSE s[i + 1]
  BY <1>1, PageFacts DEF Linked
<1>3. memory_list_.head_ = IF n = 0 THEN Null ELSE s[1]
  BY <1>1, PageFacts DEF Linked
<1> HIDE DEF next
<1>4. g = W(g)
  <2>1. ASSUME NEW k \in 0..PageNum
        PROVE  g[k] = IF k = 0 THEN memory_list_.head_
                      ELSE IF g[k - 1] = Null THEN Null ELSE next[g[k - 1]]
    <3>0. n \in Nat /\ PageNum \in Nat /\ k \in Nat
      BY PageFacts
    <3>1. CASE k = 0
      BY <1>3, <3>0, <3>1
    <3>2. CASE k > 0 /\ k <= n
      <4>1. g[k - 1] = s[k] /\ k \in 1..n
        BY <3>0, <3>2
      <4>2. s[k] # Null /\ next[s[k]] = IF k = n THEN Null ELSE s[k + 1]
        BY <1>2, <4>1
      <4>3. g[k] = IF k = n THEN Null ELSE s[k + 1]
        BY <3>0, <3>2
      <4> QED
        BY <3>2, <4>1, <4>2, <4>3
    <3>3. CASE k > n
      <4>1. k # 0 /\ k - 1 \in 0..PageNum /\ ~(k - 1 < n) /\ ~(k < n)
        BY <3>0, <3>3
      <4>2. g[k - 1] = Null /\ g[k] = Null
        BY <4>1
      <4> QED
        BY <4>1, <4>2
    <3> QED
      BY <3>0, <3>1, <3>2, <3>3
  <2> HIDE DEF g
  <2>2. g = [k \in 0..PageNum |-> g[k]]
    BY DEF g
  <2> QED
    BY <2>1, <2>2
<1>5. Chunks = W(Chunks)
  <2> HIDE DEF g
  <2> QED
    BY <1>4, Zenon DEF Chunks, next
<1>6. \A k \in 0..PageNum : Chunks[k] = g[k]
  <2> DEFINE Bad == {k \in 0..PageNum : Chunks[k] # g[k]}
  <2>1. ASSUME Bad # {} PROVE FALSE
    <3>0. Bad \in SUBSET Nat
      BY PageFacts
    <3>1. PICK k \in Bad : \A j \in Bad : k <= j
      BY <2>1, <3>0, Least
    <3> HIDE DEF g
    <3>2. k \in 0..PageNum /\ Chunks[k] # g[k] /\ k \in Nat
      BY PageFacts
    <3>3. k # 0
      BY <1>4, <1>5, <3>2
    <3>4. k - 1 \in 0..PageNum /\ Chunks[k - 1] = g[k - 1]
      <4>1. k - 1 \in 0..PageNum /\ ~(k <= k - 1)
        BY <3>2, <3>3, PageFacts
      <4> QED
        BY <3>1, <4>1
    <3> QED
      BY <1>4, <1>5, <3>2, <3>3, <3>4
  <2> QED
    BY <2>1
<1>7. Chunks = g
  <2>1. Chunks = [k \in 0..PageNum |-> Chunks[k]] /\ g = [k \in 0..PageNum |-> g[k]]
    BY <1>5
  <2> HIDE DEF g
  <2> QED
    BY <1>6, <2>1
<1> QED
  BY <1>1, <1>7

(* The list that VirtualMemory::Init builds. *)
LEMMA FilledHolds == Holds(Filled[PageNum], UserPages)
<1> DEFINE K == KernelPages
           W(f) == [k \in K..PageNum |-> IF k = K THEN EmptyList ELSE Push(f[k - 1], k - 1)]
           L(k) == [head_ |-> IF k = K THEN Null ELSE k - 1,
                    tail_ |-> IF k = K THEN Null ELSE K,
                    size_ |-> k - K,
                    next |-> [m \in Pages |-> IF m \in (K + 1)..(k - 1) THEN m - 1 ELSE Null],
                    previous |-> [m \in Pages |-> IF m \in K..(k - 2) THEN m + 1 ELSE Null],
                    identify |-> [m \in Pages |-> IF m \in K..(k - 1) THEN TRUE ELSE FALSE]]
           g == [k \in K..PageNum |-> L(k)]
<1>0. K \in Nat /\ PageNum \in Nat /\ K < PageNum
  BY PageFacts
<1>1. L(K) = EmptyList
  <2>1. \A m \in Pages : m \notin (K + 1)..(K - 1) /\ m \notin K..(K - 2) /\ m \notin K..(K - 1)
    BY <1>0
  <2>2. K - K = 0
    BY <1>0
  <2> QED
    BY <2>1, <2>2 DEF EmptyList
<1>2. ASSUME NEW k \in K..PageNum, k # K
      PROVE  L(k) = Push(L(k - 1), k - 1)
  <2>1. k - 1 \in Pages /\ k - 1 >= K /\ k \in Int /\ (k - 1) - 1 = k - 2
    BY <1>0, <1>2 DEF Pages
  <2>2. L(k - 1).head_ = IF k - 1 = K THEN Null ELSE k - 2
    BY <2>1
  <2>3. k - 1 # K => k - 2 \in Pages
    BY <1>0, <2>1 DEF Pages
  <2>4. L(k - 1).head_ = Null <=> k - 1 = K
    BY <2>2, <2>3, PageFacts
  <2>5. L(k).tail_ = IF L(k - 1).head_ = Null THEN k - 1 ELSE L(k - 1).tail_
    BY <1>2, <2>1, <2>4
  <2>6. L(k).size_ = L(k - 1).size_ + 1
    BY <1>0, <2>1
  <2>7. L(k).next = [L(k - 1).next EXCEPT ![k - 1] = L(k - 1).head_]
    <3>1. ASSUME NEW m \in Pages
          PROVE  L(k).next[m] = IF m = k - 1 THEN L(k - 1).head_ ELSE L(k - 1).next[m]
      <4>0. m \in Nat
        BY PageFacts
      <4>1. L(k).next[m] = IF m \in (K + 1)..(k - 1) THEN m - 1 ELSE Null
        OBVIOUS
      <4>2. L(k - 1).next[m] = IF m \in (K + 1)..((k - 1) - 1) THEN m - 1 ELSE Null
        OBVIOUS
      <4>3. CASE m = k - 1
        <5>1. m \in (K + 1)..(k - 1) <=> k - 1 # K
          BY <1>0, <2>1, <4>3
        <5>2. m - 1 = k - 2
          BY <2>1, <4>3
        <5> QED
          BY <2>2, <4>1, <4>3, <5>1, <5>2
      <4>4. CASE m # k - 1
        <5>1. m \in (K + 1)..(k - 1) <=> m \in (K + 1)..((k - 1) - 1)
          BY <1>0, <2>1, <4>0, <4>4
        <5> QED
          BY <4>1, <4>2, <4>4, <5>1
      <4> QED
        BY <4>3, <4>4
    <3>2. /\ L(k).next = [m \in Pages |-> L(k).next[m]]
          /\ L(k - 1).next = [m \in Pages |-> L(k - 1).next[m]]
      OBVIOUS
    <3> HIDE DEF L
    <3>3. [L(k - 1).next EXCEPT ![k - 1] = L(k - 1).head_]
            = [m \in Pages |-> IF m = k - 1 THEN L(k - 1).head_ ELSE L(k - 1).next[m]]
      BY <3>2
    <3> QED
      BY <3>1, <3>2, <3>3, Zenon
  <2>8. L(k).previous = [p \in Pages |-> IF p = k - 1 THEN Null
                                         ELSE IF p = L(k - 1).head_ THEN k - 1
                                         ELSE L(k - 1).previous[p]]
    <3>1. ASSUME NEW m \in Pages
          PROVE  L(k).previous[m] = IF m = k - 1 THEN Null
                                    ELSE IF m = L(k - 1).head_ THEN k - 1 ELSE L(k - 1).previous[m]
      <4>0. m \in Nat /\ m # Null
        BY PageFacts
      <4>1. L(k).previous[m] = IF m \in K..(k - 2) THEN m + 1 ELSE Null
        OBVIOUS
      <4>2. L(k - 1).previous[m] = IF m \in K..((k - 1) - 2) THEN m + 1 ELSE Null
        OBVIOUS
      <4>3. CASE m = k - 1
        <5>1. m \notin K..(k - 2)
          BY <2>1, <4>3
        <5> QED
          BY <4>1, <4>3, <5>1
      <4>4. CASE m # k - 1 /\ m = L(k - 1).head_
        <5>1. k - 1 # K /\ m = k - 2
          BY <2>2, <4>0, <4>4
        <5>2. m \in K..(k - 2) /\ m + 1 = k - 1
          BY <1>0, <2>1, <5>1
        <5> QED
          BY <4>1, <4>4, <5>2
      <4>5. CASE m # k - 1 /\ m # L(k - 1).head_
        <5>1. m \in K..(k - 2) <=> m \in K..((k - 1) - 2)
          BY <1>0, <2>1, <2>2, <4>0, <4>5
        <5> QED
          BY <4>1, <4>2, <4>5, <5>1
      <4> QED
        BY <4>3, <4>4, <4>5
    <3>2. L(k).previous = [m \in Pages |-> L(k).previous[m]]
      OBVIOUS
    <3> QED
      BY <3>1, <3>2, Zenon
  <2>9. L(k).identify = [L(k - 1).identify EXCEPT ![k - 1] = TRUE]
    <3>1. \A m \in Pages : m \in K..(k - 1) <=> m \in K..((k - 1) - 1) \/ m = k - 1
      BY <1>0, <2>1, PageFacts
    <3>2. ASSUME NEW m \in Pages
          PROVE  L(k).identify[m] = IF m = k - 1 THEN TRUE ELSE L(k - 1).identify[m]
      BY <3>1
    <3>3. /\ L(k).identify = [m \in Pages |-> L(k).identify[m]]
          /\ L(k - 1).identify = [m \in Pages |-> L(k - 1).identify[m]]
      BY Zenon
    <3> HIDE DEF L
    <3>4. [L(k - 1).identify EXCEPT ![k - 1] = TRUE]
            = [m \in Pages |-> IF m = k - 1 THEN TRUE ELSE L(k - 1).identify[m]]
      BY <3>3, Zenon
    <3> QED
      BY <3>2, <3>3, <3>4, Zenon
  <2>10. L(k).head_ = k - 1
    BY <1>2
  <2>11. L(k) = [head_ |-> L(k).head_, tail_ |-> L(k).tail_, size_ |-> L(k).size_,
                 next |-> L(k).next, previous |-> L(k).previous, identify |-> L(k).identify]
    OBVIOUS
  <2> HIDE DEF L
  <2> QED
    BY <2>5, <2>6, <2>7, <2>8, <2>9, <2>10, <2>11 DEF Push
<1> HIDE DEF L
<1>3. g = W(g)
  <2>1. \A k \in K..PageNum : k # K => k - 1 \in K..PageNum
    BY <1>0
  <2>2. \A k \in K..PageNum : k # K => g[k - 1] = L(k - 1)
    BY <2>1
  <2> QED
    BY <1>1, <1>2, <2>2
<1>4. Filled = W(Filled)
  <2> HIDE DEF g
  <2> QED
    BY <1>3, Zenon DEF Filled
<1>5. Holds(EmptyList, {})
  <2>1. EmptyList \in ListRecord /\ EmptyList.size_ = 0
    BY DEF EmptyList, ListRecord, PageOrNull
  <2>2. EmptyList.head_ = Null /\ EmptyList.tail_ = Null
    BY DEF EmptyList
  <2> DEFINE s == [i \in 1..0 |-> 0]
  <2>3. s \in [1..0 -> Pages]
    OBVIOUS
  <2> HIDE DEF s
  <2>4. \A i : i \notin 1..0
    OBVIOUS
  <2>5. Linked(EmptyList, s)
    BY <2>1, <2>2, <2>3, <2>4 DEF Linked
  <2>6. Members(EmptyList, s) = {}
    BY <2>1, <2>4 DEF Members
  <2> QED
    BY <2>5, <2>6 DEF Holds
<1>6. \A k \in K..PageNum : Holds(Filled[k], K..(k - 1))
  <2> DEFINE Bad == {k \in K..PageNum : ~Holds(Filled[k], K..(k - 1))}
  <2>1. ASSUME Bad # {} PROVE FALSE
    <3>0. Bad \in SUBSET Nat
      BY <1>0
    <3>1. PICK k \in Bad : \A j \in Bad : k <= j
      BY <2>1, <3>0, Least
    <3>2. k \in K..PageNum /\ ~Holds(Filled[k], K..(k - 1)) /\ k \in Nat
      BY <1>0
    <3>3. k # K
      <4>1. K..(K - 1) = {} /\ K \in K..PageNum
        BY <1>0
      <4>2. Filled[K] = EmptyList
        BY <1>4, <4>1
      <4> QED
        BY <1>5, <3>2, <4>1, <4>2
    <3>4. k - 1 \in K..PageNum /\ Holds(Filled[k - 1], K..(k - 2))
      <4>1. k - 1 \in K..PageNum /\ ~(k <= k - 1) /\ (k - 1) - 1 = k - 2
        BY <1>0, <3>2, <3>3
      <4> QED
        BY <3>1, <4>1
    <3>5. /\ k - 1 \in Pages /\ k - 1 \notin K..(k - 2)
          /\ K..(k - 1) = (K..(k - 2)) \cup {k - 1}
      BY <1>0, <3>2, <3>3 DEF Pages
    <3>6. Filled[k] = Push(Filled[k - 1], k - 1)
      BY <1>4, <3>2, <3>3
    <3>7. PICK list, F : list = Filled[k - 1] /\ F = K..(k - 2)
      OBVIOUS
    <3>8. Holds(list, F) /\ k - 1 \notin F
      BY <3>4, <3>5, <3>7
    <3> HIDE DEF Bad, g, W
    <3>9. Holds(Push(list, k - 1), F \cup {k - 1})
      BY <3>5, <3>8, PushHolds
    <3> QED
      BY <3>2, <3>5, <3>6, <3>7, <3>9
  <2> QED
    BY <2>1
<1> QED
  BY <1>0, <1>6 DEF UserPages
(* The loop that takes a run out of the list has a value after each turn. *)
LEMMA WithoutUnfolds ==
  ASSUME NEW list, NEW p \in Int, NEW n \in Nat
  PROVE  Without(list, p, n) =
           [j \in 0..n |-> IF j = 0 THEN list
                           ELSE Cleared(Erase(Without(list, p, n)[j - 1], p + j - 1), p + j - 1)]
<1> DEFINE Turn(l, j) == Cleared(Erase(l, p + j - 1), p + j - 1)
           W(k, f) == [j \in 0..k |-> IF j = 0 THEN list ELSE Turn(f[j - 1], j)]
           Bad == {k \in Nat : \A g : g # W(k, g)}
<1>1. ASSUME Bad # {} PROVE FALSE
  <2>0. Bad \in SUBSET Nat
    OBVIOUS
  <2>1. PICK k \in Bad : \A j \in Bad : k <= j
    BY <1>1, <2>0, Least
  <2>2. k \in Nat /\ \A g : g # W(k, g)
    OBVIOUS
  <2>3. k # 0
    <3> DEFINE e == [j \in 0..0 |-> list]
    <3>1. e = W(0, e)
      <4> HIDE DEF Turn
      <4>1. \A j \in 0..0 : j = 0
        OBVIOUS
      <4> QED
        BY <4>1
    <3> HIDE DEF e, W
    <3> QED
      BY <2>2, <3>1
  <2>4. k - 1 \in Nat /\ k - 1 \notin Bad
    <3>1. k - 1 \in Nat /\ ~(k <= k - 1)
      BY <2>2, <2>3
    <3> QED
      BY <2>1, <3>1
  <2>5. PICK g : g = W(k - 1, g)
    BY <2>4
  <2> DEFINE h == [j \in 0..k |-> IF j = k THEN Turn(g[k - 1], k) ELSE g[j]]
  <2> HIDE DEF Turn
  <2>6. ASSUME NEW j \in 0..k
        PROVE  h[j] = IF j = 0 THEN list ELSE Turn(h[j - 1], j)
    <3>1. CASE j = k
      <4>1. k - 1 \in 0..k /\ k - 1 # k /\ j # 0
        BY <2>2, <2>3, <3>1
      <4>2. h[j - 1] = g[k - 1]
        BY <3>1, <4>1
      <4> QED
        BY <3>1, <4>1, <4>2
    <3>2. CASE j # k
      <4>1. j \in 0..(k - 1) /\ h[j] = g[j]
        BY <2>2, <3>2
      <4>2. g[j] = IF j = 0 THEN list ELSE Turn(g[j - 1], j)
        BY <2>5, <4>1
      <4>3. j # 0 => j - 1 \in 0..k /\ j - 1 # k /\ h[j - 1] = g[j - 1]
        BY <2>2, <3>2
      <4> QED
        BY <4>1, <4>2, <4>3
    <3> QED
      BY <3>1, <3>2
  <2>7. h = [j \in 0..k |-> h[j]]
    OBVIOUS
  <2> HIDE DEF h
  <2>8. h = W(k, h)
    BY <2>6, <2>7
  <2> QED
    BY <2>2, <2>8
<1>2. \E g : g = W(n, g)
  BY <1>1
<1> QED
  BY <1>2, Zenon DEF Without

(* A run of pages of the list leaves it, when a page stays behind. *)
LEMMA WithoutHolds ==
  ASSUME NEW list, NEW F, Holds(list, F), NEW p \in Int, NEW n \in Nat,
         F \subseteq Pages, p..(p + n - 1) \subseteq F, list.size_ > n
  PROVE  Holds(Without(list, p, n)[n], F \ (p..(p + n - 1)))
<1>0. PICK after : after = Without(list, p, n)
  OBVIOUS
<1>1. after = [j \in 0..n |-> IF j = 0 THEN list
                              ELSE Cleared(Erase(after[j - 1], p + j - 1), p + j - 1)]
  BY <1>0, WithoutUnfolds
<1>2. list.size_ \in Nat
  BY HoldsCount DEF ListRecord
<1> DEFINE P(j) == /\ Holds(after[j], F \ (p..(p + j - 1)))
                   /\ after[j].size_ = list.size_ - j
           Bad == {j \in 0..n : ~P(j)}
<1>3. ASSUME Bad # {} PROVE FALSE
  <2>0. Bad \in SUBSET Nat
    OBVIOUS
  <2>1. PICK j \in Bad : \A k \in Bad : j <= k
    BY <1>3, <2>0, Least
  <2>2. j \in 0..n /\ ~P(j)
    OBVIOUS
  <2>3. j # 0
    <3>1. after[0] = list
      BY <1>1
    <3>2. F \ (p..(p + 0 - 1)) = F /\ list.size_ - 0 = list.size_
      BY <1>2
    <3> QED
      BY <2>2, <3>1, <3>2
  <2>4. j - 1 \in 0..n /\ j - 1 \notin Bad
    <3>1. j - 1 \in 0..n /\ ~(j <= j - 1)
      BY <2>2, <2>3
    <3> QED
      BY <2>1, <3>1
  <2>5. PICK l, G, m : l = after[j - 1] /\ G = F \ (p..(p + (j - 1) - 1)) /\ m = p + j - 1
    OBVIOUS
  <2>6. Holds(l, G) /\ l.size_ = list.size_ - (j - 1)
    BY <2>4, <2>5
  <2>7. m \in G /\ G \ {m} = F \ (p..(p + j - 1)) /\ m \in Pages
    <3>1. m \in p..(p + n - 1) /\ m \notin p..(p + (j - 1) - 1)
      BY <2>2, <2>3, <2>5
    <3>2. p..(p + j - 1) = (p..(p + (j - 1) - 1)) \cup {m}
      BY <2>2, <2>3, <2>5
    <3> QED
      BY <2>5, <3>1, <3>2
  <2>8. l.size_ > 1 /\ l.size_ - 1 = list.size_ - j
    BY <1>2, <2>2, <2>3, <2>6
  <2>9. PICK e : e = Erase(l, m)
    OBVIOUS
  <2>10. Holds(e, G \ {m}) /\ e.size_ = l.size_ - 1
    BY <2>6, <2>7, <2>8, <2>9, EraseHolds
  <2>11. Holds(Cleared(e, m), G \ {m}) /\ Cleared(e, m).size_ = e.size_
    BY <2>7, <2>10, ClearedHolds
  <2>12. after[j] = Cleared(e, m)
    BY <1>1, <2>2, <2>3, <2>5, <2>9
  <2> QED
    BY <2>2, <2>7, <2>8, <2>10, <2>11, <2>12
<1>4. n \in 0..n
  OBVIOUS
<1> QED
  BY <1>0, <1>3, <1>4
-----------------------------------------------------------------------------
(* The search for a run *)

(* The loops over bytes and shifts stop at a candidate when there is one. *)
LEMMA FirstIn ==
  ASSUME NEW C, C \subseteq Bytes \X (0..(ByteBits - 1)), C # {}
  PROVE  First(C) \in C
<1>1. PICK B \in Int : B = PageNum \div ByteBits
  BY PageFacts
<1>2. \A c \in C : c[1] \in 0..(B - 1) /\ c[2] \in 0..(ByteBits - 1)
  BY <1>1 DEF Bytes
<1> DEFINE S == {B - c[1] : c \in C}
<1>3. S \in SUBSET Nat /\ S # {}
  <2>1. \A c \in C : B - c[1] \in Nat
    BY <1>2
  <2> QED
    BY <2>1
<1>4. PICK x \in S : \A y \in S : x <= y
  BY <1>3, Least
<1>5. PICK c \in C : x = B - c[1]
  OBVIOUS
<1>6. \A d \in C : d[1] <= c[1]
  <2>1. ASSUME NEW d \in C PROVE d[1] <= c[1]
    <3>1. B - d[1] \in S
      OBVIOUS
    <3>2. B - c[1] <= B - d[1]
      BY <1>4, <1>5, <3>1
    <3>3. c[1] \in Int /\ d[1] \in Int
      BY <1>2
    <3> QED
      BY <3>2, <3>3
  <2> QED
    BY <2>1
<1> DEFINE T == {d[2] : d \in {e \in C : e[1] = c[1]}}
<1>7. T \in SUBSET Nat /\ T # {}
  BY <1>2, PageFacts
<1>8. PICK z \in T : \A y \in T : z <= y
  BY <1>7, Least
<1>9. PICK f \in C : f[1] = c[1] /\ z = f[2]
  OBVIOUS
<1>10. ASSUME NEW d \in C PROVE d[1] < f[1] \/ (d[1] = f[1] /\ d[2] >= f[2])
  <2>1. d[1] \in Int /\ c[1] \in Int /\ d[1] <= c[1] /\ d[2] \in Int /\ f[2] \in Int
    BY <1>2, <1>6
  <2>2. d[1] = c[1] => d[2] \in T
    OBVIOUS
  <2>3. d[1] = c[1] => f[2] <= d[2]
    BY <1>8, <1>9, <2>2
  <2> QED
    BY <1>9, <2>1, <2>3
<1> HIDE DEF S, T
<1> QED
  BY <1>10, Zenon DEF First

(* Pages of a byte. *)
LEMMA BytePages ==
  ASSUME NEW c \in Bytes
  PROVE  /\ c \in Nat
         /\ c * ByteBits \in Nat
         /\ c * ByteBits + ByteBits <= PageNum
         /\ c # 0 => c * ByteBits >= ByteBits
<1>1. PICK B \in Int : B = PageNum \div ByteBits
  BY PageFacts
<1>2. PageNum = ByteBits * B + (PageNum % ByteBits)
  BY <1>1, PageFacts, DivMod
<1>3. PageNum = ByteBits * B
  BY <1>2, PageAssumption
<1>4. c \in 0..(B - 1)
  BY <1>1 DEF Bytes
<1>5. PICK d \in Nat : d = B - 1 - c
  BY <1>4
<1>6. PageNum = ByteBits * c + ByteBits + ByteBits * d
  BY <1>3, <1>4, <1>5, PageFacts
<1>7. ByteBits * d >= 0 /\ c * ByteBits = ByteBits * c /\ c * ByteBits \in Nat
  BY <1>4, <1>5, PageFacts
<1>8. c # 0 => c * ByteBits >= ByteBits
  <2>1. c # 0 => \E e \in Nat : c = e + 1
    <3>1. c # 0 => c - 1 \in Nat /\ c = (c - 1) + 1
      BY <1>4
    <3> QED
      BY <3>1
  <2>2. ASSUME NEW e \in Nat, c = e + 1 PROVE c * ByteBits >= ByteBits
    <3>1. c * ByteBits = e * ByteBits + ByteBits /\ e * ByteBits >= 0
      BY <2>2, PageFacts
    <3> QED
      BY <3>1, PageFacts
  <2> QED
    BY <2>1, <2>2
<1> QED
  BY <1>4, <1>6, <1>7, <1>8, PageFacts

(* What the masks let through is a run of free pages.  Byte 0 never is: its *)
(* pages are the kernel's, so the code never looks at the byte below it.    *)
LEMMA RunFree ==
  ASSUME MasksSelect, NEW n \in Runs, NEW found \in Candidates(n),
         Pages \ UserPages \subseteq bit_map_
  PROVE  LET page_index == found[1] * ByteBits + ByteBits - n - found[2]
         IN page_index \in Int /\ page_index..(page_index + n - 1) \subseteq Pages \ bit_map_
<1>1. PICK c, i, t : c = found[1] /\ i = found[2] /\ t = Mask(n, i)
  OBVIOUS
<1>2. c \in Bytes /\ i \in 0..(ByteBits - 1) /\ Fits(c, n, i)
  BY <1>1 DEF Candidates
<1>3. /\ c \in Nat /\ c * ByteBits \in Nat /\ c * ByteBits + ByteBits <= PageNum
      /\ c # 0 => c * ByteBits >= ByteBits
  BY <1>2, BytePages
<1>4. n \in 1..ByteBits /\ ByteBits \in Nat /\ PageNum \in Nat /\ i \in Nat /\ i <= ByteBits - 1
  BY <1>2, PageAssumption
<1>5. PICK up, lo, low : /\ up = t \div 2^ByteBits
                         /\ lo = (t * (2^ByteBits - 1)) % 2^ByteBits
                         /\ low = t % 2^ByteBits
  OBVIOUS
<1>6. NoneSet(c, up) /\ (low = 0 \/ NoneSet(c - 1, lo))
  BY <1>1, <1>2, <1>5 DEF Fits
<1>7. \A b \in (ByteBits - n - i)..(ByteBits - 1 - i) :
        IF b >= 0 THEN b \in Bits(up) ELSE low # 0 /\ b + ByteBits \in Bits(lo)
  BY <1>1, <1>2, <1>5 DEF MasksSelect
<1>8. ASSUME NEW b \in (ByteBits - n - i)..(ByteBits - 1 - i)
      PROVE  c * ByteBits + b \notin bit_map_
  <2>1. CASE b >= 0
    BY <1>6, <1>7, <2>1 DEF NoneSet
  <2>2. CASE ~(b >= 0)
    <3>1. b + ByteBits \in Bits(lo) /\ NoneSet(c - 1, lo)
      BY <1>6, <1>7, <2>2
    <3>2. (c - 1) * ByteBits + (b + ByteBits) \notin bit_map_
      BY <3>1 DEF NoneSet
    <3>3. (c - 1) * ByteBits = c * ByteBits - ByteBits
      BY <1>3, <1>4
    <3>4. (c - 1) * ByteBits + (b + ByteBits) = c * ByteBits + b
      BY <1>3, <1>4, <3>3
    <3> QED
      BY <3>2, <3>4
  <2> QED
    BY <2>1, <2>2
<1>9. c # 0
  <2>1. ASSUME c = 0 PROVE FALSE
    <3>1. ByteBits - 1 - i \in (ByteBits - n - i)..(ByteBits - 1 - i)
      BY <1>4
    <3>2. c * ByteBits + (ByteBits - 1 - i) = ByteBits - 1 - i
      BY <1>3, <1>4, <2>1
    <3>3. ByteBits - 1 - i \notin bit_map_
      BY <1>8, <3>1, <3>2
    <3>4. ByteBits - 1 - i \in Pages \ UserPages
      BY <1>4, PageFacts DEF Pages, UserPages
    <3> QED
      BY <3>3, <3>4
  <2> QED
    BY <2>1
<1> DEFINE page_index == c * ByteBits + ByteBits - n - i
<1>10. PICK C \in Nat : C = c * ByteBits
  BY <1>3
<1>11. C >= ByteBits /\ C + ByteBits <= PageNum
  BY <1>3, <1>9, <1>10
<1>12. ASSUME NEW q \in page_index..(page_index + n - 1)
       PROVE  q \in Pages \ bit_map_
  <2>1. PICK b \in Int : b = q - C
    BY <1>4, <1>10
  <2>2. b \in (ByteBits - n - i)..(ByteBits - 1 - i) /\ q = C + b
    BY <1>4, <1>10, <2>1
  <2>3. q \notin bit_map_
    BY <1>8, <1>10, <2>2
  <2>4. q \in Pages
    BY <1>4, <1>11, <2>2 DEF Pages
  <2> QED
    BY <2>3, <2>4
<1>13. page_index \in Int
  BY <1>4, <1>10
<1> QED
  BY <1>1, <1>12, <1>13
-----------------------------------------------------------------------------
(* The invariant *)

LEMMA InitHolds == Init => IInv
<1> SUFFICES ASSUME Init PROVE IInv
  OBVIOUS
<1>1. bit_map_ = Pages \ UserPages /\ Pages \ bit_map_ = UserPages
  BY PageFacts DEF Init
<1>2. Holds(memory_list_, Pages \ bit_map_)
  BY <1>1, FilledHolds DEF Init
<1> QED
  BY <1>1, <1>2 DEF Init, IInv

(* Alloc takes the first page of the list. *)
LEMMA AllocKeeps ==
  ASSUME IInv, Alloc
  PROVE  /\ IInv'
         /\ \/ UNCHANGED <<memory_list_, bit_map_, returned>>
            \/ \E m \in Pages \ bit_map_ : bit_map_' = bit_map_ \cup {m} /\ returned' = {m}
<1>1. CASE memory_list_.head_ # Null
  <2>1. PICK list, F, m : list = memory_list_ /\ F = Pages \ bit_map_ /\ m = list.head_
    OBVIOUS
  <2>2. Holds(list, F) /\ list.head_ # Null
    BY <1>1, <2>1 DEF IInv
  <2>3. m \in F /\ m \in Pages /\ Holds(Pop(list), F \ {m})
    BY <2>1, <2>2, PopHolds
  <2>4. PICK l : l = Pop(list)
    OBVIOUS
  <2>5. Holds(Cleared(l, m), F \ {m})
    BY <2>3, <2>4, ClearedHolds
  <2>6. /\ memory_list_' = Cleared(l, m) /\ bit_map_' = bit_map_ \cup {m}
        /\ returned' = {m} /\ faulted' = faulted
    BY <1>1, <2>1, <2>4 DEF Alloc
  <2>7. Pages \ bit_map_' = F \ {m}
    BY <2>1, <2>6
  <2>8. Holds(memory_list_', Pages \ bit_map_')
    BY <2>5, <2>6, <2>7
  <2> QED
    BY <2>1, <2>3, <2>6, <2>8 DEF IInv
<1>2. CASE memory_list_.head_ = Null
  <2>1. UNCHANGED <<memory_list_, bit_map_, returned>> /\ faulted' = TRUE
    BY <1>2 DEF Alloc
  <2> QED
    BY <2>1 DEF IInv
<1> QED
  BY <1>1, <1>2

(* FreePage puts a page in front of it. *)
LEMMA FreeKeeps ==
  ASSUME IInv, NEW m \in Pages, FreePage(m)
  PROVE  IInv'
<1>1. PICK list, F : list = memory_list_ /\ F = Pages \ bit_map_
  OBVIOUS
<1>2. Holds(list, F) /\ m \notin F
  BY <1>1 DEF IInv, FreePage
<1>3. Holds(Push(list, m), F \cup {m})
  BY <1>2, PushHolds
<1>4. /\ memory_list_' = Push(list, m) /\ bit_map_' = bit_map_ \ {m}
      /\ returned' = {} /\ faulted' = faulted /\ m \in UserPages
  BY <1>1 DEF FreePage
<1>5. Pages \ bit_map_' = F \cup {m}
  BY <1>1, <1>4
<1>6. Holds(memory_list_', Pages \ bit_map_')
  BY <1>3, <1>4, <1>5
<1> QED
  BY <1>4, <1>6 DEF IInv

(* AllocContinuousPage takes a run of free pages out of it. *)
LEMMA RunKeeps ==
  ASSUME RunsFit, IInv, NEW n \in Runs, memory_list_.size_ >= n + Spare, AllocContinuousPage(n)
  PROVE  /\ IInv'
         /\ \E p \in Int :
              /\ p..(p + n - 1) \subseteq Pages \ bit_map_
              /\ bit_map_' = bit_map_ \cup p..(p + n - 1)
              /\ returned' = p..(p + n - 1)
<1>1. PICK list, F : list = memory_list_ /\ F = Pages \ bit_map_
  OBVIOUS
<1>2. PICK found : found = First(Candidates(n))
  OBVIOUS
<1>3. PICK p : p = found[1] * ByteBits + ByteBits - n - found[2]
  OBVIOUS
<1>4. /\ Candidates(n) # {}
      /\ memory_list_' = Without(list, p, n)[n]
      /\ bit_map_' = bit_map_ \cup p..(p + n - 1)
      /\ returned' = p..(p + n - 1)
      /\ faulted' = faulted
  BY <1>1, <1>2, <1>3, Zenon DEF AllocContinuousPage
<1>5. found \in Candidates(n)
  BY <1>2, <1>4, FirstIn DEF Candidates
<1>6. p \in Int /\ p..(p + n - 1) \subseteq Pages \ bit_map_
  BY <1>3, <1>5, RunFree DEF RunsFit, IInv
<1>7. n \in Nat /\ Spare \in Nat /\ Spare >= 1
  BY PageAssumption DEF RunsFit
<1>8. Holds(list, F) /\ F \subseteq Pages
  BY <1>1 DEF IInv
<1>9. list.size_ > n
  <2>1. list.size_ \in Nat
    <3>1. list \in ListRecord
      BY <1>8, HoldsCount
    <3> QED
      BY <3>1 DEF ListRecord
  <2> QED
    BY <1>1, <1>7, <2>1
<1>10. Holds(Without(list, p, n)[n], F \ (p..(p + n - 1)))
  BY <1>1, <1>6, <1>7, <1>8, <1>9, WithoutHolds
<1>11. Pages \ bit_map_' = F \ (p..(p + n - 1))
  BY <1>1, <1>4
<1>12. Holds(memory_list_', Pages \ bit_map_')
  BY <1>4, <1>10, <1>11
<1>13. bit_map_' \in SUBSET Pages /\ returned' \in SUBSET Pages /\ bit_map_ \subseteq bit_map_'
  BY <1>4, <1>6 DEF IInv
<1> QED
  BY <1>4, <1>6, <1>12, <1>13 DEF IInv

(* The free list holds exactly the pages with a clear bit, whatever sequence *)
(* of Alloc, AllocContinuousPage and FreePage has run.                       *)
THEOREM Inductive ==
  ASSUME RunsFit
  PROVE  Spec => []IInv
<1>1. IInv /\ [Next]_vars => IInv'
  <2> SUFFICES ASSUME IInv, [Next]_vars PROVE IInv'
    OBVIOUS
  <2>1. CASE Alloc
    BY <2>1, AllocKeeps
  <2>2. ASSUME NEW m \in Pages, FreePage(m) PROVE IInv'
    BY <2>2, FreeKeeps
  <2>3. ASSUME NEW n \in Runs, memory_list_.size_ >= n + Spare, AllocContinuousPage(n)
        PROVE  IInv'
    BY <2>3, RunKeeps
  <2>4. CASE UNCHANGED vars
    BY <2>4 DEF IInv, vars
  <2> QED
    BY <2>1, <2>2, <2>3, <2>4 DEF Next
<1> QED
  BY <1>1, InitHolds, PTL DEF Spec
(* What the walk from head_ finds is the order of the list, and its pages   *)
(* are the pages with a clear bit.                                          *)
LEMMA FreeIsOnList ==
  ASSUME IInv
  PROVE  \E s : /\ Linked(memory_list_, s)
                /\ Members(memory_list_, s) = Pages \ bit_map_
                /\ memory_list_.size_ = Cardinality(Pages \ bit_map_)
                /\ memory_list_.size_ \in 0..PageNum
                /\ Chunks = [k \in 0..PageNum |->
                               IF k < memory_list_.size_ THEN s[k + 1] ELSE Null]
                /\ {Chunks[k] : k \in 0..PageNum} \ {Null} = Pages \ bit_map_
<1>0. PICK F : F = Pages \ bit_map_
  OBVIOUS
<1>1. PICK s : Linked(memory_list_, s) /\ Members(memory_list_, s) = F
  BY <1>0 DEF IInv, Holds
<1>2. /\ memory_list_.size_ = Cardinality(F)
      /\ memory_list_.size_ \in 0..PageNum
  BY <1>0, HoldsCount DEF IInv
<1>3. PICK n \in 0..PageNum : n = memory_list_.size_
  BY <1>2
<1>4. PICK chunks : chunks = Chunks
  OBVIOUS
<1>5. chunks = [k \in 0..PageNum |-> IF k < n THEN s[k + 1] ELSE Null]
  BY <1>1, <1>2, <1>3, <1>4, WalkFinds
<1>6. {chunks[k] : k \in 0..PageNum} \ {Null} = F
  <2>1. F = {s[i] : i \in 1..n} /\ Null \notin F
    BY <1>0, <1>1, <1>3, PageFacts DEF Members
  <2>2. ASSUME NEW k \in 0..PageNum, chunks[k] # Null PROVE chunks[k] \in F
    <3>1. k < n /\ chunks[k] = s[k + 1]
      BY <1>5, <2>2
    <3>2. k + 1 \in 1..n
      BY <3>1, PageFacts
    <3> QED
      BY <2>1, <3>1, <3>2
  <2>3. ASSUME NEW i \in 1..n PROVE \E k \in 0..PageNum : chunks[k] = s[i]
    <3>1. i - 1 \in 0..PageNum /\ i - 1 < n /\ (i - 1) + 1 = i
      BY PageFacts
    <3>2. chunks[i - 1] = s[i]
      BY <1>5, <3>1
    <3> QED
      BY <3>1, <3>2
  <2> QED
    BY <2>1, <2>2, <2>3
<1> QED
  BY <1>0, <1>1, <1>2, <1>3, <1>4, <1>5, <1>6

(* Every variable has its type: the links never leave the memory. *)
THEOREM TypeCorrect ==
  ASSUME RunsFit
  PROVE  Spec => []TypeOK
<1>1. IInv => TypeOK
  <2> SUFFICES ASSUME IInv PROVE TypeOK
    OBVIOUS
  <2>1. memory_list_ \in ListRecord /\ memory_list_.size_ \in 0..PageNum
    <3>1. PICK list, F : list = memory_list_ /\ F = Pages \ bit_map_
      OBVIOUS
    <3>2. Holds(list, F) /\ F \subseteq Pages
      BY <3>1 DEF IInv
    <3> QED
      BY <3>1, <3>2, HoldsCount
  <2> QED
    BY <2>1 DEF IInv, TypeOK, ListRecord, PageOrNull
<1> QED
  BY <1>1, Inductive, PTL

(* The free list and the bitmap never disagree on which pages are free: the *)
(* list that Alloc pops holds each page whose bit AllocContinuousPage finds *)
(* clear once, and its links, head_, tail_ and size_ fit.                   *)
THEOREM ListCorrect ==
  ASSUME RunsFit
  PROVE  Spec => []ListMatchesBitmap
<1>1. IInv => ListMatchesBitmap
  <2> SUFFICES ASSUME IInv PROVE ListMatchesBitmap
    OBVIOUS
  <2>1. PICK s :
          /\ Linked(memory_list_, s)
          /\ Members(memory_list_, s) = Pages \ bit_map_
          /\ memory_list_.size_ = Cardinality(Pages \ bit_map_)
          /\ memory_list_.size_ \in 0..PageNum
          /\ Chunks = [k \in 0..PageNum |->
                         IF k < memory_list_.size_ THEN s[k + 1] ELSE Null]
          /\ {Chunks[k] : k \in 0..PageNum} \ {Null} = Pages \ bit_map_
    BY FreeIsOnList
  <2>2. PICK list, chunks, free, n :
          /\ list = memory_list_ /\ chunks = Chunks /\ free = Pages \ bit_map_
          /\ n = list.size_
    OBVIOUS
  <2>3. Linked(list, s) /\ Members(list, s) = free /\ n \in 0..PageNum
    BY <2>1, <2>2
  <2>4. /\ s \in [1..n -> Pages] /\ \A i, j \in 1..n : s[i] = s[j] => i = j
        /\ n = 0 => list.head_ = Null /\ list.tail_ = Null
        /\ n > 0 => list.head_ = s[1] /\ list.tail_ = s[n]
        /\ \A j \in 1..n : /\ list.identify[s[j]]
                           /\ list.next[s[j]] = IF j = n THEN Null ELSE s[j + 1]
                           /\ list.previous[s[j]] = IF j = 1 THEN Null ELSE s[j - 1]
    BY <2>2, <2>3 DEF Linked
  <2>5. /\ n \in 0..PageNum /\ n \in Nat /\ PageNum \in Nat
        /\ chunks = [k \in 0..PageNum |-> IF k < n THEN s[k + 1] ELSE Null]
        /\ free = {s[i] : i \in 1..n}
        /\ \A i, j \in 1..n : s[i] = s[j] => i = j
        /\ \A i \in 1..n : s[i] \in Pages /\ s[i] # Null
    <3>1. chunks = [k \in 0..PageNum |-> IF k < n THEN s[k + 1] ELSE Null]
      BY <2>1, <2>2
    <3>2. free = {s[i] : i \in 1..n}
      BY <2>2, <2>3 DEF Members
    <3> QED
      BY <2>3, <2>4, <3>1, <3>2, PageFacts
  <2>6. chunks[n] = Null
    BY <2>5
  <2>7. list.tail_ = IF n = 0 THEN Null ELSE chunks[n - 1]
    <3>1. n = 0 => list.tail_ = Null
      BY <2>4
    <3>2. n # 0 => list.tail_ = s[n] /\ chunks[n - 1] = s[n]
      <4>1. n # 0 => n > 0 /\ n - 1 \in 0..PageNum /\ n - 1 < n /\ (n - 1) + 1 = n
        BY <2>5
      <4> QED
        BY <2>4, <2>5, <4>1
    <3> QED
      BY <3>1, <3>2
  <2>8. ASSUME NEW m \in free
        PROVE  /\ list.identify[m]
               /\ list.previous[m] = Null <=> m = list.head_
               /\ list.next[m] # Null => list.previous[list.next[m]] = m
    <3>1. PICK i \in 1..n : m = s[i]
      BY <2>5
    <3>2. \A j \in 1..n : /\ list.identify[s[j]]
                          /\ list.next[s[j]] = IF j = n THEN Null ELSE s[j + 1]
                          /\ list.previous[s[j]] = IF j = 1 THEN Null ELSE s[j - 1]
      BY <2>4
    <3>3. list.head_ = s[1] /\ 1 \in 1..n
      BY <2>4, <2>5
    <3>4. list.previous[m] = Null <=> i = 1
      <4>1. i # 1 => i - 1 \in 1..n
        BY <2>5
      <4> QED
        BY <2>5, <3>1, <3>2, <4>1
    <3>5. m = list.head_ <=> i = 1
      BY <2>5, <3>1, <3>3
    <3>6. list.next[m] # Null => list.previous[list.next[m]] = m
      <4>1. i # n => i + 1 \in 1..n /\ i + 1 # 1 /\ (i + 1) - 1 = i
        BY <2>5
      <4> QED
        BY <3>1, <3>2, <4>1
    <3> QED
      BY <3>1, <3>2, <3>4, <3>5, <3>6
  <2>9. PICK found : found = {Chunks[k] : k \in 0..PageNum} \ {Null}
    OBVIOUS
  <2>10. found = Pages \ bit_map_ /\ found = free /\ Cardinality(found) = memory_list_.size_
    BY <2>1, <2>2, <2>9
  <2>11. /\ Chunks[memory_list_.size_] = Null
        /\ memory_list_.tail_ =
             IF memory_list_.size_ = 0 THEN Null ELSE Chunks[memory_list_.size_ - 1]
    BY <2>2, <2>6, <2>7
  <2>12. \A m \in found :
           /\ memory_list_.identify[m]
           /\ memory_list_.previous[m] = Null <=> m = memory_list_.head_
           /\ memory_list_.next[m] # Null => memory_list_.previous[memory_list_.next[m]] = m
    BY <2>2, <2>8, <2>10
  <2> QED
    BY <2>9, <2>10, <2>11, <2>12, Zenon DEF ListMatchesBitmap
<1> QED
  BY <1>1, Inductive, PTL
(* In every state the pages on the list are the pages with a clear bit. *)
LEMMA OnListIsFree == IInv => OnList = Pages \ bit_map_
<1> SUFFICES ASSUME IInv PROVE OnList = Pages \ bit_map_
  OBVIOUS
<1>1. {Chunks[k] : k \in 0..PageNum} \ {Null} = Pages \ bit_map_
  BY FreeIsOnList, Zenon
<1> QED
  BY <1>1, Zenon DEF OnList

(* The allocator is a set of free pages: no page is handed out twice, and   *)
(* a run that AllocContinuousPage returns was free, every page of it, for   *)
(* any size of memory.                                                      *)
THEOREM PoolRefined ==
  ASSUME RunsFit
  PROVE  Spec => ImplementsPool
<1>1. Init => Pool!Init
  <2> SUFFICES ASSUME Init PROVE Pool!Init
    OBVIOUS
  <2>1. OnList = Pages \ bit_map_
    BY InitHolds, OnListIsFree
  <2>2. OnList = UserPages
    BY <2>1, PageFacts DEF Init
  <2> QED
    BY <2>2 DEF Init, Pool!Init
<1>2. (IInv => OnList = Pages \ bit_map_)'
  BY OnListIsFree, PTL
<1>3. IInv /\ IInv' /\ [Next]_vars => [Pool!Next]_Pool!vars
  <2> SUFFICES ASSUME IInv, IInv', [Next]_vars PROVE [Pool!Next]_Pool!vars
    OBVIOUS
  <2>1. PICK free, freed : /\ free = OnList /\ free = Pages \ bit_map_
                           /\ freed = OnList' /\ freed = Pages \ bit_map_'
    BY <1>2, OnListIsFree
  <2>2. CASE UNCHANGED <<bit_map_, returned>>
    BY <2>1, <2>2 DEF Pool!vars
  <2>3. ASSUME NEW m \in Pages \ bit_map_, bit_map_' = bit_map_ \cup {m}, returned' = {m}
        PROVE  Pool!Next
    <3>1. m \in free /\ {m} \subseteq free /\ freed = free \ {m}
      BY <2>1, <2>3
    <3> QED
      BY <2>1, <2>3, <3>1 DEF Pool!Next, Pool!Take, Pool!Hand
  <2>4. ASSUME NEW m \in Pages, FreePage(m) PROVE Pool!Next
    <3>1. m \in UserPages \ free /\ freed = free \cup {m} /\ returned' = {}
      BY <2>1, <2>4 DEF FreePage
    <3> QED
      BY <2>1, <3>1 DEF Pool!Next, Pool!Give
  <2>5. ASSUME NEW n \in Runs, NEW p \in Int,
               p..(p + n - 1) \subseteq Pages \ bit_map_,
               bit_map_' = bit_map_ \cup p..(p + n - 1), returned' = p..(p + n - 1)
        PROVE  Pool!Next
    <3>1. p..(p + n - 1) \subseteq free /\ freed = free \ (p..(p + n - 1))
      BY <2>1, <2>5
    <3>2. p \in free
      <4>1. p \in p..(p + n - 1)
        BY PageAssumption
      <4> QED
        BY <3>1, <4>1
    <3> QED
      BY <2>1, <2>5, <3>1, <3>2 DEF Pool!Next, Pool!TakeRun, Pool!Hand
  <2>6. CASE Alloc
    BY <2>2, <2>3, <2>6, AllocKeeps
  <2>7. ASSUME NEW n \in Runs, memory_list_.size_ >= n + Spare, AllocContinuousPage(n)
        PROVE  Pool!Next
    BY <2>5, <2>7, RunKeeps
  <2>8. CASE UNCHANGED vars
    BY <2>2, <2>8 DEF vars
  <2> QED
    BY <2>4, <2>6, <2>7, <2>8 DEF Next
<1> QED
  BY <1>1, <1>3, Inductive, PTL DEF Spec, ImplementsPool, Pool!Spec
=============================================================================
