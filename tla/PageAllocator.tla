---------------------------- MODULE PageAllocator ----------------------------
(***************************************************************************)
(* The page allocator of kernel/virtual_memory.cc: the doubly linked free  *)
(* list that lives inside the free pages, and the bitmap beside it.  Every *)
(* operation runs in a CriticalGuard and is one step.                      *)
(***************************************************************************)
EXTENDS Integers, FiniteSets

CONSTANTS
  PageNum,      \* pages from KERNEL_BASE to MEMORY_END
  KernelPages,  \* those of them below memory_beg
  ByteBits,     \* 8: bits of an entry of bit_map_, and max_page_num
  Runs,         \* the lengths that AllocContinuousPage is called with
  Spare,        \* pages that a call of AllocContinuousPage leaves on the list
  Null

Pages == 0..(PageNum - 1)
UserPages == KernelPages..(PageNum - 1)
Bytes == 0..(PageNum \div ByteBits - 1)

ASSUME PageAssumption ==
  /\ ByteBits \in Nat \ {0}
  /\ PageNum \in Nat \ {0}
  /\ PageNum % ByteBits = 0
  /\ KernelPages \in ByteBits..(PageNum - 1)
  /\ Runs \subseteq 1..ByteBits
  /\ Spare \in Nat
  /\ Null \notin Pages

VARIABLES
  memory_list_,  \* head_, tail_, size_, and next, previous and identify of every page
  bit_map_,      \* the pages whose bit is set
  returned,      \* the pages whose address the last call gave to its caller
  faulted        \* Alloc has cleared the page at address 0

vars == <<memory_list_, bit_map_, returned, faulted>>

-----------------------------------------------------------------------------
(* MemoryList                                                              *)

\* The chunk of a page that memset has cleared.
Cleared(list, m) ==
  [list EXCEPT !.next[m] = Null, !.previous[m] = Null, !.identify[m] = FALSE]

\* A Push that does not count.
PushUncounted(list, m) ==
  [head_    |-> m,
   tail_    |-> IF list.head_ = Null THEN m ELSE list.tail_,
   size_    |-> list.size_,
   next     |-> [list.next EXCEPT ![m] = list.head_],
   previous |-> [p \in Pages |-> IF p = m THEN Null
                                 ELSE IF p = list.head_ THEN m ELSE list.previous[p]],
   identify |-> [list.identify EXCEPT ![m] = TRUE]]

Push(list, m) ==
  [head_    |-> m,
   tail_    |-> IF list.head_ = Null THEN m ELSE list.tail_,
   size_    |-> list.size_ + 1,
   next     |-> [list.next EXCEPT ![m] = list.head_],
   previous |-> [p \in Pages |-> IF p = m THEN Null
                                 ELSE IF p = list.head_ THEN m ELSE list.previous[p]],
   identify |-> [list.identify EXCEPT ![m] = TRUE]]

\* The list behind a Pop that found a chunk.
Pop(list) ==
  LET h == list.next[list.head_] IN
  [list EXCEPT !.head_ = h,
               !.size_ = @ - 1,
               !.tail_ = IF h = Null THEN Null ELSE @,
               !.previous = [p \in Pages |-> IF p = h THEN Null ELSE @[p]]]

\* Erase returns false without a change for a chunk of no list and for a chunk
\* without neighbours, the only chunk of a list among them.
Erasable(list, m) ==
  /\ list.identify[m]
  /\ list.next[m] # Null \/ list.previous[m] # Null
  /\ list.next[m] = Null => m = list.tail_

\* An Erase that does not move tail_.
EraseKeepsTail(list, m) ==
  LET n == list.next[m]
      p == list.previous[m]
  IN IF ~ Erasable(list, m) THEN list
     ELSE [list EXCEPT !.previous = [q \in Pages |-> IF q = n THEN p ELSE @[q]],
                       !.next = [q \in Pages |-> IF q = p THEN n ELSE @[q]],
                       !.head_ = IF p = Null THEN n ELSE @,
                       !.size_ = @ - 1]

\* The chunk's own links keep their values; memset clears them afterwards.
Erase(list, m) ==
  LET n == list.next[m]
      p == list.previous[m]
      unlinked == [list EXCEPT !.tail_ = IF n = Null THEN p ELSE @,
                               !.previous = [q \in Pages |-> IF q = n THEN p ELSE @[q]]]
  IN IF ~ Erasable(list, m) THEN list
     ELSE IF p = Null /\ m # list.head_ THEN unlinked
     ELSE [unlinked EXCEPT !.head_ = IF p = Null THEN n ELSE @,
                           !.next = [q \in Pages |-> IF q = p THEN n ELSE @[q]],
                           !.size_ = @ - 1]

-----------------------------------------------------------------------------
(* VirtualMemory                                                           *)

\* Alloc clears what Pop returned without a test for null: on an empty list
\* that is a store to address 0 in machine mode.
Alloc ==
  \/ /\ memory_list_.head_ # Null
     /\ memory_list_' = Cleared(Pop(memory_list_), memory_list_.head_)
     /\ bit_map_' = bit_map_ \cup {memory_list_.head_}
     /\ returned' = {memory_list_.head_}
     /\ UNCHANGED faulted
  \/ /\ memory_list_.head_ = Null
     /\ faulted' = TRUE
     /\ UNCHANGED <<memory_list_, bit_map_, returned>>

\* Its callers free the pages they own.
FreePage(m) ==
  /\ m \in bit_map_ \cap UserPages
  /\ memory_list_' = Push(memory_list_, m)
  /\ bit_map_' = bit_map_ \ {m}
  /\ returned' = {}
  /\ UNCHANGED faulted

\* The bits of a number that lie in a byte.
Bits(mask) == {b \in 0..(ByteBits - 1) : (mask \div 2^b) % 2 = 1}

\* (bit_map_[byte] & mask) == 0, where mask is a number.
NoneSet(byte, mask) == \A b \in Bits(mask) : byte * ByteBits + b \notin bit_map_

\* t_mask: n ones in two bytes, i places from the top.
Mask(n, i) == ((2^n - 1) * 2^(2 * ByteBits - n)) \div 2^i

\* A test of the upper byte alone.
FitsUpperByte(byte, n, i) == NoneSet(byte, Mask(n, i) \div 2^ByteBits)

\* The test of AllocContinuousPage.  Its `t_mask * 0xff' is & with a byte: the
\* low bits of the product count.
Fits(byte, n, i) ==
  LET t_mask == Mask(n, i)
      low == t_mask % 2^ByteBits
  IN /\ NoneSet(byte, t_mask \div 2^ByteBits)
     /\ low = 0 \/ NoneSet(byte - 1, (t_mask * (2^ByteBits - 1)) % 2^ByteBits)

\* What the masks are for: a bit in them stands for each page of the run, in
\* the byte above or, below 0, in the byte under it.
MasksSelect ==
  \A n \in Runs, i \in 0..(ByteBits - 1) :
    LET t_mask == Mask(n, i) IN
    \A b \in (ByteBits - n - i)..(ByteBits - 1 - i) :
      IF b >= 0 THEN b \in Bits(t_mask \div 2^ByteBits)
      ELSE /\ t_mask % 2^ByteBits # 0
           /\ b + ByteBits \in Bits((t_mask * (2^ByteBits - 1)) % 2^ByteBits)

\* The byte and the shift that the two loops stop at: the last byte, the first shift.
Candidates(n) == {c \in Bytes \X (0..(ByteBits - 1)) : Fits(c[1], n, c[2])}

First(candidates) ==
  CHOOSE c \in candidates :
    \A d \in candidates : d[1] < c[1] \/ (d[1] = c[1] /\ d[2] >= c[2])

\* The list after each turn of the loop that takes n pages out of it.
Without(list, page_index, n) ==
  LET after[j \in 0..n] ==
        IF j = 0 THEN list
        ELSE Cleared(Erase(after[j - 1], page_index + j - 1), page_index + j - 1)
  IN after

\* A call that finds no candidate returns null and changes nothing.
AllocContinuousPage(n) ==
  LET candidates == Candidates(n)
      found == First(candidates)
      page_index == found[1] * ByteBits + ByteBits - n - found[2]
  IN
  /\ candidates # {}
  /\ memory_list_' = Without(memory_list_, page_index, n)[n]
  /\ bit_map_' = bit_map_ \cup page_index..(page_index + n - 1)
  /\ returned' = page_index..(page_index + n - 1)
  /\ UNCHANGED faulted

EmptyList ==
  [head_ |-> Null, tail_ |-> Null, size_ |-> 0,
   next |-> [m \in Pages |-> Null], previous |-> [m \in Pages |-> Null],
   identify |-> [m \in Pages |-> FALSE]]

\* VirtualMemory::Init pushes the pages in address order.
Filled ==
  LET pushed[k \in KernelPages..PageNum] ==
        IF k = KernelPages THEN EmptyList ELSE Push(pushed[k - 1], k - 1)
  IN pushed

Init ==
  /\ memory_list_ = Filled[PageNum]
  /\ bit_map_ = Pages \ UserPages
  /\ returned = {}
  /\ faulted = FALSE

\* Runs are asked for while the list is long enough: Erase refuses its last chunk.
Next ==
  /\ ~ faulted
  /\ \/ Alloc
     \/ \E m \in Pages : FreePage(m)
     \/ \E n \in Runs : memory_list_.size_ >= n + Spare /\ AllocContinuousPage(n)

Spec == Init /\ [][Next]_vars

-----------------------------------------------------------------------------
(* Every variable has its type. *)
TypeOK ==
  /\ memory_list_ \in
       [head_: Pages \cup {Null}, tail_: Pages \cup {Null}, size_: 0..PageNum,
        next: [Pages -> Pages \cup {Null}], previous: [Pages -> Pages \cup {Null}],
        identify: [Pages -> BOOLEAN]]
  /\ bit_map_ \subseteq Pages
  /\ returned \subseteq Pages
  /\ faulted \in BOOLEAN

\* The chunks from head_ on, Null behind the last one.
Chunks ==
  LET walk[k \in 0..PageNum] ==
        IF k = 0 THEN memory_list_.head_
        ELSE IF walk[k - 1] = Null THEN Null ELSE memory_list_.next[walk[k - 1]]
  IN walk

OnList == LET chunks == Chunks IN {chunks[k] : k \in 0..PageNum} \ {Null}

(* The two records of what is free agree after any sequence of Alloc,       *)
(* AllocContinuousPage and FreePage: the list holds each page with a clear  *)
(* bit once, size_ of them, its links back mirror its links forward, and it *)
(* ends at tail_.                                                           *)
ListMatchesBitmap ==
  LET list == memory_list_
      chunks == Chunks
      free == {chunks[k] : k \in 0..PageNum} \ {Null}
  IN
  /\ free = Pages \ bit_map_
  /\ Cardinality(free) = list.size_
  /\ chunks[list.size_] = Null
  /\ list.tail_ = IF list.size_ = 0 THEN Null ELSE chunks[list.size_ - 1]
  /\ \A m \in free :
       /\ list.identify[m]
       /\ list.previous[m] = Null <=> m = list.head_
       /\ list.next[m] # Null => list.previous[list.next[m]] = m

(* Behind the free list the allocator is a set of free pages: what Alloc    *)
(* and AllocContinuousPage return was free and no longer is, so no page is  *)
(* handed out twice, and a run is a run of free pages.                      *)
Pool == INSTANCE PagePool WITH PoolPages <- UserPages, free <- OnList, handed <- returned

ImplementsPool == Pool!Spec
=============================================================================
