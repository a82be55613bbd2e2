------------------------------- MODULE UserHeap -------------------------------
(***************************************************************************)
(* malloc and free of the user library (lib/memory.cc) in the address      *)
(* spaces of AddressSpace.  The free blocks form a circular list that      *)
(* starts at a static header, base, below the heap; free_list points       *)
(* anywhere into it.  The heap is part of the program's memory: fork       *)
(* copies it and exec starts with an empty one.  A unit, the size of a     *)
(* Header, is a cell.                                                      *)
(***************************************************************************)
EXTENDS AddressSpace

CONSTANTS
  Sizes,       \* the sizes programs ask for, in units with the header
  GrowUnits,   \* unites_per_3_page
  MaxUserOps   \* bound on the calls of malloc and free and the stores

\* The header base is in a segment of the program.  malloc(0) would ask for one
\* unit, which is what base has.
ASSUME HeapAssumption ==
  /\ Slots \subseteq Nat
  /\ PageSize \in Nat \ {0, 1}
  /\ Sizes \subseteq Nat \ {0, 1}
  /\ GrowUnits \in Nat \ {0}
  /\ InitImage.type = "exec"
  /\ \A image \in Images \cup {InitImage} : image.type = "exec" =>
       \E i \in 1..Len(image.segs) : image.segs[i].beg + image.segs[i].memsz > 0

VARIABLES
  heap,      \* the list, and the blocks the program holds
  userOps

allVars == <<vars, heap, userOps>>

Base == 0

\* MemManager's constructor.
EmptyHeap == [next |-> [a \in {Base} |-> Base], size |-> [a \in {Base} |-> 1],
              free_list |-> Base, used |-> {}, brk |-> 0]

Length(h) == Cardinality(DOMAIN h.next)

\* The list from free_list on.
Walk(h) ==
  LET w[k \in 0..Length(h)] == IF k = 0 THEN h.free_list ELSE h.next[w[k - 1]]
  IN  w

\* FindFirstFitBlock: the places, from the one behind free_list on, where a
\* block is large enough.
Fits(h, units) == {k \in 1..Length(h) : h.size[Walk(h)[k]] >= units}

\* A field of the headers without the one at a, and with a (new) one there.
Without(f, a) == [x \in DOMAIN f \ {a} |-> f[x]]
With(f, a, v) == [x \in DOMAIN f \cup {a} |-> IF x = a THEN v ELSE f[x]]

\* The first fit is unlinked, or its tail is split off.
Taken(h, units) ==
  LET k == Min(Fits(h, units))
      p == Walk(h)[k]
      pre == Walk(h)[k - 1]
      rest == h.size[p] - units
  IN  IF rest = 0
      THEN [h EXCEPT !.next = Without([@ EXCEPT ![pre] = h.next[p]], p),
                     !.size = Without(@, p), !.free_list = pre,
                     !.used = @ \cup {<<p, units>>}]
      ELSE [h EXCEPT !.size[p] = rest, !.free_list = p,
                     !.used = @ \cup {<<p + rest, units>>}]

\* Where FreeBlock stops: between p and its successor, or at the end of the
\* address order.
Position(h, block) ==
  Min({k \in 0..Length(h) :
         LET p == Walk(h)[k]
             q == h.next[p]
         IN  \/ block > p /\ block < q
             \/ p >= q /\ (block > p \/ block < q)})

\* A FreeBlock that forgets to merge upwards.
FreeBlockUnmerged(h, block, units) ==
  LET p == Walk(h)[Position(h, block)]
  IN  IF p + h.size[p] = block
      THEN [h EXCEPT !.size[p] = @ + units, !.free_list = p]
      ELSE [h EXCEPT !.next = With([@ EXCEPT ![p] = block], block, h.next[p]),
                     !.size = With(@, block, units), !.free_list = p]

\* FreeBlock links the block in behind p and merges it with its neighbours.
FreeBlock(h, block, units) ==
  LET p == Walk(h)[Position(h, block)]
      q == h.next[p]
      up == block + units = q
      size == IF up THEN units + h.size[q] ELSE units
      next == IF up THEN h.next[q] ELSE q
      n == IF up THEN Without(h.next, q) ELSE h.next
      s == IF up THEN Without(h.size, q) ELSE h.size
  IN  IF p + h.size[p] = block
      THEN [h EXCEPT !.next = [n EXCEPT ![p] = next], !.size = [s EXCEPT ![p] = @ + size],
                     !.free_list = p]
      ELSE [h EXCEPT !.next = With([n EXCEPT ![p] = block], block, next),
                     !.size = With(s, block, size), !.free_list = p]

UserOp(p) ==
  /\ InUser(p)
  /\ userOps < MaxUserOps
  /\ userOps' = userOps + 1

Malloc(p, units) ==
  /\ UserOp(p)
  /\ Fits(heap[p], units) # {}
  /\ heap' = [heap EXCEPT ![p] = Taken(@, units)]
  /\ UNCHANGED vars

\* GrowHeader: a round without a fit gets memory with sbrk, frees it into the
\* list and searches again.  Regions and addresses are taken to suffice.
MallocGrows(p, units) ==
  LET bytes == Max({units, GrowUnits})
      addr == ExpandMemory(task[p].space, bytes).addr
      grown == [FreeBlock(heap[p], addr, bytes) EXCEPT !.brk = @ + bytes]
  IN  /\ UserOp(p)
      /\ Fits(heap[p], units) = {}
      /\ Len(task[p].space.regions) < MaxRegions
      /\ addr + bytes <= StackRegion[1]
      /\ SysSbrk(p, bytes)
      /\ heap' = [heap EXCEPT ![p] = Taken(grown, units)]

Free(p) ==
  /\ UserOp(p)
  /\ \E b \in heap[p].used :
       heap' = [heap EXCEPT ![p] = [FreeBlock(heap[p], b[1], b[2]) EXCEPT !.used = @ \ {b}]]
  /\ UNCHANGED vars

\* Where the program keeps its data: in its first segment, on its stack and
\* in the last cell of its blocks.
DataCells(p) ==
  {task[p].space.regions[1][2] - 1, StackRegion[1]}
    \cup {b[1] + b[2] - 1 : b \in heap[p].used}

Store(p) ==
  /\ UserOp(p)
  /\ \E a \in DataCells(p) : UserStore(p, a)
  /\ UNCHANGED heap

-----------------------------------------------------------------------------
Init ==
  /\ SpaceInit
  /\ heap = [s \in Slots |-> EmptyHeap]
  /\ userOps = 0

HeapStays == UNCHANGED <<heap, userOps>>

Next ==
  \E p \in Slots :
    \/ \E units \in Sizes : Malloc(p, units) \/ MallocGrows(p, units)
    \/ Free(p)
    \/ Store(p)
    \/ SysFork(p) /\ HeapStays
    \/ CopyMemory(p) /\ HeapStays
    \/ /\ CopyFrom(p)
       /\ heap' = [heap EXCEPT ![sys[p].child] = heap[p]]
       /\ UNCHANGED userOps
    \/ SysExec(p) /\ HeapStays
    \/ ExecLoad(p) /\ HeapStays
    \/ ExecFails(p) /\ HeapStays
    \/ /\ ExecReturns(p)
       /\ heap' = [heap EXCEPT ![p] = EmptyHeap]
       /\ UNCHANGED userOps
    \/ SysDlopen(p) /\ HeapStays
    \/ DlopenLoad(p) /\ HeapStays
    \/ DlopenReturns(p) /\ HeapStays
    \/ Exit(p) /\ HeapStays
    \/ /\ ResetProcess(p)
       /\ heap' = [heap EXCEPT ![p] = EmptyHeap]
       /\ UNCHANGED userOps

Spec == Init /\ [][Next]_allVars

-----------------------------------------------------------------------------
(* Properties *)

\* All blocks of a heap, free or in use, with their sizes.
HeapBlocks(h) == {<<a, h.size[a]>> : a \in DOMAIN h.next \ {Base}} \cup h.used
BlockCells(b) == b[1]..b[1] + b[2] - 1

\* FindFirstFitBlock, FreeBlock and GrowHeader (lib/memory.cc:24-114): after
\* any calls, across fork and exec, the list is one circle in address order
\* without unmerged neighbours; free blocks and blocks in use do not overlap,
\* add up to what sbrk has given and lie in the regions the kernel has mapped.
HeapSound ==
  ~fault => \A p \in {s \in Slots : task[s].state = "live"} :
    LET h == heap[p] IN
    /\ \A a \in DOMAIN h.next :
         LET above == {b \in DOMAIN h.next : b > a} IN
         h.next[a] = IF above = {} THEN Base ELSE Min(above)
    /\ \A a \in DOMAIN h.next \ {Base} : a + h.size[a] \notin DOMAIN h.next
    /\ \A b, c \in HeapBlocks(h) : b # c => BlockCells(b) \cap BlockCells(c) = {}
    /\ Cardinality(UNION {BlockCells(b) : b \in HeapBlocks(h)}) = h.brk
    /\ UNION {BlockCells(b) : b \in HeapBlocks(h)} \subseteq Cells(task[p].space)
=============================================================================
