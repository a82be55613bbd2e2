----------------------------- MODULE AddressSpace -----------------------------
(***************************************************************************)
(* Address spaces: page tables, regions, fork, exec, dlopen and sbrk       *)
(* (kernel/virtual_memory.cc, kernel/process.cc, kernel/syscalls/impl.cc,  *)
(* static_loader.cc, dynamic_loader.cc).                                   *)
(*                                                                         *)
(* Addresses count cells, PageSize to a page.  A page table is three       *)
(* levels of entries that hold page numbers, 0 for an entry without        *)
(* PTE::V; level 1 is the root page, level 3 holds the leaves.  Which free *)
(* page Alloc pops is the matter of PageAllocator and of no property here: *)
(* it is the lowest.                                                       *)
(***************************************************************************)
EXTENDS Integers, Sequences, FiniteSets, FiniteSetsExt, SequencesExt

CONSTANTS
  Slots,        \* the process slots
  PageNum,      \* the pages of the machine
  PageSize,     \* PGSIZE in cells
  Fan,          \* entries of a page table
  MaxRegions,   \* the size of used_address
  InitImage,    \* the program of the first process
  Images,       \* the files exec may be given
  Libraries,    \* the files dlopen may be given
  MaxExecs      \* bound on the calls of exec and dlopen

Pages == 1..PageNum
VaPages == 0..Fan ^ 3 - 1
Levels == 1..3

\* The user stack is the page below the last page of the address range.
UserStack == Fan ^ 3 - 2

AddrCastDown(a) == a - (a % PageSize)
AddrCastUp(a) == AddrCastDown(a + PageSize - 1)

\* A range whose last page counts only if it is full.
FullPagesOf(beg, end) == AddrCastDown(beg) \div PageSize .. end \div PageSize - 1

\* The pages MapMemory and FreeMemory walk over.
PagesOf(beg, end) == AddrCastDown(beg) \div PageSize .. AddrCastUp(end) \div PageSize - 1

\* The segments of a program file share no page.
SegmentsApart(image) ==
  \A i, j \in 1..Len(image.segs) : i # j =>
    PagesOf(image.segs[i].beg, image.segs[i].beg + image.segs[i].memsz)
      \cap PagesOf(image.segs[j].beg, image.segs[j].beg + image.segs[j].memsz) = {}

\* They lie below the user stack, so that MapPage accepts their addresses.
SegmentsBelowStack(image) ==
  \A i \in 1..Len(image.segs) :
    PagesOf(image.segs[i].beg, image.segs[i].beg + image.segs[i].memsz) \subseteq 0..UserStack - 1

ASSUME ImageAssumption ==
  \A image \in Images \cup Libraries \cup {InitImage} :
    /\ image.segs \in Seq([beg : Nat, memsz : Nat, filesz : Nat])
    /\ SegmentsApart(image) /\ SegmentsBelowStack(image)

VARIABLES
  free,      \* the pages on memory_list_
  cont,      \* what the cells of a page hold
  task,      \* the process table
  sys,       \* the system call each process is in, with its local variables
  fault,     \* a store through the null pointer Alloc got: the kernel has panicked
  execs,
  leaked     \* pages that nobody owns any more

vars == <<free, cont, task, sys, fault, execs, leaked>>

ZeroPage == [c \in 0..PageSize - 1 |-> 0]
NoTable == [l \in Levels |-> [i \in 0..Fan ^ l - 1 |-> 0]]
NoSpace == [frame |-> 0, root |-> 0, pte |-> NoTable, regions |-> <<>>, got |-> 0]
UnusedTask == [state |-> "unused", kernel_sp |-> 0, space |-> NoSpace]
NoCall == [op |-> "none", child |-> 0, new |-> 0, tmp |-> NoSpace, image |-> InitImage,
           k |-> 0, at |-> 0, offset |-> 0]

-----------------------------------------------------------------------------
(* Memory operations, on a memory m: the free pages, the contents, the     *)
(* fault and the page table at hand.                                       *)

Mem(pte) == [free |-> free, cont |-> cont, fault |-> fault, pte |-> pte, got |-> 0]

\* Alloc clears the page it popped before anybody tests for null.
Alloc(m) ==
  IF m.free = {} THEN [m EXCEPT !.fault = TRUE, !.got = 0]
  ELSE [m EXCEPT !.free = @ \ {Min(m.free)}, !.cont[Min(m.free)] = ZeroPage,
                 !.got = Min(m.free)]

FreePages(m, pages) == [m EXCEPT !.free = @ \cup pages]

\* The entry of level l on the way to page v, and the entries below it.
Index(v, l) == v \div Fan ^ (3 - l)

\* GetPTE with need_alloc: a missing table is a fresh page without entries.
GetTable(m, v, l) ==
  IF m.fault \/ m.pte[l][Index(v, l)] # 0 THEN m
  ELSE LET a == Alloc(m) IN
       [a EXCEPT !.pte[l][Index(v, l)] = a.got,
                 !.pte[l + 1] = [i \in DOMAIN @ |-> IF i \div Fan = Index(v, l) THEN 0 ELSE @[i]]]

MapPage(m, v, page) ==
  LET t == GetTable(GetTable(m, v, 1), v, 2)
  IN  IF t.fault THEN t ELSE [t EXCEPT !.pte[3][v] = page]

\* MapMemory maps a fresh page at every page of the range.  Alloc does not
\* return without one, and MapPage, which refuses addresses above
\* MAX_SUPPORT_VA, does not meet any (SegmentsBelowStack): the paths on which
\* MapMemory returns false are left out.
MapMemory(m, beg, end) ==
  FoldLeft(LAMBDA n, v : IF n.fault THEN n
                         ELSE LET a == Alloc(n) IN IF a.fault THEN a ELSE MapPage(a, v, a.got),
           m, SetToSortSeq(PagesOf(beg, end), <))

\* GetPTE without need_alloc finds the entry only if the tables above it exist.
Present(pte, v, l) == \A k \in 1..l : pte[k][Index(v, k)] # 0

FreePage(m, v, l) ==
  IF ~Present(m.pte, v, l) THEN m
  ELSE [m EXCEPT !.free = @ \cup {m.pte[l][Index(v, l)]}, !.pte[l][Index(v, l)] = 0]

FreeMemory(m, beg, end, l) ==
  FoldLeft(LAMBDA n, v : FreePage(n, v, l), m, SetToSortSeq(PagesOf(beg, end), <))

StackRegion == <<UserStack * PageSize, (UserStack + 1) * PageSize>>

\* The page of a cell, and the cell in it.
VAToPA(pte, a) == pte[3][a \div PageSize]
Load(c, pte, a) == c[VAToPA(pte, a)][a % PageSize]

\* The memory with the cells of page v set where the addresses are in the
\* domain of f.
StorePage(m, v, f) ==
  [m EXCEPT !.cont[m.pte[3][v]] =
     [c \in 0..PageSize - 1 |-> IF v * PageSize + c \in DOMAIN f THEN f[v * PageSize + c]
                                ELSE @[c]]]
StoreCells(m, f) ==
  FoldLeft(LAMBDA n, v : IF n.fault THEN n ELSE StorePage(n, v, f), m,
           SetToSortSeq({a \div PageSize : a \in DOMAIN f}, <))

\* A FreePageTable that takes the levels of one region after the other's.
FreeRegionByRegion(m, space) ==
  LET ranges == Append(space.regions, StackRegion)
      freed == FoldLeft(LAMBDA n, r :
                 FoldLeft(LAMBDA o, l : FreeMemory(o, r[1], r[2], l), n, <<3, 2, 1>>),
                 [m EXCEPT !.pte = space.pte], ranges)
  IN  FreePages(freed, {space.frame, space.root})

\* FreePageTable: all leaves, then the tables, level by level, because
\* regions share tables; then the frame and the root page.
FreePageTable(m, space) ==
  LET levels == <<3, 2, 1>>
      ranges == Append(space.regions, StackRegion)
      freed == FoldLeft(LAMBDA n, l :
                 FoldLeft(LAMBDA o, r : FreeMemory(o, r[1], r[2], l), n, ranges),
                 [m EXCEPT !.pte = space.pte], levels)
  IN  FreePages(freed, {space.frame, space.root})

\* ProcessTask::Init: frame, root page and user stack; the stack is mapped.
InitSpace(m) ==
  LET f == Alloc([m EXCEPT !.pte = NoTable])
      r == Alloc(f)
      s == Alloc(r)
  IN  [mem |-> IF s.fault THEN s ELSE MapPage(s, UserStack, s.got),
       frame |-> f.got, root |-> r.got]

SpaceOf(i) == [NoSpace EXCEPT !.frame = i.frame, !.root = i.root, !.pte = i.mem.pte]

\* What a step leaves in the variables.
Commit(m) ==
  /\ free' = m.free
  /\ cont' = m.cont
  /\ fault' = m.fault

-----------------------------------------------------------------------------
(* fork *)

InUser(p) == ~fault /\ task[p].state = "live" /\ sys[p].op = "none"

\* Where CopyMemory starts in region k; behind the last region it is done.
CopyAt(regions, k) == IF k <= Len(regions) THEN regions[k][1] ELSE 0

\* sys_fork: AllocProc claims a slot and gives it the pages of Init.
SysFork(p) ==
  LET unused == {s \in Slots : task[s].state = "unused"}
      c == Min(unused)
      i == InitSpace(Mem(NoTable))
      k == Alloc(i.mem)
  IN  /\ InUser(p)
      /\ unused # {}
      /\ Commit(k)
      /\ task' = [task EXCEPT ![c] =
                    [state |-> "used", kernel_sp |-> k.got, space |-> SpaceOf(i)]]
      /\ sys' = [sys EXCEPT ![p] = [NoCall EXCEPT !.op = "fork", !.child = c, !.k = 1,
                                      !.at = CopyAt(task[p].space.regions, 1)]]
      /\ UNCHANGED <<execs, leaked>>

\* CopyMemory: the part of one page that belongs to the region is mapped in
\* the child and copied.
CopyMemory(p) ==
  LET s == sys[p]
      src == task[p].space
      dst == task[s.child].space
      end == src.regions[s.k][2]
      next == AddrCastDown(s.at) + PageSize
      stop == Min({end, next})
      m == MapMemory(Mem(dst.pte), s.at, stop)
      n == StoreCells(m, [a \in s.at..stop - 1 |-> Load(cont, src.pte, a)])
  IN  /\ ~fault
      /\ s.op = "fork"
      /\ s.k <= Len(src.regions)
      /\ Commit(n)
      /\ task' = [task EXCEPT ![s.child].space.pte = n.pte]
      /\ sys' = [sys EXCEPT ![p] = IF next < end THEN [s EXCEPT !.at = next]
                                   ELSE [s EXCEPT !.k = @ + 1,
                                                  !.at = CopyAt(src.regions, s.k + 1)]]
      /\ UNCHANGED <<execs, leaked>>

\* A copy that loses the lowest cell.
CopiedStackButLowest(src) ==
  [a \in StackRegion[1] + 1..StackRegion[2] - 1 |-> Load(cont, src.pte, a)]

\* The cells of the stack.
CopiedStack(src) == [a \in StackRegion[1]..StackRegion[2] - 1 |-> Load(cont, src.pte, a)]

\* The rest of CopyFrom: the regions, the stack, the frame; the child may run.
CopyFrom(p) ==
  LET s == sys[p]
      src == task[p].space
      m == Mem(task[s.child].space.pte)
  IN  /\ ~fault
      /\ s.op = "fork"
      /\ s.k > Len(src.regions)
      /\ Commit(StoreCells(m, CopiedStack(src)))
      /\ task' = [task EXCEPT ![s.child].state = "live",
                              ![s.child].space.regions = src.regions,
                              ![s.child].space.got = src.got]
      /\ sys' = [sys EXCEPT ![p] = NoCall]
      /\ UNCHANGED <<execs, leaked>>

-----------------------------------------------------------------------------
(* exec and dlopen.  An image has a type, its segments, the value its file *)
(* holds, the slot got that waits for a library's symbol (0 for none) and, *)
(* in a library, the offset sym of that symbol.                            *)

\* LoadSegment behind MapMemory: the part that is in the file is read, the
\* rest stays zero.
LoadSegment(m, image, seg, offset) ==
  StoreCells(MapMemory(m, seg.beg + offset, seg.beg + offset + seg.memsz),
             [a \in seg.beg + offset..seg.beg + offset + seg.filesz - 1 |-> image.val])

RegionOf(seg, offset) == <<seg.beg + offset, seg.beg + offset + seg.memsz>>

\* sys_exec builds the new address space beside the old one, in a task in
\* new_page.
SysExec(p) ==
  \E image \in Images :
    LET new == Alloc(Mem(NoTable))
        i == InitSpace(new)
    IN  /\ InUser(p)
        /\ execs < MaxExecs
        /\ execs' = execs + 1
        /\ Commit(i.mem)
        /\ sys' = [sys EXCEPT ![p] = [NoCall EXCEPT !.op = "exec", !.new = new.got,
                                        !.tmp = SpaceOf(i), !.image = image, !.k = 1]]
        /\ UNCHANGED <<task, leaked>>

\* The tests of StaticLoader::Load before segment k is mapped and after.
Rejected(s, type) ==
  \/ s.image.type # type
  \/ s.k <= Len(s.image.segs) /\ s.image.segs[s.k].memsz < s.image.segs[s.k].filesz
TooMany(s, regions) == s.k <= Len(s.image.segs) /\ Len(regions) >= MaxRegions

\* Load maps and reads one segment; the reads sleep.
ExecLoad(p) ==
  LET s == sys[p]
      seg == s.image.segs[s.k]
      m == LoadSegment(Mem(s.tmp.pte), s.image, seg, 0)
  IN  /\ ~fault
      /\ s.op = "exec"
      /\ ~Rejected(s, "exec") /\ ~TooMany(s, s.tmp.regions)
      /\ s.k <= Len(s.image.segs)
      /\ Commit(m)
      /\ sys' = [sys EXCEPT ![p].tmp.pte = m.pte, ![p].k = @ + 1,
                            ![p].tmp.regions = Append(@, RegionOf(seg, 0))]
      /\ UNCHANGED <<task, execs, leaked>>

\* The pages that the entries of a page table still hold.
PagesIn(pte) == UNION {{pte[l][i] : i \in DOMAIN pte[l]} : l \in Levels} \ {0}

\* A failed Load: the new address space is freed by its regions, new_page is
\* not, nor is a segment that was mapped and did not become a region.
ExecFails(p) ==
  LET s == sys[p]
      extra == IF Rejected(s, "exec") THEN Mem(s.tmp.pte)
               ELSE LoadSegment(Mem(s.tmp.pte), s.image, s.image.segs[s.k], 0)
      m == FreePageTable(extra, [s.tmp EXCEPT !.pte = extra.pte])
  IN  /\ ~fault
      /\ s.op = "exec"
      /\ Rejected(s, "exec") \/ TooMany(s, s.tmp.regions)
      /\ Commit(m)
      /\ leaked' = leaked \cup {s.new} \cup PagesIn(m.pte)
      /\ sys' = [sys EXCEPT ![p] = NoCall]
      /\ UNCHANGED <<task, execs>>

\* The arguments go to the top of the new stack.
ArgWord == 7

\* The old address space goes, the new one takes its place.
ExecReturns(p) ==
  LET s == sys[p]
      args == StoreCells(Mem(s.tmp.pte), [a \in {StackRegion[2] - 1} |-> ArgWord])
      m == FreePageTable(args, task[p].space)
  IN  /\ ~fault
      /\ s.op = "exec"
      /\ ~Rejected(s, "exec")
      /\ s.k > Len(s.image.segs)
      /\ Commit(FreePages(m, {s.new}))
      /\ task' = [task EXCEPT ![p].space = [s.tmp EXCEPT !.got = s.image.got]]
      /\ sys' = [sys EXCEPT ![p] = NoCall]
      /\ UNCHANGED <<execs, leaked>>

\* The end of the highest region.
MaxMemAddr(space) == Max({0} \cup {space.regions[i][2] : i \in 1..Len(space.regions)})

\* sys_dlopen loads the library behind the regions of the process itself.
\* A program without dynamic information needs none.
SysDlopen(p) ==
  \E image \in Libraries :
    /\ InUser(p)
    /\ task[p].space.got # 0
    /\ execs < MaxExecs
    /\ execs' = execs + 1
    /\ Len(task[p].space.regions) + Len(image.segs) <= MaxRegions
    /\ sys' = [sys EXCEPT ![p] = [NoCall EXCEPT !.op = "dlopen", !.image = image, !.k = 1,
                                    !.offset = AddrCastUp(MaxMemAddr(task[p].space))]]
    /\ UNCHANGED <<free, cont, fault, task, leaked>>

DlopenLoad(p) ==
  LET s == sys[p]
      seg == s.image.segs[s.k]
      m == LoadSegment(Mem(task[p].space.pte), s.image, seg, s.offset)
  IN  /\ ~fault
      /\ s.op = "dlopen"
      /\ ~Rejected(s, "dyn")
      /\ s.k <= Len(s.image.segs)
      /\ Commit(m)
      /\ task' = [task EXCEPT ![p].space.pte = m.pte,
                              ![p].space.regions = Append(@, RegionOf(seg, s.offset))]
      /\ sys' = [sys EXCEPT ![p].k = @ + 1]
      /\ UNCHANGED <<execs, leaked>>

\* ProcessDynamicInfo, for the program (offset 0) and for the library: the
\* slots that name a symbol of the library get its address.
Relocated(m, s, got) ==
  StoreCells(m, [a \in {got, s.image.got + s.offset} |-> s.offset + s.image.sym])

DlopenReturns(p) ==
  LET s == sys[p] IN
  /\ ~fault
  /\ s.op = "dlopen"
  /\ \/ /\ ~Rejected(s, "dyn")
        /\ s.k > Len(s.image.segs)
        /\ Commit(Relocated(Mem(task[p].space.pte), s, task[p].space.got))
     \/ Rejected(s, "dyn") /\ UNCHANGED <<free, cont, fault>>
  /\ sys' = [sys EXCEPT ![p] = NoCall]
  /\ UNCHANGED <<task, execs, leaked>>

-----------------------------------------------------------------------------
(* sbrk, user stores, exit and wait *)

\* ExpandMemory: the memory with bytes more cells, and where they begin.
ExpandMemory(space, bytes) ==
  LET beg == AddrCastUp(MaxMemAddr(space))
  IN  [addr |-> beg, region |-> <<beg, beg + bytes>>,
       mem |-> MapMemory(Mem(space.pte), beg, beg + bytes)]

SysSbrk(p, bytes) ==
  LET e == ExpandMemory(task[p].space, bytes) IN
  /\ InUser(p)
  /\ Commit(e.mem)
  /\ task' = [task EXCEPT ![p].space.pte = e.mem.pte,
                          ![p].space.regions = Append(@, e.region)]
  /\ UNCHANGED <<sys, execs, leaked>>

\* The program stores to one of its cells.
UserStore(p, a) ==
  /\ InUser(p)
  /\ Commit(StoreCells(Mem(task[p].space.pte), [x \in {a} |-> 3]))
  /\ UNCHANGED <<task, sys, execs, leaked>>

\* Everyone but the first process may exit.
Exit(p) ==
  /\ InUser(p)
  /\ p # Min(Slots)
  /\ task' = [task EXCEPT ![p].state = "zombie"]
  /\ UNCHANGED <<free, cont, fault, sys, execs, leaked>>

\* sys_wait resets the zombie: ResetProcess frees its address space and its
\* kernel stack.
ResetProcess(p) ==
  /\ ~fault
  /\ task[p].state = "zombie"
  /\ Commit(FreePages(FreePageTable(Mem(NoTable), task[p].space), {task[p].kernel_sp}))
  /\ task' = [task EXCEPT ![p] = UnusedTask]
  /\ UNCHANGED <<sys, execs, leaked>>

\* start: the first process gets a slot, the pages of Init and its program.
Boot ==
  LET m == [free |-> Pages, cont |-> [q \in Pages |-> ZeroPage], fault |-> FALSE,
            pte |-> NoTable, got |-> 0]
      i == InitSpace(m)
      k == Alloc(i.mem)
      loaded == FoldLeft(LAMBDA n, seg : LoadSegment(n, InitImage, seg, 0),
                         k, InitImage.segs)
  IN  [mem |-> loaded,
       task |-> [state |-> "live", kernel_sp |-> k.got,
                 space |-> [SpaceOf(i) EXCEPT !.pte = loaded.pte, !.got = InitImage.got,
                    !.regions = [j \in 1..Len(InitImage.segs) |->
                                   RegionOf(InitImage.segs[j], 0)]]]]

SpaceInit ==
  /\ free = Boot.mem.free
  /\ cont = Boot.mem.cont
  /\ fault = FALSE
  /\ task = [s \in Slots |-> IF s = Min(Slots) THEN Boot.task ELSE UnusedTask]
  /\ sys = [s \in Slots |-> NoCall]
  /\ execs = 0
  /\ leaked = {}

-----------------------------------------------------------------------------
(* Properties *)

\* Every reason why a page is not free: a use is its owner, its
\* kind (a level, or a number below 1), its place and the page.
SpaceUses(owner, space) ==
  {<<owner, -1, 0, space.frame>>, <<owner, 0, 0, space.root>>}
    \cup UNION {{<<owner, l, i, space.pte[l][i]>> : i \in DOMAIN space.pte[l]} : l \in Levels}
PageUses ==
  {u \in UNION {SpaceUses(s, task[s].space)
                  \cup {<<s, -2, 0, task[s].kernel_sp>>, <<s, -3, 0, sys[s].new>>}
                  \cup SpaceUses(-s, sys[s].tmp) : s \in Slots} : u[4] # 0}

\* Alloc, FreePage, FreePageTable, fork, exec and wait: in every state a page
\* is free, or has exactly one use in one process, or was lost by an exec
\* that failed (impl.cc:148-152); no page is used twice, none is lost by
\* sharing page tables among regions, whatever the order of calls.
PagesAccounted ==
  ~fault =>
    /\ \A u, v \in PageUses : u[4] = v[4] => u = v
    /\ {u[4] : u \in PageUses} \cap (free \cup leaked) = {}
    /\ free \cap leaked = {}
    /\ Pages = free \cup leaked \cup {u[4] : u \in PageUses}

\* The cells of the regions and of the stack.
Cells(space) ==
  UNION {space.regions[i][1]..space.regions[i][2] - 1 : i \in 1..Len(space.regions)}
    \cup (StackRegion[1]..StackRegion[2] - 1)

\* MapMemory, FreeMemory, CopyMemory and ExpandMemory against used_address: a
\* process that runs or waits to be reaped has a page behind each address of
\* its regions and its stack, and none elsewhere: VAToPA never gives the
\* kernel a null pointer for them, and FreePageTable finds every page.
RegionsMapped ==
  ~fault => \A s \in Slots : task[s].state \in {"live", "zombie"} =>
    LET space == task[s].space IN
    {v \in VaPages : Present(space.pte, v, 3)} = {a \div PageSize : a \in Cells(space)}

\* The memory of a process as its program sees it.
View(s) ==
  LET space == task[s].space IN
  IF task[s].state # "live" \/ fault THEN <<>>
  ELSE [a \in Cells(space) |->
          IF Present(space.pte, a \div PageSize, 3) THEN Load(cont, space.pte, a) ELSE -1]

FreshView(image) ==
  [a \in UNION {image.segs[i].beg..image.segs[i].beg + image.segs[i].memsz - 1 :
                  i \in 1..Len(image.segs)} \cup (StackRegion[1]..StackRegion[2] - 1) |->
     IF a = StackRegion[2] - 1 THEN ArgWord
     ELSE IF \E i \in 1..Len(image.segs) :
               a \in image.segs[i].beg..image.segs[i].beg + image.segs[i].filesz - 1
     THEN image.val ELSE 0]

Views == [s \in Slots |-> View(s)]

Private == INSTANCE PrivateMemory WITH
  Procs <- Slots,
  NoMem <- <<>>,
  Fresh <- {FreshView(image) : image \in Images}
             \cup {[FreshView(InitImage) EXCEPT ![StackRegion[2] - 1] = 0]},
  mem <- Views

\* Behind page tables that come and go in one pool of pages, every process
\* has a private memory: fork copies all of it, exec starts with the file,
\* zeros and the arguments, and no step changes the memory of two processes.
ImplementsPrivateMemory == Private!Init /\ [][fault' \/ Private!Next]_Views
=============================================================================
