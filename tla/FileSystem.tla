------------------------------ MODULE FileSystem ------------------------------
(***************************************************************************)
(* The file system on disk0 and the system calls on files                  *)
(* (filesystem/common.cc, filestream.cc, mkfs.cc, kernel/syscalls/impl.cc).*)
(* Nothing is cached and nothing is locked: every helper reads a block,    *)
(* changes its copy and writes it back, and the process sleeps in every    *)
(* disk operation.  A step of the model is one disk operation, with the    *)
(* code up to the next one; a crash keeps the disk and loses the rest.     *)
(*                                                                         *)
(* A block has BlockSize cells.  A cell holds a byte of a file, an entry   *)
(* of a directory or an entry of an indirect block; what it is depends,    *)
(* as in the code, on who reads it.                                        *)
(***************************************************************************)
EXTENDS Integers, Sequences, FiniteSets, FiniteSetsExt, SequencesExt

CONSTANTS
  Procs,        \* the processes
  Names,        \* file names
  None,         \* the name in a cell that is no directory entry
  BlockSize,    \* BLOCK_SIZE
  Direct,       \* DIRECT_ADDR_SIZE
  BlockNum,     \* datablocks_count
  InodeNum,     \* INODE_TABLE_SIZE
  InodesPerBlock, \* BLOCK_SIZE / INODE_ELEMENT_SIZE
  FdNum,        \* the file descriptors of a process
  MkfsFiles,    \* what mkfs puts into the image, in order
  Paths(_, _),  \* the paths process p gives to call op
  WriteBufs(_, _), \* the buffers process p writes to a file of some type, cut at
                \* the boundaries of its pages
  ReadBufs(_),  \* the sizes of the pieces process p reads
  StackWords,   \* what an uninitialised word of the stack may hold
  MaxCalls(_),  \* bound on the calls of a process
  MaxCrashes    \* bound on crashes

Blocks == 1..BlockNum
Inums == 0..InodeNum - 1
Root == 0
FdSlots == 0..FdNum - 1
FileType == {"none", "directory", "regular_file", "device"}

MaxSupportFileSize == (Direct + BlockSize) * BlockSize

ASSUME SizeAssumption ==
  /\ BlockSize \in Nat \ {0} /\ Direct \in Nat /\ BlockNum \in Nat
  /\ InodeNum \in Nat \ {0} /\ InodesPerBlock \in Nat \ {0} /\ FdNum \in Nat
  /\ MaxCrashes \in Nat
  /\ \A p \in Procs : ReadBufs(p) \subseteq Seq(Nat) \ {<<>>}

\* A directory cannot outgrow its direct blocks, which is all IteratorDir
\* looks at: every entry costs an inode or a crash.
ASSUME DirectoryAssumption == InodeNum - 1 + MaxCrashes <= Direct * BlockSize

-----------------------------------------------------------------------------
(* Cells, blocks and inodes.  addr[Direct] is indirect_addr, the word      *)
(* behind the array in the packed structure.                               *)

Byte(v) == [name |-> None, val |-> v]
Blank == Byte(0)
BlankBlock == [c \in 0..BlockSize - 1 |-> Blank]
DirElement(n, i) == [name |-> n, val |-> i]
Cell == [name : Names \cup {None}, val : 0..BlockNum + InodeNum]

InodeDef == [inode_index : Inums, type : FileType,
             size : 0..MaxSupportFileSize, addr : [0..Direct -> 0..BlockNum]]
EmptyInode == [inode_index |-> 0, type |-> "none", size |-> 0,
               addr |-> [k \in 0..Direct |-> 0]]
EmptyFd == [file_type |-> "none", offset |-> 0, inode |-> EmptyInode]

VARIABLES
  bmap,     \* disk: the bitmap, as the set of data blocks marked
  itab,     \* disk: the inode table
  data,     \* disk: the data blocks; 0 is the super block
  fds,      \* file_descriptor of each process
  cwd,      \* current_path of each process
  call,     \* the call each process is in, with its local variables
  calls,    \* the calls each process has made
  torn,     \* inodes whose creation a crash cut in two
  crashes

disk == <<bmap, itab, data>>
vars == <<bmap, itab, data, fds, cwd, call, calls, torn, crashes>>

Idle == [pc |-> "user", op |-> "none", type |-> "none", path |-> <<>>, level |-> 0,
         left |-> 0, cur |-> 0, ino |-> EmptyInode, off |-> 0, new |-> 0,
         fd |-> 0, start |-> 0, pos |-> 0, bufs |-> <<>>, arg |-> <<>>, rest |-> <<>>,
         done |-> 0, res |-> 0, why |-> "none", first |-> 0, blk |-> 0,
         buf |-> BlankBlock, ind |-> BlankBlock, bits |-> {}, inodes |-> <<>>]

-----------------------------------------------------------------------------
(* mkfs: the root directory's block comes before the blocks of the file    *)
(* whose entry opens it, an indirect block before what it points to.       *)

BlocksFor(len) == LET d == (len + BlockSize - 1) \div BlockSize
                  IN  d + (IF d > Direct THEN 1 ELSE 0)
OpensRootBlock(i) == IF (i - 1) % BlockSize = 0 THEN 1 ELSE 0

\* cur_data_block after the first i files.
DataCursor ==
  LET cur[i \in 0..Len(MkfsFiles)] ==
        IF i = 0 THEN 1
        ELSE cur[i - 1] + OpensRootBlock(i) + BlocksFor(Len(MkfsFiles[i].body))
  IN  cur

FirstBlock(i) == DataCursor[i - 1] + OpensRootBlock(i)
MkfsBlock(i, k) == FirstBlock(i) + k + (IF k >= Direct THEN 1 ELSE 0)
MkfsLen(i) == Len(MkfsFiles[i].body)
MkfsBlocks(i) == (MkfsLen(i) + BlockSize - 1) \div BlockSize

\* mkfs leaves out a file it cannot address; what it is given fits the image
\* and the inode table, which it does not check within a file.
ASSUME MkfsAssumption ==
  /\ MkfsFiles \in Seq([name : Names, body : Seq(Cell)])
  /\ \A i \in 1..Len(MkfsFiles) : MkfsLen(i) <= MaxSupportFileSize
  /\ Len(MkfsFiles) < InodeNum
  /\ DataCursor[Len(MkfsFiles)] <= BlockNum + 1

MkfsInode(i) ==
  [inode_index |-> i, type |-> "regular_file", size |-> MkfsLen(i),
   addr |-> [k \in 0..Direct |->
               IF k = Direct /\ MkfsBlocks(i) > Direct THEN FirstBlock(i) + Direct
               ELSE IF k < Direct /\ k < MkfsBlocks(i) THEN MkfsBlock(i, k) ELSE 0]]

RootInode ==
  [inode_index |-> Root, type |-> "directory", size |-> Len(MkfsFiles),
   addr |-> [k \in 0..Direct |->
               IF k * BlockSize < Len(MkfsFiles) THEN DataCursor[k * BlockSize] ELSE 0]]

\* What mkfs has written to block b.
MkfsData(b) ==
  [c \in 0..BlockSize - 1 |->
     LET inRoot == {i \in 1..Len(MkfsFiles) :
                      /\ RootInode.addr[(i - 1) \div BlockSize] = b
                      /\ (i - 1) % BlockSize = c}
         inFile == {x \in (1..Len(MkfsFiles)) \X (0..BlockNum) :
                      /\ x[2] < MkfsBlocks(x[1]) /\ MkfsBlock(x[1], x[2]) = b
                      /\ x[2] * BlockSize + c < MkfsLen(x[1])}
         inIndex == {i \in 1..Len(MkfsFiles) :
                      /\ MkfsBlocks(i) > Direct + c
                      /\ FirstBlock(i) + Direct = b}
     IN  CASE inRoot # {} -> LET i == CHOOSE x \in inRoot : TRUE
                             IN  DirElement(MkfsFiles[i].name, i)
           [] inFile # {} -> LET x == CHOOSE x \in inFile : TRUE
                             IN  MkfsFiles[x[1]].body[x[2] * BlockSize + c + 1]
           [] inIndex # {} -> Byte(b + 1 + c)
           [] OTHER -> Blank]

Init ==
  /\ bmap = 1..DataCursor[Len(MkfsFiles)] - 1
  /\ itab = [i \in Inums |-> IF i = Root THEN RootInode
                             ELSE IF i <= Len(MkfsFiles) THEN MkfsInode(i) ELSE EmptyInode]
  /\ data = [b \in {0} \cup Blocks |-> IF b = 0 THEN BlankBlock ELSE MkfsData(b)]
  /\ fds = [p \in Procs |-> [s \in FdSlots |-> EmptyFd]]
  /\ cwd = [p \in Procs |-> <<>>]
  /\ call = [p \in Procs |-> Idle]
  /\ calls = [p \in Procs |-> 0]
  /\ torn = {}
  /\ crashes = 0

-----------------------------------------------------------------------------
(* System calls: the frame of a call and how it returns.                   *)

Step(p, frame) == call' = [call EXCEPT ![p] = frame]

\* The call is over with result r; what it was about stays visible.
Returned(c, r) ==
  [Idle EXCEPT !.pc = "ret", !.op = c.op, !.fd = c.fd, !.start = c.start,
               !.arg = c.arg, !.res = r]

FreeFds(p) == {s \in FdSlots : fds[p][s].file_type = "none"}

\* sys_open and sys_create take the first free descriptor, or fail.
InstallFd(p, c, type, inode) ==
  \/ /\ FreeFds(p) = {}
     /\ Step(p, Returned(c, -1))
     /\ UNCHANGED fds
  \/ /\ FreeFds(p) # {}
     /\ fds' = [fds EXCEPT ![p][Min(FreeFds(p))] =
                  [file_type |-> type, offset |-> 0, inode |-> inode]]
     /\ Step(p, Returned(c, Min(FreeFds(p))))

\* The names of a path from the root: a relative path is appended to
\* current_path.
ParsePath(p, path) == IF path.absolute THEN path.names ELSE cwd[p] \o path.names

Enter(p) ==
  /\ call[p].pc \in {"user", "ret"}
  /\ calls[p] < MaxCalls(p)
  /\ calls' = [calls EXCEPT ![p] = @ + 1]
  /\ UNCHANGED <<disk, cwd, torn, crashes>>

\* sys_open and sys_chdir walk the whole path.
CallOpen(p, op) ==
  /\ Enter(p)
  /\ \E path \in Paths(p, op) :
       Step(p, [Idle EXCEPT !.pc = "GetInode", !.op = op, !.path = ParsePath(p, path),
                            !.left = Len(ParsePath(p, path)), !.cur = Root])
  /\ UNCHANGED fds

\* sys_create, sys_mkdir and sys_mknod walk it name by name.  On the root's own
\* path Create's loop does nothing and it succeeds, with a zeroed inode that
\* sys_create puts into a descriptor.
CallCreate(p, op, type) ==
  /\ Enter(p)
  /\ \E path \in Paths(p, op) :
       LET names == ParsePath(p, path)
           c == [Idle EXCEPT !.pc = "GetInode", !.op = op, !.type = type, !.path = names,
                             !.level = 1, !.left = 1, !.cur = Root]
       IN  \/ names # <<>> /\ Step(p, c) /\ UNCHANGED fds
           \/ /\ names = <<>>
              /\ IF op = "create" THEN InstallFd(p, c, type, EmptyInode)
                 ELSE Step(p, Returned(c, 0)) /\ UNCHANGED fds

CallClose(p) ==
  /\ Enter(p)
  /\ \E s \in FdSlots :
       /\ fds[p][s].file_type # "none"
       /\ fds' = [fds EXCEPT ![p][s] = EmptyFd]
  /\ Step(p, Idle)

-----------------------------------------------------------------------------
(* OpenImpl: from the directory cur, walk the next left names of path.     *)

\* The name OpenImpl is looking for.
Target(c) == c.path[IF c.level > 0 THEN c.level ELSE Len(c.path) - c.left + 1]
LastLevel(c) == c.level = Len(c.path)

\* Create goes on to the next name, in the directory cur.
NextLevel(c) == [c EXCEPT !.pc = "GetInode", !.level = @ + 1, !.left = 1]

\* OpenImpl has found nothing: Create makes the name in the directory cur.
NotFound(p, c) ==
  /\ Step(p, IF c.level = 0 THEN Returned(c, -1) ELSE [c EXCEPT !.pc = "CreateImpl"])
  /\ UNCHANGED <<fds, cwd>>

\* chdir takes the path it was given, if it leads to a directory.
SysChdir(p, c, inode) ==
  /\ cwd' = [cwd EXCEPT ![p] = IF inode.type = "directory" THEN c.path ELSE @]
  /\ Step(p, Returned(c, IF inode.type = "directory" THEN 0 ELSE -1))
  /\ UNCHANGED fds

\* Create goes on behind a name that exists; the last one must have the type
\* asked for.
CreateFinds(p, c, inode) ==
  /\ \/ ~LastLevel(c) /\ Step(p, NextLevel(c)) /\ UNCHANGED fds
     \/ /\ LastLevel(c)
        /\ IF c.op = "create" /\ inode.type = c.type
           THEN InstallFd(p, c, c.type, inode)
           ELSE /\ Step(p, Returned(c, IF inode.type = c.type THEN 0 ELSE -1))
                /\ UNCHANGED fds
  /\ UNCHANGED cwd

\* OpenImpl returns cur with its inode to its caller.
Found(p, c, inode) ==
  \/ c.op = "open" /\ InstallFd(p, c, inode.type, inode) /\ UNCHANGED cwd
  \/ c.op = "chdir" /\ SysChdir(p, c, inode)
  \/ c.level > 0 /\ CreateFinds(p, c, inode)

GetInode(p) ==
  LET c == call[p]
      inode == itab[c.cur]
  IN  /\ c.pc = "GetInode"
      /\ \/ c.left = 0 /\ Found(p, c, inode)
         \/ c.left > 0 /\ inode.type # "directory" /\ NotFound(p, c)
         \/ /\ c.left > 0
            /\ inode.type = "directory"
            /\ Step(p, [c EXCEPT !.pc = "IteratorDir", !.ino = inode, !.off = 0])
            /\ UNCHANGED <<fds, cwd>>
      /\ UNCHANGED <<disk, calls, torn, crashes>>

\* A directory walk that stops one entry early.
MatchesButLast(c) ==
  {k \in c.off..c.ino.size - 2 :
     /\ k \div BlockSize = c.off \div BlockSize
     /\ data[c.ino.addr[c.off \div BlockSize]][k % BlockSize].name = Target(c)}

\* The entries of the block at offset off that name the target.
Matches(c) ==
  {k \in c.off..c.ino.size - 1 :
     /\ k \div BlockSize = c.off \div BlockSize
     /\ data[c.ino.addr[c.off \div BlockSize]][k % BlockSize].name = Target(c)}

IteratorDir(p) ==
  LET c == call[p]
      block == c.ino.addr[c.off \div BlockSize]
  IN  /\ c.pc = "IteratorDir"
      /\ \/ c.off >= c.ino.size /\ NotFound(p, c)
         \/ /\ c.off < c.ino.size
            /\ UNCHANGED <<fds, cwd>>
            /\ Step(p, IF block = 0 THEN [c EXCEPT !.pc = "panic"]
                       ELSE IF Matches(c) = {} THEN [c EXCEPT !.off = @ + BlockSize]
                       ELSE [c EXCEPT !.pc = "GetInode", !.left = @ - 1,
                               !.cur = data[block][Min(Matches(c)) % BlockSize].val])
      /\ UNCHANGED <<disk, calls, torn, crashes>>

-----------------------------------------------------------------------------
(* CreateImpl: an inode of type none, an entry in the directory, and then  *)
(* the inode.                                                              *)

CreateImpl(p) ==
  LET c == call[p] IN
  /\ c.pc = "CreateImpl"
  /\ Step(p, IF itab[c.cur].type = "directory"
             THEN [c EXCEPT !.pc = "AllocInode", !.ino = itab[c.cur], !.off = 0]
             ELSE Returned(c, -1))
  /\ UNCHANGED <<disk, fds, cwd, calls, torn, crashes>>

InodeBlock(i) == i \div InodesPerBlock
InodesOf(block) == {i \in Inums : InodeBlock(i) = block}

\* AllocInode reads block off of the inode table; nothing marks the inode as
\* taken before its UpdateInode.
FreeInodes(block) == {i \in InodesOf(block) : itab[i].type = "none"}

AllocInode(p) ==
  LET c == call[p] IN
  /\ c.pc = "AllocInode"
  /\ Step(p, IF FreeInodes(c.off) # {}
             THEN [c EXCEPT !.pc = "WriteImpl", !.new = Min(FreeInodes(c.off)),
                     !.rest = <<DirElement(Target(c), Min(FreeInodes(c.off)))>>,
                     !.pos = c.ino.size]
             ELSE IF c.off < InodeBlock(InodeNum - 1) THEN [c EXCEPT !.off = @ + 1]
             ELSE Returned(c, -1))
  /\ UNCHANGED <<disk, fds, cwd, calls, torn, crashes>>

TargetInode(c) ==
  [EmptyInode EXCEPT !.inode_index = c.new,
                     !.type = IF LastLevel(c) THEN c.type ELSE "directory"]

\* Create goes on with the inode it has made.
Created(p, c) ==
  \/ /\ ~LastLevel(c)
     /\ Step(p, [NextLevel(c) EXCEPT !.cur = c.new])
     /\ UNCHANGED fds
  \/ LastLevel(c) /\ c.op = "create" /\ InstallFd(p, c, c.type, TargetInode(c))
  \/ /\ LastLevel(c)
     /\ c.op # "create"
     /\ Step(p, Returned(c, 0))
     /\ UNCHANGED fds

\* UpdateInode reads the block of the inode table and writes all of it back.
UpdateInodeRead(p) ==
  LET c == call[p] IN
  /\ c.pc \in {"UpdateSize", "UpdateNew"}
  /\ c.inodes = <<>>
  /\ LET i == IF c.pc = "UpdateSize" THEN c.ino.inode_index ELSE c.new
     IN  Step(p, [c EXCEPT !.inodes = [j \in InodesOf(InodeBlock(i)) |-> itab[j]]])
  /\ UNCHANGED <<disk, fds, cwd, calls, torn, crashes>>

StoreInode(c, inode) ==
  itab' = [j \in Inums |-> IF j = inode.inode_index THEN inode
                           ELSE IF j \in DOMAIN c.inodes THEN c.inodes[j]
                           ELSE itab[j]]

UpdateNewInode(p) ==
  LET c == call[p] IN
  /\ c.pc = "UpdateNew"
  /\ c.inodes # <<>>
  /\ StoreInode(c, TargetInode(c))
  /\ Created(p, [c EXCEPT !.inodes = <<>>])
  /\ UNCHANGED <<bmap, data, cwd, calls, torn, crashes>>

-----------------------------------------------------------------------------
(* Write and WriteImpl on the inode ino: the piece rest goes to offset pos *)
(* block by block.                                                         *)

\* What sys_write stores in the descriptor when it works on a copy of it.
OldInode(c, fd) == fd.inode

\* The descriptor's inode, which Write has changed by reference.
WrittenInode(c, fd) == c.ino

\* sys_write: each piece of the buffer is written at the offset the stream
\* was set to, because FileStream::write leaves position_ alone.
\* Write returns done: CreateImpl goes on whatever it says, sys_write takes
\* the next piece if this one was written completely.
WriteReturns(p, c) ==
  IF c.op # "write"
  THEN Step(p, [c EXCEPT !.pc = "UpdateNew"]) /\ UNCHANGED fds
  ELSE LET total == c.res + c.done IN
       \/ /\ c.rest = <<>>
          /\ c.bufs # <<>>
          /\ c.start <= c.ino.size
          /\ Step(p, [c EXCEPT !.pc = "WriteImpl", !.rest = Head(c.bufs),
                        !.bufs = Tail(c.bufs), !.pos = c.start, !.res = total, !.done = 0])
          /\ UNCHANGED fds
       \/ /\ c.rest # <<>> \/ c.bufs = <<>> \/ c.start > c.ino.size
          /\ fds' = [fds EXCEPT ![p][c.fd].offset = @ + total,
                                ![p][c.fd].inode = WrittenInode(c, fds[p][c.fd])]
          /\ Step(p, Returned(c, total))

\* MaxSupportFileSize bounds the offsets: behind it the code, which does not look,
\* would leave the indirect block.
CallWrite(p) ==
  /\ Enter(p)
  /\ \E s \in FdSlots : \E bufs \in WriteBufs(p, fds[p][s].file_type) :
       LET fd == fds[p][s]
           end == fd.offset + Len(FlattenSeq(bufs))
           c == [Idle EXCEPT !.pc = "WriteImpl", !.op = "write", !.fd = s,
                   !.ino = fd.inode, !.start = fd.offset, !.pos = fd.offset,
                   !.rest = Head(bufs), !.bufs = Tail(bufs), !.arg = bufs]
       IN  /\ fd.file_type \in {"regular_file", "directory"}
           /\ end <= MaxSupportFileSize
           /\ \/ fd.offset <= fd.inode.size /\ Step(p, c) /\ UNCHANGED fds
              \/ fd.offset > fd.inode.size /\ WriteReturns(p, c)

Place(c) == c.pos \div BlockSize
PieceLen(c) == Min({Len(c.rest), BlockSize - (c.pos % BlockSize)})

\* Which block the piece goes to; a block that is missing is allocated first.
WriteImpl(p) ==
  LET c == call[p]
      i == Place(c)
      ind == data[c.ino.addr[Direct]]
  IN  /\ c.pc = "WriteImpl"
      /\ Step(p,
           IF i < Direct
           THEN IF c.ino.addr[i] # 0 THEN [c EXCEPT !.pc = "WriteData", !.blk = c.ino.addr[i]]
                ELSE [c EXCEPT !.pc = "AllocDataBlock", !.why = "direct"]
           ELSE IF c.ino.addr[Direct] = 0
           THEN [c EXCEPT !.pc = "AllocDataBlock", !.why = "indirect"]
           ELSE IF ind[i - Direct].val # 0
           THEN [c EXCEPT !.pc = "WriteData", !.blk = ind[i - Direct].val]
           ELSE [c EXCEPT !.pc = "AllocDataBlock", !.why = "entry", !.ind = ind])
      /\ UNCHANGED <<disk, fds, cwd, calls, torn, crashes>>

\* An AllocDataBlock that is one block off.
FreeBlockBefore(bits) == IF Blocks \subseteq bits THEN 0 ELSE Max({1, Min(Blocks \ bits) - 1})

\* The block AllocDataBlock finds in its copy of the bitmap, 0 if none.
FreeBlock(bits) == IF Blocks \subseteq bits THEN 0 ELSE Min(Blocks \ bits)

\* AllocDataBlock has returned b (0 for a failure).  A missing indirect block
\* takes two calls, and their results are tested after the second.
Allocated(p, c, b) ==
  \/ /\ c.why = "direct"
     /\ b # 0
     /\ Step(p, [c EXCEPT !.pc = "WriteData", !.blk = b, !.ino.addr[Place(c)] = b])
     /\ UNCHANGED fds
  \/ /\ c.why = "indirect"
     /\ Step(p, [c EXCEPT !.pc = "AllocDataBlock", !.why = "first", !.first = b])
     /\ UNCHANGED fds
  \/ /\ c.why = "first"
     /\ c.first # 0 /\ b # 0
     /\ \E w \in StackWords :
          Step(p, [c EXCEPT !.pc = "WriteIndirect", !.blk = b, !.ino.addr[Direct] = c.first,
                     !.ind = [k \in 0..BlockSize - 1 |-> IF k = 0 THEN Byte(b) ELSE Byte(w)]])
     /\ UNCHANGED fds
  \/ /\ c.why = "entry"
     /\ b # 0
     /\ Step(p, [c EXCEPT !.pc = "WriteIndirect", !.blk = b,
                   !.ind[Place(c) - Direct] = Byte(b)])
     /\ UNCHANGED fds
  \/ /\ c.why # "indirect"
     /\ b = 0 \/ (c.why = "first" /\ c.first = 0)
     /\ WriteReturns(p, c)

AllocDataBlockRead(p) ==
  LET c == call[p]
      b == FreeBlock(bmap)
  IN  /\ c.pc = "AllocDataBlock"
      /\ IF b = 0 THEN Allocated(p, c, 0)
         ELSE /\ Step(p, [c EXCEPT !.pc = "WriteBitmap", !.blk = b, !.bits = bmap \cup {b}])
              /\ UNCHANGED fds
      /\ UNCHANGED <<disk, cwd, calls, torn, crashes>>

AllocDataBlockWrite(p) ==
  LET c == call[p] IN
  /\ c.pc = "WriteBitmap"
  /\ bmap' = c.bits
  /\ Allocated(p, [c EXCEPT !.bits = {}, !.blk = 0], c.blk)
  /\ UNCHANGED <<itab, data, cwd, calls, torn, crashes>>

WriteIndirect(p) ==
  LET c == call[p] IN
  /\ c.pc = "WriteIndirect"
  /\ data' = [data EXCEPT ![c.ino.addr[Direct]] = c.ind]
  /\ Step(p, [c EXCEPT !.pc = "WriteData", !.ind = BlankBlock])
  /\ UNCHANGED <<bmap, itab, fds, cwd, calls, torn, crashes>>

\* A piece that always goes to the start of its block.
MergedAtStart(c, block) ==
  [k \in 0..BlockSize - 1 |-> IF k < PieceLen(c) THEN c.rest[k + 1] ELSE block[k]]

\* The block with the piece copied into it.
Merged(c, block) ==
  [k \in 0..BlockSize - 1 |->
     LET j == k - (c.pos % BlockSize) IN
     IF j \in 0..PieceLen(c) - 1 THEN c.rest[j + 1] ELSE block[k]]

\* Write's loop goes on behind the piece.
Advance(p, c) ==
  LET n == PieceLen(c)
      d == [c EXCEPT !.pc = "WriteImpl", !.rest = SubSeq(c.rest, n + 1, Len(c.rest)),
              !.pos = @ + n, !.done = @ + n, !.blk = 0, !.buf = BlankBlock,
              !.inodes = <<>>, !.why = "none", !.first = 0]
  IN  IF d.rest = <<>> THEN WriteReturns(p, d) ELSE Step(p, d) /\ UNCHANGED fds

\* A piece shorter than a block is merged into what the block holds.
ReadForWrite(p) ==
  LET c == call[p] IN
  /\ c.pc = "WriteData"
  /\ PieceLen(c) # BlockSize
  /\ Step(p, [c EXCEPT !.pc = "WriteMerged", !.buf = data[c.blk]])
  /\ UNCHANGED <<disk, fds, cwd, calls, torn, crashes>>

WriteData(p) ==
  LET c == call[p]
      end == c.pos + PieceLen(c)
  IN  /\ \/ c.pc = "WriteMerged"
         \/ c.pc = "WriteData" /\ PieceLen(c) = BlockSize
      /\ data' = [data EXCEPT ![c.blk] = Merged(c, c.buf)]
      /\ IF end > c.ino.size
         THEN Step(p, [c EXCEPT !.pc = "UpdateSize", !.ino.size = end]) /\ UNCHANGED fds
         ELSE Advance(p, c)
      /\ UNCHANGED <<bmap, itab, cwd, calls, torn, crashes>>

UpdateSize(p) ==
  LET c == call[p] IN
  /\ c.pc = "UpdateSize"
  /\ c.inodes # <<>>
  /\ StoreInode(c, c.ino)
  /\ Advance(p, c)
  /\ UNCHANGED <<bmap, data, cwd, calls, torn, crashes>>

-----------------------------------------------------------------------------
(* FileStream::Read; the stream's position moves on, also from piece to    *)
(* piece of the buffer.                                                    *)

\* What is left of a piece of len bytes; the difference is unsigned.
Readable(inode, pos, len) ==
  IF pos > inode.size THEN len ELSE Min({inode.size - pos, len})

\* arg collects what has been read; left is what Read still has to read and
\* first the size of its piece.
ReadReturns(p, c) ==
  \/ /\ c.bufs # <<>>
     /\ c.done = c.first
     /\ Step(p, [c EXCEPT !.first = Head(c.bufs), !.bufs = Tail(c.bufs), !.done = 0,
                   !.left = Readable(c.ino, c.pos, Head(c.bufs)), !.ind = BlankBlock])
     /\ UNCHANGED fds
  \/ /\ c.bufs = <<>> \/ c.done < c.first
     /\ fds' = [fds EXCEPT ![p][c.fd].offset = @ + Len(c.arg)]
     /\ Step(p, Returned(c, Len(c.arg)))

CallRead(p) ==
  /\ Enter(p)
  /\ \E s \in FdSlots, bufs \in ReadBufs(p) :
       LET fd == fds[p][s]
       IN  /\ fd.file_type \in {"regular_file", "directory"}
           /\ Step(p, [Idle EXCEPT !.pc = "Read", !.op = "read", !.fd = s,
                   !.ino = fd.inode, !.start = fd.offset, !.pos = fd.offset,
                   !.first = Head(bufs), !.bufs = Tail(bufs),
                   !.left = Readable(fd.inode, fd.offset, Head(bufs))])
  /\ UNCHANGED fds

Read(p) ==
  LET c == call[p]
      i == Place(c)
      n == Min({c.left, BlockSize - (c.pos % BlockSize)})
      block == IF i < Direct THEN c.ino.addr[i] ELSE c.ind[i - Direct].val
      bytes == [k \in 1..n |-> data[block][(c.pos % BlockSize) + k - 1]]
  IN  /\ \/ c.pc = "Read" /\ c.left = 0 /\ ReadReturns(p, c)
         \/ /\ c.pc = "Read" /\ c.left > 0 /\ i >= Direct /\ c.ind[0].val = 0
            /\ Step(p, [c EXCEPT !.pc = "ReadData", !.ind = data[c.ino.addr[Direct]]])
            /\ UNCHANGED fds
         \/ /\ \/ c.pc = "Read" /\ c.left > 0 /\ (i < Direct \/ c.ind[0].val # 0)
               \/ c.pc = "ReadData"
            /\ Step(p, [c EXCEPT !.pc = "Read", !.left = @ - n, !.pos = @ + n,
                          !.done = @ + n, !.arg = @ \o bytes])
            /\ UNCHANGED fds
      /\ UNCHANGED <<disk, cwd, calls, torn, crashes>>

-----------------------------------------------------------------------------
\* Power goes or the kernel panics, and the machine starts again: only the
\* disk is left.  A creation whose entry is on disk and whose inode is not
\* stays cut in two.
Crash ==
  /\ crashes < MaxCrashes
  /\ crashes' = crashes + 1
  /\ torn' = torn \cup {call[p].new : p \in {q \in Procs : call[q].pc = "UpdateNew"}}
  /\ fds' = [p \in Procs |-> [s \in FdSlots |-> EmptyFd]]
  /\ cwd' = [p \in Procs |-> <<>>]
  /\ call' = [p \in Procs |-> Idle]
  /\ UNCHANGED <<disk, calls>>

SysCreate(p) == \E t \in {"regular_file", "directory"} : CallCreate(p, "create", t)

SysMkdir(p) == CallCreate(p, "mkdir", "directory")
SysMknod(p) == CallCreate(p, "mknod", "device")

Calls(p) ==
  \/ \E op \in {"open", "chdir"} : CallOpen(p, op)
  \/ SysMkdir(p)
  \/ SysMknod(p)
  \/ CallClose(p)
  \/ CallRead(p)

Runs(p) ==
  \/ GetInode(p) \/ IteratorDir(p)
  \/ CreateImpl(p) \/ AllocInode(p) \/ UpdateInodeRead(p) \/ UpdateNewInode(p)
  \/ WriteImpl(p) \/ AllocDataBlockRead(p) \/ AllocDataBlockWrite(p)
  \/ WriteIndirect(p) \/ ReadForWrite(p) \/ WriteData(p) \/ UpdateSize(p)
  \/ Read(p)

Next == Crash \/ \E p \in Procs : SysCreate(p) \/ CallWrite(p) \/ Calls(p) \/ Runs(p)

Spec == Init /\ [][Next]_vars

-----------------------------------------------------------------------------
(* Properties *)

\* What the properties need, as nothing is locked and inodes are copied: w is
\* the only process that writes, and it does not write to directories.
OneWriter(w) ==
  /\ \A p \in Procs \ {w} : /\ \A op \in {"create", "mkdir", "mknod"} : Paths(p, op) = {}
                            /\ \A t \in FileType : WriteBufs(p, t) = {}
  /\ WriteBufs(w, "directory") = {}
  /\ WriteBufs(w, "regular_file") \subseteq Seq(Seq(Cell) \ {<<>>}) \ {<<>>}

\* An indirect block that mkfs wrote has zeros behind its last entry; in one
\* that the kernel made only the first entry is initialised (common.cc:251).
EntriesInitialised(inode, end) ==
  \/ end <= (Direct + 1) * BlockSize
  \/ inode.addr[Direct] \in 1..DataCursor[Len(MkfsFiles)] - 1

\* And what they need of its programs.  Each descriptor has a copy of the inode
\* of its own, so a file is written while no other descriptor of the process is
\* open on it; and no write goes where the code uses an entry that it never
\* initialised.
Careful(p) ==
  LET c == call[p] IN
  /\ \A s \in FdSlots \ {c.fd} : fds[p][s].file_type = "regular_file" =>
       fds[p][s].inode.inode_index # fds[p][c.fd].inode.inode_index
  /\ c.pc # "ret" => EntriesInitialised(c.ino, c.start + Len(FlattenSeq(c.arg)))

WriteCarefully(p) == CallWrite(p) /\ Careful(p)'

\* Nor do they call create on the root's own path, where it returns at once.
CreateCarefully(p) == SysCreate(p) /\ call'[p].pc # "ret"

CarefulNext ==
  Crash \/ \E p \in Procs : CreateCarefully(p) \/ WriteCarefully(p) \/ Calls(p) \/ Runs(p)

CarefulSpec == Init /\ [][CarefulNext]_vars

\* mkfs takes the last component of each path (mkfs.cc:95) and does not look
\* for doubles: the build (CMakeLists.txt:76) gives it files of different names.
DistinctNames ==
  \A i, j \in 1..Len(MkfsFiles) : MkfsFiles[i].name = MkfsFiles[j].name => i = j

\* The blocks of a file up to its size, and the block at one of its places.
Places(inode) == 0..(inode.size + BlockSize - 1) \div BlockSize - 1
BlockAt(inode, k) ==
  IF k < Direct THEN inode.addr[k] ELSE data[inode.addr[Direct]][k - Direct].val
Content(inode) ==
  [k \in 1..inode.size |->
     data[BlockAt(inode, (k - 1) \div BlockSize)][(k - 1) % BlockSize]]

\* Every use of a data block by an inode on disk: a place of the file, or -1
\* for its indirect block.
Uses ==
  (UNION {{<<i, k>> : k \in Places(itab[i])} : i \in Inums})
    \cup {<<i, -1>> : i \in {j \in Inums : itab[j].addr[Direct] # 0}}
UsedBlock(u) == IF u[2] = -1 THEN itab[u[1]].addr[Direct] ELSE BlockAt(itab[u[1]], u[2])

\* AllocDataBlock and WriteImpl (common.cc:147-288): on disk, after every
\* single disk operation and after a crash anywhere, each block a file uses
\* is marked in the bitmap and used once, and no file has a hole.
BlocksOwned ==
  /\ \A u \in Uses : UsedBlock(u) \in bmap
  /\ \A u, v \in Uses : UsedBlock(u) = UsedBlock(v) => u = v

\* A copy of an inode that agrees with the disk on all the blocks it covers.
Agrees(copy) ==
  LET inode == itab[copy.inode_index] IN
  /\ inode.type = copy.type
  /\ copy.size <= inode.size
  /\ \A k \in Places(copy) : LET a == Min({k, Direct}) IN copy.addr[a] = inode.addr[a]

Writers == {p \in Procs : WriteBufs(p, "regular_file") # {}}

\* FileDescriptor::inode (file_descriptor.h:13) is a copy taken at open: a
\* reader's copy may be old but covers only blocks that are still the file's,
\* and the writer's own copy is what is on disk whenever its call is over.
\* IteratorDir (common.cc:51), which works on such a copy, never panics.
CopiesAgree ==
  \A p \in Procs :
    /\ call[p].pc # "panic"
    /\ \A s \in FdSlots : fds[p][s].file_type # "none" =>
         /\ Agrees(fds[p][s].inode)
         /\ (/\ p \in Writers
             /\ call[p].pc \in {"user", "ret"}
             /\ fds[p][s].file_type = "regular_file") =>
              fds[p][s].inode = itab[fds[p][s].inode.inode_index]

\* The entries of all directories.
Entries == UNION {{<<i, k>> : k \in 1..itab[i].size} :
                   i \in {j \in Inums : itab[j].type = "directory"}}
Entry(e) == Content(itab[e[1]])[e[2]]

\* Create and CreateImpl (common.cc:200-228, 308-341): a directory has a name
\* once, a file has one name, and a name leads to a file -- except, while its
\* creation is under way or was cut by a crash, to an inode of type none.
NamesLead ==
  /\ \A e, f \in Entries : e # f =>
       /\ Entry(e).name = Entry(f).name => e[1] # f[1]
       /\ Entry(e).val = Entry(f).val => Entry(e).val \in torn
  /\ \A e \in Entries :
       \/ itab[Entry(e).val].type # "none"
       \/ Entry(e).val \in torn
       \/ \E p \in Procs : call[p].pc = "UpdateNew" /\ call[p].new = Entry(e).val

\* The bytes of a buffer in the order they are written, each with its place in
\* its piece.
Placed(bufs) ==
  FlattenSeq([i \in DOMAIN bufs |-> [k \in DOMAIN bufs[i] |-> <<k, bufs[i][k]>>]])

\* sys_write and sys_read (impl.cc:57-119).  safe_copy cuts a buffer at the
\* boundaries of pages and FileStream::write (filestream.cc:53) writes every
\* piece at the offset the call started from: each byte sys_write says it wrote
\* is in the file at its place behind that offset, unless a later piece has one
\* for the same place.  sys_write writes fewer than asked only when the disk is
\* full or its offset is behind the end of the file, where two pieces leave it.
\* Up to the end of the file the writer reads back what is in it.
CallsTrue ==
  \A p \in {q \in Writers : call[q].pc = "ret"} :
    LET c == call[p]
        file == Content(itab[fds[p][c.fd].inode.inode_index])
        all == Placed(c.arg)
        last(k) == Max({j \in 1..c.res : all[j][1] = k})
    IN  /\ c.op = "write" =>
             /\ \A j \in 1..c.res : /\ c.start + all[j][1] <= Len(file)
                                     /\ file[c.start + all[j][1]] = all[last(all[j][1])][2]
             /\ c.res < Len(all) => Blocks \subseteq bmap \/ c.start > Len(file)
        /\ c.op = "read" /\ c.start <= Len(file) =>
             SubSeq(file, c.start + 1, c.start + c.res) = c.arg

Store == INSTANCE FileStore WITH
  Cells <- Cell,
  MaxStep <- BlockSize,
  typeOf <- [i \in Inums |-> itab[i].type],
  body <- [i \in Inums |-> Content(itab[i])]

\* The disk, read through its inode table, is a set of files that change one
\* at a time, inside their length or at their end: every disk operation, and
\* every crash, is a step of FileStore or changes no file.
ImplementsStore == Store!Spec
=============================================================================
