--------------------------- MODULE FileSystemProofs ---------------------------
(***************************************************************************)
(* Proofs about FileSystem: with one writer beside any number of readers,  *)
(* and with crashes between any two disk operations, each block belongs to *)
(* one place of one file, copies of inodes agree with the disk, and the    *)
(* entries of directories lead to files under names they have once.        *)
(*                                                                         *)
(* They are proofs about CarefulSpec, for any number of descriptors and of *)
(* any image: the writer writes to a file while it has it open once, never *)
(* into entries of an indirect block that the kernel left uninitialised,   *)
(* and does not call create on the path of the root.  The code asks for    *)
(* none of this and does not check it.                                     *)
(***************************************************************************)
EXTENDS FileSystem, RingFacts

-----------------------------------------------------------------------------
(* The disk *)

\* The blocks mkfs has written.
ByMkfs(b) == b \in 1..(DataCursor[Len(MkfsFiles)] - 1)

\* The places of an inode: -1 is its indirect block.
AllPlaces == (-1)..(Direct + BlockSize - 1)

\* The block at a place, 0 for none.  Behind the first entry of an indirect
\* block that the kernel has made there may be anything.
At(T, D, i, k) ==
  IF k = -1 THEN T[i].addr[Direct]
  ELSE IF k < Direct THEN T[i].addr[k]
  ELSE IF T[i].addr[Direct] # 0 /\ (k = Direct \/ ByMkfs(T[i].addr[Direct]))
  THEN D[T[i].addr[Direct]][k - Direct].val
  ELSE 0

\* A block at a place is marked in the bitmap B and at no other place.
Owned(B, T, D) ==
  /\ \A i \in Inums, k \in AllPlaces : At(T, D, i, k) # 0 => At(T, D, i, k) \in B
  /\ \A i, j \in Inums, k, l \in AllPlaces :
       At(T, D, i, k) # 0 /\ At(T, D, i, k) = At(T, D, j, l) => i = j /\ k = l

\* There is a block at every place of a file up to its size.
Covered(T, D) ==
  \A i \in Inums, k \in Nat :
    k * BlockSize < T[i].size => k \in AllPlaces /\ At(T, D, i, k) # 0

\* What a directory holds are numbers of inodes.
DirsLead(T, D) ==
  \A i \in Inums : T[i].type = "directory" =>
    \A x \in 0..(T[i].size - 1) :
      D[T[i].addr[x \div BlockSize]][x % BlockSize].val \in Inums

FreeInums(T) == {i \in Inums : T[i].type = "none"}

\* Every entry of a directory has cost an inode, but for extra ones.
DirsBounded(T, extra) ==
  \A i \in Inums : T[i].type = "directory" =>
    T[i].size + Cardinality(FreeInums(T)) <= InodeNum - 1 + extra

TableOK(T) ==
  /\ T \in [Inums -> InodeDef]
  /\ T[Root].type # "none"
  /\ \A i \in Inums : T[i].type # "none" => T[i].inode_index = i

DiskOK(B, T, D) ==
  /\ B \in SUBSET Blocks
  /\ \A b \in 1..BlockNum : ByMkfs(b) => b \in B
  /\ TableOK(T)
  /\ DOMAIN D = 0..BlockNum /\ \A b \in 0..BlockNum : DOMAIN D[b] = 0..(BlockSize - 1)
  /\ Owned(B, T, D) /\ Covered(T, D) /\ DirsLead(T, D)

\* A block that is marked and at no place.
Extra(B, T, D, b) ==
  b \in B /\ \A i \in Inums, k \in AllPlaces : At(T, D, i, k) # b

\* A copy of an inode that agrees with the table on all the blocks it covers.
CopyOK(T, n) ==
  /\ n \in InodeDef /\ n.type # "none"
  /\ T[n.inode_index].type = n.type /\ n.size <= T[n.inode_index].size
  /\ \A k \in 0..Direct : k * BlockSize < n.size => n.addr[k] = T[n.inode_index].addr[k]

-----------------------------------------------------------------------------
(* The calls *)

IsSeq(s) == \E S : s \in Seq(S)

\* The fields of a call.
Fields == {"pc", "op", "type", "path", "level", "left", "cur", "ino", "off", "new", "fd",
           "start", "pos", "bufs", "arg", "rest", "done", "res", "why", "first", "blk",
           "buf", "ind", "bits", "inodes"}

\* A process that walks a path.
WalkOK(T, c) ==
  /\ c.op # "write" /\ c.cur \in Inums
  /\ c.level # 0 => c.type \in FileType \ {"none"}
  /\ c.pc = "IteratorDir" => CopyOK(T, c.ino) /\ c.ino.type = "directory" /\ c.off \in Nat

ReadOK(c) ==
  /\ c.pos \in Nat /\ c.left \in Nat /\ c.done \in Nat
  /\ c.bufs \in Seq(Nat) /\ IsSeq(c.arg)
  /\ c.ino \in InodeDef /\ c.fd \in FdSlots

\* What holds of the call of every process.
FrameOK(T, c) ==
  /\ DOMAIN c = Fields
  /\ c.pc # "panic"
  /\ c.pc \in {"GetInode", "IteratorDir"} => WalkOK(T, c)
  /\ c.pc \in {"Read", "ReadData"} => ReadOK(c)

OnlyReads(c) ==
  /\ c.pc \in {"user", "ret", "GetInode", "IteratorDir", "Read", "ReadData"}
  /\ c.pc \in {"GetInode", "IteratorDir"} => c.level = 0

\* CreateImpl has an inode to create.
CreateOK(T, c) ==
  /\ c.op # "write" /\ c.level # 0 /\ c.type \in FileType \ {"none"}
  /\ c.new \in Inums /\ T[c.new].type = "none"

Writes == {"WriteImpl", "AllocDataBlock", "WriteBitmap", "WriteIndirect", "WriteData",
           "WriteMerged", "UpdateSize"}

\* Where a piece may end.
Fits(T, i, end) ==
  \/ end <= (Direct + 1) * BlockSize
  \/ ByMkfs(T[i].addr[Direct]) /\ end <= MaxSupportFileSize

\* The pieces that follow, each at the offset of the first.
BufsOK(T, c) ==
  /\ IsSeq(c.bufs) /\ c.start \in Nat
  /\ \A k \in 1..Len(c.bufs) :
       /\ IsSeq(c.bufs[k]) /\ c.bufs[k] # <<>>
       /\ Fits(T, c.ino.inode_index, c.start + Len(c.bufs[k]))

\* What is left to write, and where it has to end.
PieceOK(T, c) ==
  LET n == c.ino
      i == n.inode_index
      end == c.pos + Len(c.rest)
  IN  /\ n \in InodeDef /\ T[i].type = n.type
      /\ c.pos \in Nat /\ IsSeq(c.rest) /\ c.rest # <<>>
      /\ c.pos <= T[i].size
      /\ Fits(T, i, end)
      /\ c.op = "write" => /\ n.type = "regular_file" /\ BufsOK(T, c)
                           /\ c.res \in Nat /\ c.done \in Nat
      /\ c.op # "write" => /\ n.type = "directory" /\ CreateOK(T, c)
                           /\ Len(c.rest) = 1 /\ c.rest[1].val = c.new
                           /\ c.pos = T[i].size /\ end <= Direct * BlockSize

\* Why WriteImpl allocates a block.
WhyOK(B, T, D, c) ==
  \/ c.why = "direct" /\ Place(c) < Direct /\ c.ino.addr[Place(c)] = 0
  \/ c.why = "indirect" /\ Place(c) >= Direct /\ c.ino.addr[Direct] = 0
  \/ /\ c.why = "first" /\ Place(c) >= Direct /\ c.ino.addr[Direct] = 0
     /\ c.first # 0 => Extra(B, T, D, c.first) /\ ~ByMkfs(c.first)
  \/ /\ c.why = "entry" /\ Place(c) >= Direct /\ c.ino.addr[Direct] # 0
     /\ c.ind = D[c.ino.addr[Direct]] /\ c.ind[Place(c) - Direct].val = 0

\* A new indirect block, whose first entry will be b.
NewIndirect(B, T, D, c, b) ==
  LET old == T[c.ino.inode_index].addr
      f == c.ino.addr[Direct]
  IN  /\ Place(c) = Direct /\ old[Direct] = 0
      /\ c.ino.addr = [old EXCEPT ![Direct] = f]
      /\ Extra(B, T, D, f) /\ Extra(B, T, D, b) /\ f # b /\ ~ByMkfs(f)

\* The indirect block is in memory.
IndirectOK(B, T, D, c) ==
  LET old == T[c.ino.inode_index].addr IN
  /\ c.ino.size = T[c.ino.inode_index].size
  /\ DOMAIN c.ind = 0..(BlockSize - 1)
  /\ \/ NewIndirect(B, T, D, c, c.blk) /\ c.ind[0].val = c.blk
     \/ /\ c.ino.addr = old /\ old[Direct] # 0 /\ Place(c) >= Direct
        /\ Extra(B, T, D, c.blk)
        /\ D[old[Direct]][Place(c) - Direct].val = 0
        /\ c.ind = [D[old[Direct]] EXCEPT ![Place(c) - Direct] = Byte(c.blk)]

\* The block of the piece, blk: the file has it, or the inode in memory has it
\* already.
TargetOK(B, T, D, c) ==
  LET i == c.ino.inode_index
      old == T[i].addr
  IN  \/ c.ino.addr = old /\ At(T, D, i, Place(c)) = c.blk /\ c.blk # 0
      \/ /\ Place(c) < Direct /\ old[Place(c)] = 0
         /\ c.ino.addr = [old EXCEPT ![Place(c)] = c.blk] /\ Extra(B, T, D, c.blk)
      \/ NewIndirect(B, T, D, c, c.blk) /\ D[c.ino.addr[Direct]][0].val = c.blk

WriteOK(B, T, D, c) ==
  LET i == c.ino.inode_index IN
  /\ PieceOK(T, c)
  /\ c.pc \in {"WriteImpl", "AllocDataBlock", "WriteBitmap"} => c.ino = T[i]
  /\ c.pc \in {"AllocDataBlock", "WriteBitmap"} => WhyOK(B, T, D, c)
  /\ c.pc = "WriteBitmap" => c.blk \in Blocks \ B /\ c.bits = B \cup {c.blk}
  /\ c.pc = "WriteIndirect" => IndirectOK(B, T, D, c)
  /\ c.pc \in {"WriteData", "WriteMerged", "UpdateSize"} => TargetOK(B, T, D, c)
  /\ c.pc \in {"WriteData", "WriteMerged"} => c.ino.size = T[i].size
  /\ c.pc = "WriteMerged" => c.buf = D[c.blk]
  /\ c.pc = "UpdateSize" =>
       /\ c.ino.size = c.pos + PieceLen(c) /\ T[i].size < c.ino.size
       /\ c.op # "write" => D[c.blk][c.pos % BlockSize].val \in Inums

\* What holds of the call of the writer.
WriterOK(B, T, D, c) ==
  /\ \A j \in DOMAIN c.inodes : j \in Inums => c.inodes[j] = T[j]
  /\ c.pc \in {"CreateImpl", "AllocInode"} =>
       /\ c.op # "write" /\ c.level # 0 /\ c.type \in FileType \ {"none"} /\ c.cur \in Inums
  /\ c.pc = "AllocInode" => c.ino = T[c.cur] /\ c.ino.type = "directory" /\ c.off \in Nat
  /\ c.pc = "UpdateNew" => CreateOK(T, c)
  /\ c.pc \in Writes => WriteOK(B, T, D, c)

-----------------------------------------------------------------------------
(* The descriptors *)

FdType == [file_type : FileType, offset : Nat, inode : InodeDef]

Writing(c) == c.pc \in Writes /\ c.op = "write"

\* Every descriptor has a copy of its inode.
FdsAgree(F, T) ==
  /\ F \in [Procs -> [FdSlots -> FdType]]
  /\ \A p \in Procs, s \in FdSlots : F[p][s].file_type # "none" =>
       F[p][s].file_type = F[p][s].inode.type /\ CopyOK(T, F[p][s].inode)

\* Besides s, no descriptor is open on the file i.
OpenOnce(f, s, i) ==
  \A t \in FdSlots \ {s} : f[t].file_type = "regular_file" => f[t].inode.inode_index # i

\* The writer has the inodes themselves, but for the one it writes.
FdWriter(f, T, c) ==
  /\ \A s \in FdSlots : f[s].file_type = "regular_file" /\ ~(Writing(c) /\ s = c.fd) =>
       f[s].inode = T[f[s].inode.inode_index]
  /\ Writing(c) => /\ c.fd \in FdSlots /\ f[c.fd].file_type = "regular_file"
                   /\ f[c.fd].inode.inode_index = c.ino.inode_index
                   /\ OpenOnce(f, c.fd, c.ino.inode_index)

Pending(c, e) == e + (IF c.pc = "UpdateNew" THEN 1 ELSE 0)

\* The processes that only read.
OthersOK(w, T, K) ==
  /\ DOMAIN K = Procs
  /\ \A p \in Procs \ {w} : FrameOK(T, K[p]) /\ OnlyReads(K[p])

\* The writer w is in the call c, and there have been e crashes.
WriterIn(w, B, T, D, c, f, e) ==
  /\ FrameOK(T, c) /\ WriterOK(B, T, D, c)
  /\ FdWriter(f, T, c)
  /\ DirsBounded(T, Pending(c, e))

Good(w, B, T, D, K, F, e) ==
  /\ DiskOK(B, T, D) /\ OthersOK(w, T, K) /\ FdsAgree(F, T)
  /\ e \in Nat /\ e <= MaxCrashes
  /\ WriterIn(w, B, T, D, K[w], F[w], e)

IInv(w) == Good(w, bmap, itab, data, call, fds, crashes)
-----------------------------------------------------------------------------
(* Numbers *)

(* A position is in the block of its place. *)
LEMMA DivIs ==
  ASSUME NEW x \in Nat
  PROVE  /\ x \div BlockSize \in Nat
         /\ x % BlockSize \in 0..(BlockSize - 1)
         /\ x = (x \div BlockSize) * BlockSize + (x % BlockSize)
         /\ (x \div BlockSize) * BlockSize <= x
         /\ x < (x \div BlockSize) * BlockSize + BlockSize
<1>0. BlockSize \in Nat \ {0}
  BY SizeAssumption
<1>1. PICK q, r : q = x \div BlockSize /\ r = x % BlockSize
  OBVIOUS
<1>2. q \in Int /\ r \in 0..(BlockSize - 1) /\ x = BlockSize * q + r
  BY <1>0, <1>1, DivMod
<1>3. q < 0 => BlockSize * q <= -BlockSize
  BY <1>0, <1>2
<1>4. q >= 0
  BY <1>0, <1>2, <1>3
<1>5. BlockSize * q = q * BlockSize
  BY <1>0, <1>2
<1> QED
  BY <1>0, <1>1, <1>2, <1>4, <1>5

(* Different places are a block apart. *)
LEMMA Steps ==
  ASSUME NEW a \in Int, NEW b \in Int, a < b
  PROVE  a * BlockSize \in Int /\ b * BlockSize \in Int /\ a * BlockSize + BlockSize <= b * BlockSize
<1>0. BlockSize \in Nat \ {0}
  BY SizeAssumption
<1>1. b - a >= 1
  OBVIOUS
<1>2. (b - a) * BlockSize >= BlockSize
  BY <1>0, <1>1
<1>3. (b - a) * BlockSize = b * BlockSize - a * BlockSize
  BY <1>0
<1> QED
  BY <1>0, <1>2, <1>3

(* The place of a position is unique. *)
LEMMA PlaceIs ==
  ASSUME NEW x \in Nat, NEW k \in Int, k * BlockSize <= x, x < k * BlockSize + BlockSize
  PROVE  x \div BlockSize = k
<1>0. BlockSize \in Nat \ {0}
  BY SizeAssumption
<1>1. PICK q : q = x \div BlockSize
  OBVIOUS
<1>2. q \in Nat /\ q * BlockSize <= x /\ x < q * BlockSize + BlockSize
  BY <1>1, DivIs
<1>3. q < k => q * BlockSize + BlockSize <= k * BlockSize
  BY <1>2, Steps
<1>4. k < q => k * BlockSize + BlockSize <= q * BlockSize
  BY <1>2, Steps
<1>5. q * BlockSize \in Int /\ k * BlockSize \in Int
  BY <1>0, <1>2
<1> QED
  BY <1>0, <1>1, <1>2, <1>3, <1>4, <1>5

(* The places of a file are those that begin before its end. *)
LEMMA InPlaces ==
  ASSUME NEW n, n.size \in Nat, NEW k
  PROVE  k \in Places(n) <=> k \in Nat /\ k * BlockSize < n.size
<1>0. BlockSize \in Nat \ {0}
  BY SizeAssumption
<1>1. PICK x, q : x = n.size + BlockSize - 1 /\ q = x \div BlockSize
  OBVIOUS
<1>2. x \in Nat /\ Places(n) = 0..(q - 1)
  BY <1>0, <1>1 DEF Places
<1>3. q \in Nat /\ q * BlockSize <= x /\ x < q * BlockSize + BlockSize
  BY <1>1, <1>2, DivIs
<1>4. ASSUME NEW j \in Nat, j < q PROVE j * BlockSize < n.size
  <2>1. j * BlockSize + BlockSize <= q * BlockSize
    BY <1>3, <1>4, Steps
  <2>2. j * BlockSize \in Int /\ q * BlockSize \in Int
    BY <1>0, <1>3
  <2> QED
    BY <1>0, <1>1, <1>3, <2>1, <2>2
<1>5. ASSUME NEW j \in Nat, j >= q PROVE ~(j * BlockSize < n.size)
  <2>1. j > q => q * BlockSize + BlockSize <= j * BlockSize
    BY <1>3, <1>5, Steps
  <2>2. j * BlockSize \in Int /\ q * BlockSize \in Int
    BY <1>0, <1>3
  <2>3. q * BlockSize <= j * BlockSize
    BY <1>0, <1>3, <1>5, <2>1, <2>2
  <2>4. n.size <= q * BlockSize
    BY <1>0, <1>1, <1>3, <2>2
  <2> QED
    BY <2>2, <2>3, <2>4
<1> QED
  BY <1>2, <1>3, <1>4, <1>5

-----------------------------------------------------------------------------
(* Steps on the disk *)

(* Inodes have fields. *)
LEMMA InodeFields ==
  ASSUME NEW n \in InodeDef
  PROVE  /\ n.inode_index \in Inums /\ n.type \in FileType
         /\ n.size \in Nat /\ n.size <= MaxSupportFileSize
         /\ n.addr \in [0..Direct -> 0..BlockNum]
         /\ \A k \in 0..Direct : n.addr[k] \in 0..BlockNum
         /\ Direct \in 0..Direct
<1>1. Direct \in 0..Direct /\ MaxSupportFileSize \in Nat
  <2>1. BlockSize \in Nat /\ Direct \in Nat
    BY SizeAssumption
  <2> QED
    BY <2>1 DEF MaxSupportFileSize
<1>2. /\ n.inode_index \in Inums /\ n.type \in FileType
      /\ n.size \in 0..MaxSupportFileSize /\ n.addr \in [0..Direct -> 0..BlockNum]
  BY DEF InodeDef
<1> QED
  BY <1>1, <1>2

(* Inodes with the same fields are the same. *)
LEMMA SameInode ==
  ASSUME NEW n \in InodeDef, NEW m \in InodeDef, n.inode_index = m.inode_index,
         n.type = m.type, n.size = m.size, n.addr = m.addr
  PROVE  n = m
<1>1. /\ m = [inode_index |-> m.inode_index, type |-> m.type, size |-> m.size, addr |-> m.addr]
      /\ n = [inode_index |-> n.inode_index, type |-> n.type, size |-> n.size, addr |-> n.addr]
  BY DEF InodeDef
<1> QED
  BY <1>1, Zenon

\* The places that two disks have in common: all of them, all but one, which
\* gets the block x, or all but two, which get x and y.
SamePlaces(T, D, T2, D2) ==
  \A i \in Inums, k \in AllPlaces : At(T2, D2, i, k) = At(T, D, i, k)
OneFilled(T, D, T2, D2, j, l, x) ==
  \A i \in Inums, k \in AllPlaces :
    \/ At(T2, D2, i, k) = At(T, D, i, k)
    \/ i = j /\ k = l /\ At(T2, D2, i, k) = x
TwoFilled(T, D, T2, D2, j, l, x, m, y) ==
  \A i \in Inums, k \in AllPlaces :
    \/ At(T2, D2, i, k) = At(T, D, i, k)
    \/ i = j /\ k = l /\ At(T2, D2, i, k) = x
    \/ i = j /\ k = m /\ At(T2, D2, i, k) = y

(* Blocks keep one owner when new blocks get a place. *)
LEMMA OwnedTwo ==
  ASSUME NEW B, NEW T, NEW D, Owned(B, T, D), NEW T2, NEW D2, NEW x, NEW y, x # y,
         Extra(B, T, D, x), Extra(B, T, D, y), NEW j, NEW l, NEW m,
         TwoFilled(T, D, T2, D2, j, l, x, m, y)
  PROVE  Owned(B, T2, D2)
BY DEF Owned, Extra, TwoFilled

(* One new block. *)
LEMMA OwnedOne ==
  ASSUME NEW B, NEW T, NEW D, Owned(B, T, D), NEW T2, NEW D2, NEW x,
         Extra(B, T, D, x), NEW j, NEW l, OneFilled(T, D, T2, D2, j, l, x)
  PROVE  Owned(B, T2, D2)
BY DEF Owned, Extra, OneFilled

(* No new block. *)
LEMMA OwnedSame ==
  ASSUME NEW B, NEW T, NEW D, Owned(B, T, D), NEW T2, NEW D2, SamePlaces(T, D, T2, D2)
  PROVE  Owned(B, T2, D2)
BY DEF Owned, SamePlaces

(* A block is marked in the bitmap. *)
LEMMA Marked ==
  ASSUME NEW B, NEW T, NEW D, DiskOK(B, T, D), NEW b \in Blocks \ B, NEW C, C = B \cup {b}
  PROVE  /\ DiskOK(C, T, D) /\ Extra(C, T, D, b) /\ ~ByMkfs(b)
         /\ \A x : Extra(B, T, D, x) => Extra(C, T, D, x) /\ x # b
<1>1. b # 0 /\ b \in 1..BlockNum
  BY DEF Blocks
<1>2. Owned(B, T, D) /\ Owned(C, T, D)
  BY DEF DiskOK, Owned
<1>3. Extra(C, T, D, b)
  BY <1>1, <1>2 DEF Extra, Owned
<1>4. ~ByMkfs(b)
  BY <1>1 DEF DiskOK
<1>5. DiskOK(C, T, D)
  BY <1>2 DEF DiskOK
<1> QED
  BY <1>3, <1>4, <1>5 DEF Extra

\* The block x of the disk is overwritten with v.
DataWritten(D, D2, x, v) ==
  /\ DOMAIN D2 = 0..BlockNum /\ D2[x] = v
  /\ \A b \in 0..BlockNum : b # x => D2[b] = D[b]

\* The block x is no indirect block.
NoIndirect(T, x) == \A j \in Inums : T[j].addr[Direct] # x

(* A block of the disk is overwritten that is no indirect block. *)
LEMMA AtStays ==
  ASSUME NEW T, NEW D, NEW D2, NEW x, NEW v, DataWritten(D, D2, x, v), TableOK(T),
         NoIndirect(T, x)
  PROVE  SamePlaces(T, D, T, D2)
<1>1. ASSUME NEW i \in Inums PROVE D2[T[i].addr[Direct]] = D[T[i].addr[Direct]]
  <2>1. T[i] \in InodeDef
    BY DEF TableOK
  <2>2. T[i].addr[Direct] \in 0..BlockNum
    BY <2>1, InodeFields
  <2> QED
    BY <2>2 DEF DataWritten, NoIndirect
<1> QED
  BY <1>1 DEF At, SamePlaces

-----------------------------------------------------------------------------
(* Frames of calls *)

(* A process that is in no call. *)
LEMMA IdleIs ==
  /\ DOMAIN Idle = Fields
  /\ Idle.pc = "user" /\ Idle.op = "none" /\ Idle.level = 0 /\ Idle.inodes = <<>>
  /\ Idle.arg = <<>> /\ Idle.done = 0 /\ Idle.res = 0
BY DEF Idle, Fields

(* The frame of a call that is over. *)
LEMMA ReturnedIs ==
  ASSUME NEW c, NEW r, NEW f, f = Returned(c, r)
  PROVE  DOMAIN f = Fields /\ f.pc = "ret" /\ f.inodes = <<>>
BY IdleIs DEF Returned, Fields

\* The writer is neither creating nor writing.
Calm(c) == /\ c.pc \in {"user", "ret", "GetInode", "IteratorDir", "Read", "ReadData"}

(* Such a frame says nothing of the disk, but for blocks of the inode table. *)
LEMMA CalmWriter ==
  ASSUME NEW B, NEW T, NEW D, NEW c, Calm(c),
         \A j \in DOMAIN c.inodes : j \in Inums => c.inodes[j] = T[j]
  PROVE  WriterOK(B, T, D, c) /\ ~Writing(c) /\ \A e \in Nat : Pending(c, e) = e
BY DEF Calm, WriterOK, Writes, Writing, Pending

(* A step of one process that leaves the disk alone. *)
LEMMA QuietStep ==
  ASSUME NEW w \in Procs, NEW p \in Procs, IInv(w), NEW f, Step(p, f),
         UNCHANGED <<disk, crashes>>, FrameOK(itab, f), FdsAgree(fds', itab),
         p # w => OnlyReads(f) /\ fds'[w] = fds[w],
         p = w => /\ WriterOK(bmap, itab, data, f) /\ FdWriter(fds'[w], itab, f)
                  /\ DirsBounded(itab, Pending(f, crashes))
  PROVE  IInv(w)'
<1>1. /\ DiskOK(bmap, itab, data) /\ OthersOK(w, itab, call)
      /\ crashes \in Nat /\ crashes <= MaxCrashes
      /\ WriterIn(w, bmap, itab, data, call[w], fds[w], crashes)
  BY DEF IInv, Good
<1>2. bmap' = bmap /\ itab' = itab /\ data' = data /\ crashes' = crashes
  BY DEF disk
<1>3. /\ DOMAIN call' = Procs
      /\ \A q \in Procs : call'[q] = IF q = p THEN f ELSE call[q]
  BY <1>1 DEF Step, OthersOK
<1>4. OthersOK(w, itab, call')
  BY <1>1, <1>3 DEF OthersOK
<1>5. WriterIn(w, bmap, itab, data, call'[w], fds'[w], crashes)
  <2>1. CASE p = w
    BY <1>3, <2>1 DEF WriterIn
  <2>2. CASE p # w
    BY <1>1, <1>3, <2>2
  <2> QED
    BY <2>1, <2>2
<1>6. Good(w, bmap', itab', data', call', fds', crashes')
  BY <1>1, <1>2, <1>4, <1>5 DEF Good
<1> QED
  BY <1>6 DEF IInv

(* A step of one process to a calm frame, with the same descriptors. *)
LEMMA CalmStep ==
  ASSUME NEW w \in Procs, NEW p \in Procs, IInv(w), NEW f, Step(p, f),
         UNCHANGED <<disk, fds, crashes>>, FrameOK(itab, f), Calm(f),
         f.inodes = <<>> \/ f.inodes = call[p].inodes,
         p # w => OnlyReads(f), Calm(call[p]) \/ call[p].pc \in {"CreateImpl", "AllocInode"}
  PROVE  IInv(w)'
<1>1. /\ FdsAgree(fds, itab) /\ crashes \in Nat
      /\ WriterIn(w, bmap, itab, data, call[w], fds[w], crashes)
  BY DEF IInv, Good
<1>2. FdsAgree(fds', itab)
  BY <1>1
<1>3. ASSUME p = w
      PROVE  /\ WriterOK(bmap, itab, data, f) /\ FdWriter(fds'[w], itab, f)
             /\ DirsBounded(itab, Pending(f, crashes))
  <2>1. \A j \in DOMAIN f.inodes : j \in Inums => f.inodes[j] = itab[j]
    BY <1>1, <1>3 DEF WriterIn, WriterOK
  <2>2. WriterOK(bmap, itab, data, f) /\ ~Writing(f) /\ Pending(f, crashes) = crashes
    BY <1>1, <2>1, CalmWriter
  <2>3. ~Writing(call[w]) /\ Pending(call[w], crashes) = crashes
    BY <1>1, <1>3 DEF Writing, Writes, Pending, Calm
  <2>4. FdWriter(fds[w], itab, call[w]) /\ DirsBounded(itab, crashes)
    BY <1>1, <2>3 DEF WriterIn
  <2>5. FdWriter(fds'[w], itab, f)
    BY <2>2, <2>3, <2>4 DEF FdWriter
  <2> QED
    BY <2>2, <2>4, <2>5
<1> QED
  BY <1>2, <1>3, QuietStep

-----------------------------------------------------------------------------
(* Walks *)

(* The least element of a set of natural numbers. *)
LEMMA MinIs ==
  ASSUME NEW S \in SUBSET Nat, S # {}
  PROVE  Min(S) \in S /\ \A x \in S : Min(S) <= x
<1>1. \E x \in S : \A y \in S : x <= y
  BY Least
<1>2. Min(S) = CHOOSE x \in S : \A y \in S : x <= y
  BY Zenon DEF Min
<1> QED
  BY <1>1, <1>2, Zenon

(* The lesser of two. *)
LEMMA MinTwo ==
  ASSUME NEW a \in Nat, NEW b \in Nat
  PROVE  /\ Min({a, b}) \in Nat /\ Min({a, b}) <= a /\ Min({a, b}) <= b
         /\ Min({a, b}) = a \/ Min({a, b}) = b
<1>1. PICK S : S = {a, b}
  OBVIOUS
<1>2. Min(S) \in S /\ \A x \in S : Min(S) <= x
  BY <1>1, MinIs
<1> QED
  BY <1>1, <1>2

(* An inode of the table is the table's entry for its index. *)
LEMMA TableIs ==
  ASSUME NEW T, TableOK(T), NEW i \in Inums
  PROVE  /\ T[i] \in InodeDef
         /\ T[i].type # "none" => T[i].inode_index = i /\ CopyOK(T, T[i])
<1>1. T[i] \in InodeDef
  BY DEF TableOK
<1>2. T[i].size <= T[i].size
  BY <1>1, InodeFields
<1> QED
  BY <1>1, <1>2 DEF TableOK, CopyOK

\* One slot may have got the inode n.
SlotsBut(f, f2, n) == \A s \in FdSlots : f2[s] = f[s] \/ f2[s].inode = n

(* A descriptor is taken for an inode, or none is left. *)
LEMMA Installed ==
  ASSUME NEW p \in Procs, NEW T, FdsAgree(fds, T), NEW c, NEW n, n \in InodeDef,
         InstallFd(p, c, n.type, n), n.type # "none" => CopyOK(T, n)
  PROVE  /\ FdsAgree(fds', T) /\ \E r : Step(p, Returned(c, r))
         /\ \A q \in Procs \ {p} : fds'[q] = fds[q]
         /\ SlotsBut(fds[p], fds'[p], n)
<1>1. CASE FreeFds(p) = {}
  BY <1>1 DEF InstallFd, SlotsBut
<1>2. CASE FreeFds(p) # {}
  <2>1. PICK s : s = Min(FreeFds(p))
    OBVIOUS
  <2>2. s \in FdSlots
    <3>1. FreeFds(p) \in SUBSET Nat
      BY DEF FreeFds, FdSlots
    <3> QED
      BY <1>2, <2>1, <3>1, MinIs DEF FreeFds
  <2>3. PICK d : d = [file_type |-> n.type, offset |-> 0, inode |-> n]
    OBVIOUS
  <2>4. /\ fds' = [fds EXCEPT ![p][s] = d] /\ Step(p, Returned(c, s))
    BY <1>2, <2>1, <2>3 DEF InstallFd
  <2>5. d \in FdType /\ d.file_type = n.type /\ d.inode = n
    BY <2>3, InodeFields DEF FdType
  <2>6. fds \in [Procs -> [FdSlots -> FdType]]
    BY DEF FdsAgree
  <2>7. /\ fds' \in [Procs -> [FdSlots -> FdType]]
        /\ \A q \in Procs, x \in FdSlots :
             fds'[q][x] = IF q = p /\ x = s THEN d ELSE fds[q][x]
        /\ \A q \in Procs \ {p} : fds'[q] = fds[q]
    BY <2>2, <2>4, <2>5, <2>6
  <2>8. FdsAgree(fds', T)
    BY <2>5, <2>7 DEF FdsAgree
  <2> QED
    BY <2>2, <2>4, <2>5, <2>7, <2>8 DEF SlotsBut
<1> QED
  BY <1>1, <1>2

(* The call of a calm process is over, with a descriptor for an inode. *)
LEMMA InstallStep ==
  ASSUME NEW w \in Procs, NEW p \in Procs, IInv(w), NEW c, NEW i \in Inums,
         InstallFd(p, c, itab[i].type, itab[i]), UNCHANGED <<disk, crashes>>, Calm(call[p])
  PROVE  IInv(w)'
<1>1. /\ FdsAgree(fds, itab) /\ DiskOK(bmap, itab, data) /\ crashes \in Nat
      /\ WriterIn(w, bmap, itab, data, call[w], fds[w], crashes)
  BY DEF IInv, Good
<1>2. TableOK(itab)
  BY <1>1 DEF DiskOK
<1>3. PICK n : n = itab[i]
  OBVIOUS
<1>4. n \in InodeDef /\ (n.type # "none" => n.inode_index = i /\ CopyOK(itab, n))
  BY <1>2, <1>3, TableIs
<1>5. /\ FdsAgree(fds', itab) /\ \E r : Step(p, Returned(c, r))
      /\ \A q \in Procs \ {p} : fds'[q] = fds[q]
      /\ \A s \in FdSlots : fds'[p][s] = fds[p][s] \/ fds'[p][s].inode = n
  <2>1. InstallFd(p, c, n.type, n)
    BY <1>3 DEF InstallFd
  <2> QED
    BY <1>1, <1>4, <2>1, Installed DEF SlotsBut
<1>6. PICK r : Step(p, Returned(c, r))
  BY <1>5
<1>7. PICK f : f = Returned(c, r)
  OBVIOUS
<1>8. DOMAIN f = Fields /\ f.pc = "ret" /\ f.inodes = <<>>
  BY <1>7, ReturnedIs
<1>9. FrameOK(itab, f) /\ OnlyReads(f) /\ Calm(f)
  BY <1>8 DEF FrameOK, OnlyReads, Calm
<1>10. WriterOK(bmap, itab, data, f) /\ ~Writing(f) /\ Pending(f, crashes) = crashes
  BY <1>1, <1>8, <1>9, CalmWriter
<1>11. ASSUME p = w
       PROVE  FdWriter(fds'[w], itab, f) /\ DirsBounded(itab, Pending(f, crashes))
  <2>1. ~Writing(call[w]) /\ Pending(call[w], crashes) = crashes
    BY <1>1, <1>11 DEF Writing, Writes, Pending, Calm
  <2>2. FdWriter(fds[w], itab, call[w]) /\ DirsBounded(itab, crashes)
    BY <1>1, <2>1 DEF WriterIn
  <2>3. ASSUME NEW s \in FdSlots, fds'[w][s].file_type = "regular_file"
        PROVE  fds'[w][s].inode = itab[fds'[w][s].inode.inode_index]
    <3>1. fds'[w][s].inode = n => n.type = "regular_file"
      BY <1>5, <2>3 DEF FdsAgree
    <3>2. CASE fds'[w][s].inode = n
      BY <1>3, <1>4, <3>1, <3>2
    <3>3. CASE fds'[w][s] = fds[w][s]
      BY <2>1, <2>2, <2>3, <3>3 DEF FdWriter
    <3> QED
      BY <1>5, <1>11, <3>2, <3>3
  <2> QED
    BY <1>10, <2>2, <2>3 DEF FdWriter
<1> QED
  BY <1>5, <1>6, <1>7, <1>9, <1>10, <1>11, QuietStep

(* What IInv says of a process that walks or has returned. *)
LEMMA CalmIs ==
  ASSUME NEW w \in Procs, NEW p \in Procs, IInv(w)
  PROVE  /\ FrameOK(itab, call[p]) /\ TableOK(itab)
         /\ p # w => OnlyReads(call[p])
         /\ p = w => WriterOK(bmap, itab, data, call[w])
         /\ Root \in Inums /\ \A i \in Inums : itab[i] \in InodeDef
<1>1. FrameOK(itab, call[p]) /\ TableOK(itab) /\ (p # w => OnlyReads(call[p]))
  BY DEF IInv, Good, OthersOK, WriterIn, DiskOK
<1>2. Root \in Inums
  BY SizeAssumption DEF Root, Inums
<1>3. p = w => WriterOK(bmap, itab, data, call[w])
  BY DEF IInv, Good, WriterIn
<1> QED
  BY <1>1, <1>2, <1>3 DEF TableOK

(* sys_open and sys_chdir begin. *)
LEMMA CallOpenOK ==
  ASSUME NEW w \in Procs, NEW p \in Procs, IInv(w), NEW op \in {"open", "chdir"},
         CallOpen(p, op)
  PROVE  IInv(w)'
<1>1. PICK x, l : Step(p, [Idle EXCEPT !.pc = "GetInode", !.op = op, !.path = x,
                            !.left = l, !.cur = Root])
  BY DEF CallOpen
<1>2. PICK f : f = [Idle EXCEPT !.pc = "GetInode", !.op = op, !.path = x, !.left = l, !.cur = Root]
  OBVIOUS
<1>3. /\ DOMAIN f = Fields /\ f.pc = "GetInode" /\ f.op = op /\ f.cur = Root /\ f.level = 0
      /\ f.inodes = <<>>
  BY <1>2, IdleIs DEF Fields
<1>4. FrameOK(itab, f) /\ OnlyReads(f) /\ Calm(f)
  BY <1>3, CalmIs DEF FrameOK, WalkOK, OnlyReads, Calm
<1>5. Step(p, f) /\ UNCHANGED <<disk, fds, crashes>> /\ Calm(call[p])
  BY <1>1, <1>2 DEF CallOpen, Enter, Calm, Step
<1> QED
  BY <1>3, <1>4, <1>5, CalmStep

(* sys_create, sys_mkdir and sys_mknod begin: only the writer has paths. *)
LEMMA CallCreateOK ==
  ASSUME NEW w \in Procs, NEW p \in Procs, IInv(w), OneWriter(w),
         NEW op \in {"create", "mkdir", "mknod"}, NEW type \in FileType \ {"none"},
         CallCreate(p, op, type), op = "create" => call'[p].pc # "ret"
  PROVE  IInv(w)'
<1>1. PICK x, f : /\ f = [Idle EXCEPT !.pc = "GetInode", !.op = op, !.type = type, !.path = x,
                                      !.level = 1, !.left = 1, !.cur = Root]
                  /\ \/ Step(p, f) /\ UNCHANGED fds
                     \/ op = "create" /\ InstallFd(p, f, type, EmptyInode)
                     \/ op # "create" /\ Step(p, Returned(f, 0)) /\ UNCHANGED fds
  BY Zenon DEF CallCreate
<1>2. UNCHANGED <<disk, crashes>> /\ Calm(call[p])
  BY DEF CallCreate, Enter, Calm
<1>3. CASE Step(p, f) /\ UNCHANGED fds
  <2>1. /\ DOMAIN f = Fields /\ f.pc = "GetInode" /\ f.op = op /\ f.cur = Root
        /\ f.type = type /\ f.inodes = <<>>
    BY <1>1, IdleIs DEF Fields
  <2>2. FrameOK(itab, f) /\ Calm(f)
    BY <2>1, CalmIs DEF FrameOK, WalkOK, Calm
  <2>3. p = w
    BY DEF CallCreate, OneWriter
  <2> QED
    BY <1>2, <1>3, <2>1, <2>2, <2>3, CalmStep
<1>4. CASE op # "create" /\ Step(p, Returned(f, 0)) /\ UNCHANGED fds
  <2>1. PICK g : g = Returned(f, 0)
    OBVIOUS
  <2>2. DOMAIN g = Fields /\ g.pc = "ret" /\ g.inodes = <<>>
    BY <2>1, ReturnedIs
  <2>3. FrameOK(itab, g) /\ OnlyReads(g) /\ Calm(g)
    BY <2>2 DEF FrameOK, OnlyReads, Calm
  <2>4. Step(p, g)
    BY <1>4, <2>1
  <2> QED
    BY <1>2, <1>4, <2>2, <2>3, <2>4, CalmStep
<1>5. CASE op = "create" /\ InstallFd(p, f, type, EmptyInode)
  <2>1. PICK r : Step(p, Returned(f, r))
    BY <1>5 DEF InstallFd
  <2>2. PICK g : g = Returned(f, r)
    OBVIOUS
  <2>3. g.pc = "ret" /\ call' = [call EXCEPT ![p] = g] /\ p \in DOMAIN call
    BY <2>1, <2>2, ReturnedIs DEF Step, IInv, Good, OthersOK
  <2> QED
    BY <1>5, <2>3
<1> QED
  BY <1>1, <1>3, <1>4, <1>5

(* sys_close. *)
LEMMA CallCloseOK ==
  ASSUME NEW w \in Procs, NEW p \in Procs, IInv(w), CallClose(p)
  PROVE  IInv(w)'
<1>1. /\ FdsAgree(fds, itab) /\ crashes \in Nat
      /\ WriterIn(w, bmap, itab, data, call[w], fds[w], crashes)
  BY DEF IInv, Good
<1>2. Step(p, Idle) /\ UNCHANGED <<disk, crashes>> /\ Calm(call[p])
  BY DEF CallClose, Enter, Calm
<1>3. PICK s \in FdSlots : fds' = [fds EXCEPT ![p][s] = EmptyFd]
  BY DEF CallClose
<1>4. EmptyFd \in FdType /\ EmptyFd.file_type = "none"
  <2>1. EmptyInode \in InodeDef
    BY SizeAssumption, CalmIs DEF EmptyInode, InodeDef, Root, MaxSupportFileSize, FileType
  <2> QED
    BY <2>1 DEF EmptyFd, FdType, FileType
<1>5. PICK d : d = EmptyFd
  OBVIOUS
<1>6. /\ fds' \in [Procs -> [FdSlots -> FdType]]
      /\ \A q \in Procs, x \in FdSlots :
           fds'[q][x] = IF q = p /\ x = s THEN d ELSE fds[q][x]
      /\ \A q \in Procs \ {p} : fds'[q] = fds[q]
  BY <1>1, <1>3, <1>4, <1>5 DEF FdsAgree
<1>7. FdsAgree(fds', itab)
  BY <1>1, <1>4, <1>5, <1>6 DEF FdsAgree
<1>8. FrameOK(itab, Idle) /\ OnlyReads(Idle) /\ Calm(Idle) /\ DOMAIN Idle.inodes = {}
  BY IdleIs DEF FrameOK, OnlyReads, Calm
<1>9. WriterOK(bmap, itab, data, Idle) /\ ~Writing(Idle) /\ Pending(Idle, crashes) = crashes
  BY <1>1, <1>8, CalmWriter
<1>10. ASSUME p = w
       PROVE  FdWriter(fds'[w], itab, Idle) /\ DirsBounded(itab, Pending(Idle, crashes))
  <2>1. ~Writing(call[w]) /\ Pending(call[w], crashes) = crashes
    BY <1>1, <1>2, <1>10 DEF Writing, Writes, Pending, Calm
  <2>2. FdWriter(fds[w], itab, call[w]) /\ DirsBounded(itab, crashes)
    BY <1>1, <2>1 DEF WriterIn
  <2> QED
    BY <1>4, <1>5, <1>6, <1>9, <2>1, <2>2 DEF FdWriter
<1> QED
  BY <1>2, <1>6, <1>7, <1>8, <1>9, <1>10, QuietStep

(* OpenImpl has found nothing. *)
LEMMA NotFoundOK ==
  ASSUME NEW w \in Procs, NEW p \in Procs, IInv(w), call[p].pc \in {"GetInode", "IteratorDir"},
         NotFound(p, call[p]), UNCHANGED <<disk, crashes>>
  PROVE  IInv(w)'
<1>1. PICK c : c = call[p]
  OBVIOUS
<1>2. FrameOK(itab, c) /\ WalkOK(itab, c) /\ (p # w => OnlyReads(c)) /\ Calm(c)
  BY <1>1, CalmIs DEF FrameOK, Calm
<1>3. CASE c.level = 0
  <2>1. PICK f : f = Returned(c, -1)
    OBVIOUS
  <2>2. DOMAIN f = Fields /\ f.pc = "ret" /\ f.inodes = <<>>
    BY <2>1, ReturnedIs
  <2>3. FrameOK(itab, f) /\ OnlyReads(f) /\ Calm(f)
    BY <2>2 DEF FrameOK, OnlyReads, Calm
  <2>4. Step(p, f) /\ UNCHANGED fds
    BY <1>1, <1>3, <2>1 DEF NotFound, Step
  <2> QED
    BY <1>1, <1>2, <2>2, <2>3, <2>4, CalmStep
<1>4. CASE c.level # 0
  <2>1. PICK f : f = [c EXCEPT !.pc = "CreateImpl"]
    OBVIOUS
  <2>2. /\ DOMAIN f = Fields /\ f.pc = "CreateImpl" /\ f.op = c.op /\ f.level = c.level
        /\ f.type = c.type /\ f.cur = c.cur /\ f.inodes = c.inodes
    BY <1>2, <2>1 DEF FrameOK, Fields
  <2>3. p = w
    BY <1>1, <1>2, <1>4 DEF OnlyReads
  <2>4. Step(p, f) /\ UNCHANGED fds
    BY <1>1, <1>4, <2>1 DEF NotFound, Step
  <2>5. /\ FdsAgree(fds, itab) /\ crashes \in Nat
        /\ WriterIn(w, bmap, itab, data, c, fds[w], crashes)
    BY <1>1, <2>3 DEF IInv, Good
  <2>6. FrameOK(itab, f)
    BY <2>2 DEF FrameOK
  <2>7. WriterOK(bmap, itab, data, f)
    BY <1>2, <1>4, <2>2, <2>5 DEF WriterOK, WriterIn, WalkOK, Writes
  <2>8. FdWriter(fds[w], itab, f) /\ DirsBounded(itab, Pending(f, crashes))
    BY <1>2, <2>2, <2>5 DEF FdWriter, WriterIn, Writing, Writes, Pending, Calm
  <2>9. FdsAgree(fds', itab) /\ FdWriter(fds'[w], itab, f)
    BY <2>4, <2>5, <2>8
  <2> QED
    BY <2>3, <2>4, <2>6, <2>7, <2>8, <2>9, QuietStep
<1> QED
  BY <1>3, <1>4

(* The number of free inodes. *)
LEMMA FreeCount ==
  ASSUME NEW T
  PROVE  /\ IsFiniteSet(FreeInums(T)) /\ Cardinality(FreeInums(T)) \in Nat
         /\ \A i \in FreeInums(T) : Cardinality(FreeInums(T)) >= 1
<1>1. IsFiniteSet(Inums)
  <2>1. 0 \in Int /\ InodeNum - 1 \in Int
    BY SizeAssumption
  <2> QED
    BY <2>1, FS_Interval DEF Inums
<1>2. FreeInums(T) \subseteq Inums
  BY DEF FreeInums
<1>3. IsFiniteSet(FreeInums(T))
  BY <1>1, <1>2, FS_Subset
<1>4. Cardinality(FreeInums(T)) \in Nat
  BY <1>3, FS_CardinalityType
<1>5. Cardinality(FreeInums(T)) = 0 => FreeInums(T) = {}
  BY <1>3, FS_EmptySet
<1> QED
  BY <1>3, <1>4, <1>5

\* A directory has only direct blocks.
DirsSmall(T) ==
  \A i \in Inums : T[i].type = "directory" => T[i].size <= Direct * BlockSize

(* No directory outgrows its direct blocks. *)
LEMMA DirSmall ==
  ASSUME NEW w, NEW B, NEW T, NEW D, NEW c, NEW f, NEW e \in Nat, e <= MaxCrashes,
         TableOK(T), WriterIn(w, B, T, D, c, f, e)
  PROVE  DirsSmall(T)
<1>1. SUFFICES ASSUME NEW i \in Inums, T[i].type = "directory"
               PROVE  T[i].size <= Direct * BlockSize
  BY DEF DirsSmall
<1>2. PICK n : n = Cardinality(FreeInums(T))
  OBVIOUS
<1>3. n \in Nat /\ \A j \in FreeInums(T) : n >= 1
  BY <1>2, FreeCount
<1>4. T[i].size + n <= InodeNum - 1 + Pending(c, e)
  BY <1>1, <1>2 DEF WriterIn, DirsBounded
<1>5. c.pc = "UpdateNew" => n >= 1
  BY <1>3 DEF WriterIn, WriterOK, CreateOK, FreeInums
<1>6. T[i].size \in Nat
  BY InodeFields DEF TableOK
<1>7. Pending(c, e) = IF c.pc = "UpdateNew" THEN e + 1 ELSE e
  BY DEF Pending
<1>8. PICK m : m = Direct * BlockSize
  OBVIOUS
<1>9. m \in Int /\ InodeNum - 1 + MaxCrashes <= m
  <2>1. Direct \in Nat /\ BlockSize \in Nat
    BY SizeAssumption
  <2> QED
    BY <1>8, <2>1, DirectoryAssumption
<1>10. InodeNum \in Nat /\ MaxCrashes \in Nat
  BY SizeAssumption
<1> QED
  BY <1>3, <1>4, <1>5, <1>6, <1>7, <1>8, <1>9, <1>10

(* A place of a small directory has a block. *)
LEMMA DirPlace ==
  ASSUME NEW B, NEW T, NEW D, DiskOK(B, T, D), DirsSmall(T),
         NEW i \in Inums, T[i].type = "directory", NEW x \in Nat, x < T[i].size
  PROVE  /\ x \div BlockSize \in 0..(Direct - 1) /\ x \div BlockSize \in AllPlaces
         /\ T[i].addr[x \div BlockSize] = At(T, D, i, x \div BlockSize)
         /\ T[i].addr[x \div BlockSize] # 0
<1>1. PICK k : k = x \div BlockSize
  OBVIOUS
<1>2. BlockSize \in Nat \ {0} /\ Direct \in Nat
  BY SizeAssumption
<1>3. k \in Nat /\ k * BlockSize <= x
  BY <1>1, DivIs
<1>4. T[i].size \in Nat /\ T[i].size <= Direct * BlockSize
  BY InodeFields DEF DiskOK, TableOK, DirsSmall
<1>5. k * BlockSize \in Int /\ Direct * BlockSize \in Int
  BY <1>2, <1>3
<1>6. k * BlockSize < T[i].size /\ k * BlockSize < Direct * BlockSize
  BY <1>3, <1>4, <1>5
<1>7. Direct < k => Direct * BlockSize + BlockSize <= k * BlockSize
  BY <1>2, <1>3, Steps
<1>8. k < Direct
  BY <1>2, <1>3, <1>5, <1>6, <1>7
<1>9. k \in AllPlaces /\ At(T, D, i, k) # 0
  BY <1>3, <1>6 DEF DiskOK, Covered
<1>10. At(T, D, i, k) = T[i].addr[k]
  BY <1>3, <1>8 DEF At
<1> QED
  BY <1>1, <1>2, <1>3, <1>8, <1>9, <1>10

(* OpenImpl reads the inode of the next name. *)
LEMMA GetInodeOK ==
  ASSUME NEW w \in Procs, NEW p \in Procs, IInv(w), GetInode(p)
  PROVE  IInv(w)'
<1>1. PICK c, n : c = call[p] /\ n = itab[c.cur]
  OBVIOUS
<1>2. /\ FrameOK(itab, c) /\ WalkOK(itab, c) /\ (p # w => OnlyReads(c)) /\ Calm(c)
      /\ TableOK(itab) /\ c.pc = "GetInode"
  BY <1>1, CalmIs DEF FrameOK, Calm, GetInode
<1>3. UNCHANGED <<disk, crashes>> /\ c.cur \in Inums /\ Calm(call[p])
  BY <1>1, <1>2 DEF GetInode, WalkOK
<1>4. n \in InodeDef /\ (n.type # "none" => n.inode_index = c.cur /\ CopyOK(itab, n))
  BY <1>1, <1>2, <1>3, TableIs
<1>5. ASSUME NEW r, Step(p, Returned(c, r)), UNCHANGED fds PROVE IInv(w)'
  <2>1. PICK f : f = Returned(c, r)
    OBVIOUS
  <2>2. DOMAIN f = Fields /\ f.pc = "ret" /\ f.inodes = <<>>
    BY <2>1, ReturnedIs
  <2>3. FrameOK(itab, f) /\ OnlyReads(f) /\ Calm(f)
    BY <2>2 DEF FrameOK, OnlyReads, Calm
  <2>4. Step(p, f)
    BY <1>5, <2>1
  <2> QED
    BY <1>3, <1>5, <2>2, <2>3, <2>4, CalmStep
<1>6. ASSUME NEW t, InstallFd(p, c, t, n), t = n.type PROVE IInv(w)'
  <2>1. InstallFd(p, c, itab[c.cur].type, itab[c.cur])
    BY <1>1, <1>6 DEF InstallFd
  <2> QED
    BY <1>3, <2>1, InstallStep
<1>7. ASSUME c.level > 0, Step(p, NextLevel(c)), UNCHANGED fds PROVE IInv(w)'
  <2>1. PICK f : f = NextLevel(c)
    OBVIOUS
  <2>2. /\ DOMAIN f = Fields /\ f.pc = "GetInode" /\ f.op = c.op /\ f.type = c.type
        /\ f.cur = c.cur /\ f.inodes = c.inodes
    BY <1>2, <2>1 DEF FrameOK, Fields, NextLevel
  <2>3. c.level # 0
    BY <1>7
  <2>4. FrameOK(itab, f) /\ Calm(f) /\ p = w
    BY <1>2, <2>2, <2>3 DEF FrameOK, WalkOK, Calm, OnlyReads
  <2>5. Step(p, f)
    BY <1>7, <2>1
  <2> QED
    BY <1>1, <1>3, <1>7, <2>2, <2>4, <2>5, CalmStep
<1>8. ASSUME n.type = "directory", UNCHANGED fds,
             Step(p, [c EXCEPT !.pc = "IteratorDir", !.ino = n, !.off = 0])
      PROVE  IInv(w)'
  <2>1. PICK f : f = [c EXCEPT !.pc = "IteratorDir", !.ino = n, !.off = 0]
    OBVIOUS
  <2>2. /\ DOMAIN f = Fields /\ f.pc = "IteratorDir" /\ f.op = c.op /\ f.type = c.type
        /\ f.level = c.level /\ f.cur = c.cur /\ f.ino = n /\ f.off = 0 /\ f.inodes = c.inodes
    BY <1>2, <2>1 DEF FrameOK, Fields
  <2>3. FrameOK(itab, f) /\ Calm(f) /\ (p # w => OnlyReads(f))
    BY <1>2, <1>4, <1>8, <2>2 DEF FrameOK, WalkOK, Calm, OnlyReads
  <2>4. Step(p, f)
    BY <1>8, <2>1
  <2> QED
    BY <1>1, <1>3, <1>8, <2>2, <2>3, <2>4, CalmStep
<1>9. CASE Found(p, c, n)
  <2>1. CASE c.op = "open" /\ InstallFd(p, c, n.type, n)
    BY <1>6, <2>1
  <2>2. CASE Step(p, Returned(c, IF n.type = "directory" THEN 0 ELSE -1)) /\ UNCHANGED fds
    BY <1>5, <2>2
  <2>3. CASE c.level > 0 /\ Step(p, NextLevel(c)) /\ UNCHANGED fds
    BY <1>7, <2>3
  <2>4. CASE n.type = c.type /\ InstallFd(p, c, c.type, n)
    BY <1>6, <2>4
  <2>5. CASE Step(p, Returned(c, IF n.type = c.type THEN 0 ELSE -1)) /\ UNCHANGED fds
    BY <1>5, <2>5
  <2> QED
    BY <1>9, <2>1, <2>2, <2>3, <2>4, <2>5 DEF Found, SysChdir, CreateFinds
<1>10. CASE NotFound(p, c)
  <2>1. NotFound(p, call[p])
    BY <1>1, <1>10 DEF NotFound
  <2> QED
    BY <1>1, <1>2, <1>3, <2>1, NotFoundOK
<1>11. \/ Found(p, c, n) \/ NotFound(p, c)
       \/ /\ n.type = "directory" /\ UNCHANGED fds
          /\ Step(p, [c EXCEPT !.pc = "IteratorDir", !.ino = n, !.off = 0])
  <2>1. \/ Found(p, call[p], itab[call[p].cur]) \/ NotFound(p, call[p])
        \/ /\ itab[call[p].cur].type = "directory" /\ UNCHANGED fds
           /\ Step(p, [call[p] EXCEPT !.pc = "IteratorDir", !.ino = itab[call[p].cur], !.off = 0])
    BY DEF GetInode
  <2>2. CASE Found(p, call[p], itab[call[p].cur])
    BY <1>1, <2>2 DEF Found, SysChdir, CreateFinds, InstallFd
  <2>3. CASE NotFound(p, call[p])
    BY <1>1, <2>3 DEF NotFound
  <2> QED
    BY <1>1, <2>1, <2>2, <2>3 DEF Step
<1> QED
  BY <1>8, <1>9, <1>10, <1>11

(* IteratorDir looks at a block of a directory: it is there, and what it    *)
(* finds is an inode.                                                       *)
LEMMA IteratorDirOK ==
  ASSUME NEW w \in Procs, NEW p \in Procs, IInv(w), IteratorDir(p)
  PROVE  IInv(w)'
<1>1. PICK c : c = call[p]
  OBVIOUS
<1>2. /\ FrameOK(itab, c) /\ WalkOK(itab, c) /\ (p # w => OnlyReads(c)) /\ Calm(c)
      /\ TableOK(itab) /\ c.pc = "IteratorDir"
  BY <1>1, CalmIs DEF FrameOK, Calm, IteratorDir
<1>3. UNCHANGED <<disk, crashes>> /\ Calm(call[p])
  BY <1>1, <1>2 DEF IteratorDir
<1>4. CASE NotFound(p, call[p])
  BY <1>1, <1>2, <1>3, <1>4, NotFoundOK
<1>5. CASE ~NotFound(p, call[p])
  <2>1. PICK n, k, block : n = c.ino /\ k = c.off \div BlockSize /\ block = n.addr[k]
    OBVIOUS
  <2>2. /\ c.off < n.size /\ UNCHANGED fds
        /\ Step(p, IF block = 0 THEN [c EXCEPT !.pc = "panic"]
                   ELSE IF Matches(c) = {} THEN [c EXCEPT !.off = @ + BlockSize]
                   ELSE [c EXCEPT !.pc = "GetInode", !.left = @ - 1,
                           !.cur = data[block][Min(Matches(c)) % BlockSize].val])
    <3>1. /\ call[p].off < call[p].ino.size /\ UNCHANGED fds
          /\ call' = [call EXCEPT ![p] =
               IF call[p].ino.addr[call[p].off \div BlockSize] = 0 THEN [call[p] EXCEPT !.pc = "panic"]
               ELSE IF Matches(call[p]) = {} THEN [call[p] EXCEPT !.off = @ + BlockSize]
               ELSE [call[p] EXCEPT !.pc = "GetInode", !.left = @ - 1,
                       !.cur = data[call[p].ino.addr[call[p].off \div BlockSize]]
                                   [Min(Matches(call[p])) % BlockSize].val]]
      BY <1>5, Zenon DEF IteratorDir, Step
    <3> QED
      BY <1>1, <2>1, <3>1, Zenon DEF Step
  <2>3. /\ CopyOK(itab, n) /\ n.type = "directory" /\ c.off \in Nat
    BY <1>2, <2>1 DEF WalkOK
  <2>4. PICK i : i = n.inode_index
    OBVIOUS
  <2>5. /\ i \in Inums /\ itab[i].type = "directory" /\ n.size \in Nat
        /\ itab[i].size \in Nat /\ n.size <= itab[i].size
    BY <1>2, <2>3, <2>4, InodeFields DEF CopyOK, TableOK
  <2>6. DiskOK(bmap, itab, data) /\ DirsSmall(itab)
    BY DirSmall DEF IInv, Good, DiskOK
  <2>7. /\ k \in 0..(Direct - 1) /\ itab[i].addr[k] # 0
    <3>1. c.off < itab[i].size
      BY <2>2, <2>3, <2>5
    <3> QED
      BY <2>1, <2>3, <2>5, <2>6, <3>1, DirPlace
  <2>8. block = itab[i].addr[k] /\ block # 0
    <3>1. BlockSize \in Nat \ {0} /\ Direct \in Nat
      BY SizeAssumption
    <3>2. k \in Nat /\ k * BlockSize <= c.off
      BY <2>1, <2>3, DivIs
    <3>3. k * BlockSize < n.size
      BY <2>2, <2>3, <2>5, <3>1, <3>2
    <3>4. k \in 0..Direct
      BY <2>7, <3>1
    <3> QED
      BY <2>1, <2>3, <2>4, <2>7, <3>3, <3>4 DEF CopyOK
  <2>9. CASE Matches(c) = {}
    <3>1. PICK f : f = [c EXCEPT !.off = @ + BlockSize]
      OBVIOUS
    <3>2. /\ DOMAIN f = Fields /\ f.pc = "IteratorDir" /\ f.op = c.op /\ f.type = c.type
          /\ f.level = c.level /\ f.cur = c.cur /\ f.ino = c.ino /\ f.off = c.off + BlockSize
          /\ f.inodes = c.inodes
      BY <1>2, <3>1 DEF FrameOK, Fields
    <3>3. f.off \in Nat
      BY <2>3, <3>2, SizeAssumption
    <3>4. FrameOK(itab, f) /\ Calm(f) /\ (p # w => OnlyReads(f))
      BY <1>2, <3>2, <3>3 DEF FrameOK, WalkOK, Calm, OnlyReads
    <3>5. Step(p, f)
      BY <2>2, <2>8, <2>9, <3>1 DEF Step
    <3> QED
      BY <1>1, <1>3, <2>2, <3>2, <3>4, <3>5, CalmStep
  <2>10. CASE Matches(c) # {}
    <3>1. PICK m : m = Min(Matches(c))
      OBVIOUS
    <3>2. m \in Matches(c)
      <4>1. Matches(c) \in SUBSET Nat
        BY <2>1, <2>3, <2>5 DEF Matches
      <4> QED
        BY <2>10, <3>1, <4>1, MinIs
    <3>3. m \in Nat /\ m <= n.size - 1 /\ m \div BlockSize = k
      BY <2>1, <2>3, <2>5, <3>2 DEF Matches
    <3>4. m \in 0..(itab[i].size - 1)
      BY <2>5, <3>3
    <3>5. data[block][m % BlockSize].val \in Inums
      BY <2>5, <2>6, <2>8, <3>3, <3>4 DEF DiskOK, DirsLead
    <3>6. PICK f, v : /\ v = data[block][m % BlockSize].val
                      /\ f = [c EXCEPT !.pc = "GetInode", !.left = @ - 1, !.cur = v]
      OBVIOUS
    <3>7. /\ DOMAIN f = Fields /\ f.pc = "GetInode" /\ f.op = c.op /\ f.type = c.type
          /\ f.level = c.level /\ f.cur = v /\ f.inodes = c.inodes
      BY <1>2, <3>6 DEF FrameOK, Fields
    <3>8. FrameOK(itab, f) /\ Calm(f) /\ (p # w => OnlyReads(f))
      BY <1>2, <3>5, <3>6, <3>7 DEF FrameOK, WalkOK, Calm, OnlyReads
    <3>9. Step(p, f)
      BY <2>2, <2>8, <2>10, <3>1, <3>6 DEF Step
    <3> QED
      BY <1>1, <1>3, <2>2, <3>7, <3>8, <3>9, CalmStep
  <2> QED
    BY <2>9, <2>10
<1> QED
  BY <1>4, <1>5

-----------------------------------------------------------------------------
(* Reads *)

(* How much of a piece is read. *)
LEMMA ReadableIs ==
  ASSUME NEW n \in InodeDef, NEW x \in Nat, NEW l \in Nat
  PROVE  Readable(n, x, l) \in Nat
<1>1. n.size \in Nat
  BY InodeFields
<1>2. x <= n.size => n.size - x \in Nat
  BY <1>1
<1>3. x <= n.size => Min({n.size - x, l}) \in Nat
  BY <1>2, MinTwo
<1> QED
  BY <1>1, <1>3 DEF Readable

(* sys_read begins. *)
LEMMA CallReadOK ==
  ASSUME NEW w \in Procs, NEW p \in Procs, IInv(w), CallRead(p)
  PROVE  IInv(w)'
<1>1. PICK s \in FdSlots, bufs \in ReadBufs(p) :
        Step(p, [Idle EXCEPT !.pc = "Read", !.op = "read", !.fd = s,
                   !.ino = fds[p][s].inode, !.start = fds[p][s].offset, !.pos = fds[p][s].offset,
                   !.first = Head(bufs), !.bufs = Tail(bufs),
                   !.left = Readable(fds[p][s].inode, fds[p][s].offset, Head(bufs))])
  BY DEF CallRead
<1>2. PICK x, n, h, l : /\ x = fds[p][s].offset /\ n = fds[p][s].inode /\ h = Head(bufs)
                        /\ l = Readable(n, x, h)
  OBVIOUS
<1>3. PICK f : f = [Idle EXCEPT !.pc = "Read", !.op = "read", !.fd = s, !.ino = n, !.start = x,
                      !.pos = x, !.first = h, !.bufs = Tail(bufs), !.left = l]
  OBVIOUS
<1>4. Step(p, f)
  BY <1>1, <1>2, <1>3
<1>5. x \in Nat /\ n \in InodeDef
  <2>1. fds[p][s] \in FdType
    BY DEF IInv, Good, FdsAgree
  <2> QED
    BY <1>2, <2>1 DEF FdType
<1>6. h \in Nat /\ Tail(bufs) \in Seq(Nat)
  BY <1>2, SizeAssumption
<1>7. l \in Nat
  BY <1>2, <1>5, <1>6, ReadableIs
<1>8. /\ DOMAIN f = Fields /\ f.pc = "Read" /\ f.fd = s /\ f.ino = n /\ f.pos = x
      /\ f.bufs = Tail(bufs) /\ f.left = l /\ f.inodes = <<>> /\ f.arg = <<>> /\ f.done = 0
  BY <1>3, IdleIs DEF Fields
<1>9. IsSeq(<<>>)
  <2>1. <<>> \in Seq(Nat)
    OBVIOUS
  <2> QED
    BY <2>1 DEF IsSeq
<1>10. FrameOK(itab, f) /\ OnlyReads(f) /\ Calm(f)
  BY <1>5, <1>6, <1>7, <1>8, <1>9 DEF FrameOK, ReadOK, OnlyReads, Calm
<1>11. UNCHANGED <<disk, fds, crashes>> /\ Calm(call[p])
  BY DEF CallRead, Enter, Calm
<1> QED
  BY <1>4, <1>8, <1>10, <1>11, CalmStep

(* FileStream::Read goes on, or sys_read returns. *)
LEMMA ReadReturnsOK ==
  ASSUME NEW w \in Procs, NEW p \in Procs, IInv(w), call[p].pc = "Read",
         NEW c, c = call[p], ReadReturns(p, c), UNCHANGED <<disk, crashes>>
  PROVE  IInv(w)'
<1>1. FrameOK(itab, c) /\ ReadOK(c) /\ (p # w => OnlyReads(c)) /\ Calm(c)
  BY CalmIs DEF FrameOK, Calm
<1>2. CASE /\ c.bufs # <<>> /\ UNCHANGED fds
           /\ Step(p, [c EXCEPT !.first = Head(c.bufs), !.bufs = Tail(c.bufs), !.done = 0,
                         !.left = Readable(c.ino, c.pos, Head(c.bufs)), !.ind = BlankBlock])
  <2>1. PICK l, h, t : h = Head(c.bufs) /\ t = Tail(c.bufs) /\ l = Readable(c.ino, c.pos, h)
    OBVIOUS
  <2>2. h \in Nat /\ t \in Seq(Nat)
    BY <1>1, <1>2, <2>1 DEF ReadOK
  <2>3. l \in Nat
    BY <1>1, <2>1, <2>2, ReadableIs DEF ReadOK
  <2>4. PICK f : f = [c EXCEPT !.first = h, !.bufs = t, !.done = 0, !.left = l, !.ind = BlankBlock]
    OBVIOUS
  <2>5. /\ DOMAIN f = Fields /\ f.pc = c.pc /\ f.fd = c.fd /\ f.ino = c.ino /\ f.pos = c.pos
        /\ f.bufs = t /\ f.left = l /\ f.inodes = c.inodes /\ f.arg = c.arg /\ f.done = 0
    BY <1>1, <2>4 DEF FrameOK, Fields
  <2>6. FrameOK(itab, f) /\ OnlyReads(f) /\ Calm(f)
    BY <1>1, <2>2, <2>3, <2>5 DEF FrameOK, ReadOK, OnlyReads, Calm
  <2>7. Step(p, f)
    BY <1>2, <2>1, <2>4
  <2> QED
    BY <1>1, <1>2, <2>5, <2>6, <2>7, CalmStep
<1>3. CASE /\ fds' = [fds EXCEPT ![p][c.fd].offset = @ + Len(c.arg)]
           /\ Step(p, Returned(c, Len(c.arg)))
  <2>1. /\ FdsAgree(fds, itab) /\ crashes \in Nat
        /\ WriterIn(w, bmap, itab, data, call[w], fds[w], crashes)
    BY DEF IInv, Good
  <2>2. Len(c.arg) \in Nat
    <3>1. PICK S : c.arg \in Seq(S)
      BY <1>1 DEF ReadOK, IsSeq
    <3> QED
      BY <3>1
  <2>3. PICK s, d : s = c.fd /\ d = [fds[p][s] EXCEPT !.offset = @ + Len(c.arg)]
    OBVIOUS
  <2>4. s \in FdSlots /\ fds \in [Procs -> [FdSlots -> FdType]] /\ fds[p][s] \in FdType
    BY <1>1, <2>1, <2>3 DEF ReadOK, FdsAgree
  <2>5. d \in FdType /\ d.file_type = fds[p][s].file_type /\ d.inode = fds[p][s].inode
    <3>1. PICK g, l : g = fds[p][s] /\ l = Len(c.arg)
      OBVIOUS
    <3>2. /\ DOMAIN g = {"file_type", "offset", "inode"} /\ g.offset \in Nat
          /\ g.file_type \in FileType /\ g.inode \in InodeDef
      BY <2>4, <3>1 DEF FdType
    <3>3. d = [file_type |-> g.file_type, offset |-> g.offset + l, inode |-> g.inode]
      BY <2>3, <3>1, <3>2
    <3>4. g.offset + l \in Nat
      BY <2>2, <3>1, <3>2
    <3> QED
      BY <3>1, <3>2, <3>3, <3>4 DEF FdType
  <2>6. fds' = [fds EXCEPT ![p][s] = d]
    BY <1>3, <2>3
  <2>7. /\ fds' \in [Procs -> [FdSlots -> FdType]]
        /\ \A q \in Procs, x \in FdSlots :
             fds'[q][x] = IF q = p /\ x = s THEN d ELSE fds[q][x]
        /\ \A q \in Procs \ {p} : fds'[q] = fds[q]
    BY <2>4, <2>5, <2>6
  <2>8. \A q \in Procs, x \in FdSlots : /\ fds'[q][x].file_type = fds[q][x].file_type
                                        /\ fds'[q][x].inode = fds[q][x].inode
    BY <2>5, <2>7
  <2>9. FdsAgree(fds', itab)
    BY <2>1, <2>7, <2>8 DEF FdsAgree
  <2>10. PICK f : f = Returned(c, Len(c.arg))
    OBVIOUS
  <2>11. DOMAIN f = Fields /\ f.pc = "ret" /\ f.inodes = <<>>
    BY <2>10, ReturnedIs
  <2>12. FrameOK(itab, f) /\ OnlyReads(f) /\ Calm(f)
    BY <2>11 DEF FrameOK, OnlyReads, Calm
  <2>13. WriterOK(bmap, itab, data, f) /\ ~Writing(f) /\ Pending(f, crashes) = crashes
    BY <2>1, <2>11, <2>12, CalmWriter
  <2>14. ASSUME p = w
         PROVE  FdWriter(fds'[w], itab, f) /\ DirsBounded(itab, Pending(f, crashes))
    <3>1. ~Writing(call[w]) /\ Pending(call[w], crashes) = crashes
      BY <1>1, <2>1, <2>14 DEF Writing, Writes, Pending, Calm
    <3>2. FdWriter(fds[w], itab, call[w]) /\ DirsBounded(itab, crashes)
      BY <2>1, <3>1 DEF WriterIn
    <3> QED
      BY <2>8, <2>13, <3>1, <3>2 DEF FdWriter
  <2>15. Step(p, f)
    BY <1>3, <2>10
  <2> QED
    BY <2>7, <2>9, <2>12, <2>13, <2>14, <2>15, QuietStep
<1> QED
  BY <1>2, <1>3 DEF ReadReturns

(* FileStream::Read reads a block, or the indirect block. *)
LEMMA ReadStepOK ==
  ASSUME NEW w \in Procs, NEW p \in Procs, IInv(w), Read(p)
  PROVE  IInv(w)'
<1>1. PICK c : c = call[p]
  OBVIOUS
<1>2. /\ FrameOK(itab, c) /\ ReadOK(c) /\ (p # w => OnlyReads(c)) /\ Calm(c)
      /\ c.pc \in {"Read", "ReadData"} /\ UNCHANGED <<disk, crashes>>
  <2>1. call[p].pc \in {"Read", "ReadData"} /\ UNCHANGED <<disk, crashes>>
    BY DEF Read
  <2> QED
    BY <1>1, <2>1, CalmIs DEF FrameOK, Calm
<1>3. CASE ReadReturns(p, call[p]) /\ call[p].pc = "Read"
  <2>1. ReadReturns(p, c)
    BY <1>1, <1>3 DEF ReadReturns
  <2> QED
    BY <1>1, <1>2, <1>3, <2>1, ReadReturnsOK
<1>4. CASE ~(ReadReturns(p, call[p]) /\ call[p].pc = "Read")
  <2>0. PICK n, block, bytes :
          /\ n = Min({call[p].left, BlockSize - (call[p].pos % BlockSize)})
          /\ bytes = [k \in 1..n |-> data[block][(call[p].pos % BlockSize) + k - 1]]
          /\ \/ Step(p, [call[p] EXCEPT !.pc = "ReadData", !.ind = data[call[p].ino.addr[Direct]]])
             \/ Step(p, [call[p] EXCEPT !.pc = "Read", !.left = @ - n, !.pos = @ + n,
                                        !.done = @ + n, !.arg = @ \o bytes])
          /\ UNCHANGED fds
    BY <1>4, Zenon DEF Read
  <2>1. /\ n = Min({c.left, BlockSize - (c.pos % BlockSize)})
        /\ bytes = [k \in 1..n |-> bytes[k]] /\ UNCHANGED fds
        /\ \/ Step(p, [c EXCEPT !.pc = "ReadData", !.ind = data[c.ino.addr[Direct]]])
           \/ Step(p, [c EXCEPT !.pc = "Read", !.left = @ - n, !.pos = @ + n, !.done = @ + n,
                                !.arg = @ \o bytes])
    <3>1. bytes = [k \in 1..n |-> bytes[k]]
      BY <2>0
    <3>2. n = Min({c.left, BlockSize - (c.pos % BlockSize)})
      BY <1>1, <2>0
    <3>3. \/ Step(p, [c EXCEPT !.pc = "ReadData", !.ind = data[c.ino.addr[Direct]]])
          \/ Step(p, [c EXCEPT !.pc = "Read", !.left = @ - n, !.pos = @ + n, !.done = @ + n,
                               !.arg = @ \o bytes])
      BY <1>1, <2>0, Zenon DEF Step
    <3> QED
      BY <2>0, <3>1, <3>2, <3>3
  <2>2. n \in Nat /\ n <= c.left
    <3>1. c.pos % BlockSize \in 0..(BlockSize - 1) /\ BlockSize \in Nat
      BY <1>2, DivIs, SizeAssumption DEF ReadOK
    <3>2. BlockSize - (c.pos % BlockSize) \in Nat
      BY <3>1
    <3> QED
      BY <1>2, <2>1, <3>2, MinTwo DEF ReadOK
  <2>3. CASE Step(p, [c EXCEPT !.pc = "ReadData", !.ind = data[c.ino.addr[Direct]]])
    <3>1. PICK f : f = [c EXCEPT !.pc = "ReadData", !.ind = data[c.ino.addr[Direct]]]
      OBVIOUS
    <3>2. /\ DOMAIN f = Fields /\ f.pc = "ReadData" /\ f.fd = c.fd /\ f.ino = c.ino /\ f.pos = c.pos
          /\ f.bufs = c.bufs /\ f.left = c.left /\ f.inodes = c.inodes /\ f.arg = c.arg
          /\ f.done = c.done
      BY <1>2, <3>1 DEF FrameOK, Fields
    <3>3. FrameOK(itab, f) /\ OnlyReads(f) /\ Calm(f)
      BY <1>2, <3>2 DEF FrameOK, ReadOK, OnlyReads, Calm
    <3>4. Step(p, f)
      BY <2>3, <3>1
    <3> QED
      BY <1>1, <1>2, <2>1, <3>2, <3>3, <3>4, CalmStep
  <2>4. CASE Step(p, [c EXCEPT !.pc = "Read", !.left = @ - n, !.pos = @ + n, !.done = @ + n,
                                !.arg = @ \o bytes])
    <3>1. PICK f : f = [c EXCEPT !.pc = "Read", !.left = @ - n, !.pos = @ + n, !.done = @ + n,
                            !.arg = @ \o bytes]
      OBVIOUS
    <3>2. /\ DOMAIN f = Fields /\ f.pc = "Read" /\ f.fd = c.fd /\ f.ino = c.ino
          /\ f.pos = c.pos + n /\ f.bufs = c.bufs /\ f.left = c.left - n
          /\ f.inodes = c.inodes /\ f.arg = c.arg \o bytes /\ f.done = c.done + n
      BY <1>2, <3>1 DEF FrameOK, Fields
    <3>3. IsSeq(c.arg \o bytes)
      <4>1. PICK S : c.arg \in Seq(S)
        BY <1>2 DEF ReadOK, IsSeq
      <4>2. PICK U : U = S \cup {bytes[k] : k \in 1..n}
        OBVIOUS
      <4>3. c.arg \in Seq(U)
        BY <4>1, <4>2
      <4>4. bytes \in Seq(U)
        <5>1. bytes = [k \in 1..n |-> bytes[k]]
          BY <2>1
        <5>2. \A k \in 1..n : bytes[k] \in U
          BY <4>2
        <5> QED
          BY <2>2, <5>1, <5>2
      <4> QED
        BY <4>3, <4>4 DEF IsSeq
    <3>4. f.pos \in Nat /\ f.left \in Nat /\ f.done \in Nat
      BY <1>2, <2>2, <3>2 DEF ReadOK
    <3>5. FrameOK(itab, f) /\ OnlyReads(f) /\ Calm(f)
      BY <1>2, <3>2, <3>3, <3>4 DEF FrameOK, ReadOK, OnlyReads, Calm
    <3>6. Step(p, f)
      BY <2>4, <3>1
    <3> QED
      BY <1>1, <1>2, <2>1, <3>2, <3>5, <3>6, CalmStep
  <2> QED
    BY <2>1, <2>3, <2>4
<1> QED
  BY <1>3, <1>4

-----------------------------------------------------------------------------
(* The writer *)

(* A step of the writer: copies of inodes stay good. *)
LEMMA WriterStep ==
  ASSUME NEW w \in Procs, IInv(w), NEW f, Step(w, f), crashes' = crashes,
         DiskOK(bmap', itab', data'), \A n : CopyOK(itab, n) => CopyOK(itab', n),
         FdsAgree(fds', itab'), WriterIn(w, bmap', itab', data', f, fds'[w], crashes)
  PROVE  IInv(w)'
<1>1. OthersOK(w, itab, call) /\ crashes \in Nat /\ crashes <= MaxCrashes
  BY DEF IInv, Good
<1>2. /\ DOMAIN call' = Procs
      /\ \A q \in Procs : call'[q] = IF q = w THEN f ELSE call[q]
  BY <1>1 DEF Step, OthersOK
<1>3. \A q \in Procs \ {w} : FrameOK(itab', call[q])
  BY <1>1 DEF OthersOK, FrameOK, WalkOK
<1>4. OthersOK(w, itab', call')
  BY <1>1, <1>2, <1>3 DEF OthersOK
<1>5. Good(w, bmap', itab', data', call', fds', crashes')
  BY <1>1, <1>2, <1>4 DEF Good
<1> QED
  BY <1>5 DEF IInv

(* The writer is in the middle of a write. *)
LEMMA WriteFrame ==
  ASSUME NEW w, NEW B, NEW T, NEW D, NEW c, NEW f, NEW fd, NEW e \in Nat,
         DOMAIN f = Fields, f.pc \in Writes, WriteOK(B, T, D, f),
         \A j \in DOMAIN f.inodes : j \in Inums => f.inodes[j] = T[j],
         DirsBounded(T, e), FdWriter(fd, T, c), Writing(c) \/ ~Writing(f),
         Writing(c) => Writing(f) /\ f.fd = c.fd /\ f.ino.inode_index = c.ino.inode_index
  PROVE  WriterIn(w, B, T, D, f, fd, e)
<1>1. FrameOK(T, f) /\ Pending(f, e) = e
  BY DEF FrameOK, Writes, Pending
<1>2. WriterOK(B, T, D, f)
  BY DEF WriterOK, Writes
<1>3. FdWriter(fd, T, f)
  BY DEF FdWriter
<1> QED
  BY <1>1, <1>2, <1>3 DEF WriterIn

(* What IInv says of the writer when it is creating or writing. *)
LEMMA WriterIs ==
  ASSUME NEW w \in Procs, IInv(w), NEW p \in Procs, ~Calm(call[p])
  PROVE  /\ p = w /\ crashes \in Nat
         /\ DiskOK(bmap, itab, data) /\ TableOK(itab) /\ FdsAgree(fds, itab)
         /\ DOMAIN call[w] = Fields /\ WriterOK(bmap, itab, data, call[w])
         /\ FdWriter(fds[w], itab, call[w]) /\ DirsSmall(itab)
         /\ DirsBounded(itab, Pending(call[w], crashes))
<1>1. p = w
  BY DEF IInv, Good, OthersOK, OnlyReads, Calm
<1>2. /\ DiskOK(bmap, itab, data) /\ FdsAgree(fds, itab)
      /\ WriterIn(w, bmap, itab, data, call[w], fds[w], crashes)
      /\ crashes \in Nat /\ crashes <= MaxCrashes
  BY DEF IInv, Good
<1>3. TableOK(itab)
  BY <1>2 DEF DiskOK
<1>4. DirsSmall(itab)
  BY <1>2, <1>3, DirSmall
<1> QED
  BY <1>1, <1>2, <1>3, <1>4 DEF WriterIn, FrameOK

(* A quiet step of the writer to a frame that is not about a write. *)
LEMMA OtherFrame ==
  ASSUME NEW w \in Procs, IInv(w), ~Calm(call[w]), call[w].pc # "UpdateNew", ~Writing(call[w]),
         NEW f, Step(w, f), UNCHANGED <<disk, fds, crashes>>,
         FrameOK(itab, f), WriterOK(bmap, itab, data, f), ~Writing(f)
  PROVE  IInv(w)'
<1>1. /\ crashes \in Nat /\ FdsAgree(fds, itab) /\ FdWriter(fds[w], itab, call[w])
      /\ DirsBounded(itab, Pending(call[w], crashes)) /\ DiskOK(bmap, itab, data)
  BY WriterIs
<1>2. FdWriter(fds'[w], itab, f) /\ FdsAgree(fds', itab)
  BY <1>1 DEF FdWriter
<1>3. DirsBounded(itab, Pending(f, crashes))
  <2>1. DirsBounded(itab, crashes)
    BY <1>1 DEF Pending
  <2>2. \A i \in Inums : itab[i].size \in Nat
    BY <1>1, InodeFields DEF DiskOK, TableOK
  <2>3. Cardinality(FreeInums(itab)) \in Nat /\ InodeNum \in Nat
    BY FreeCount, SizeAssumption
  <2> QED
    BY <1>1, <2>1, <2>2, <2>3 DEF DirsBounded, Pending
<1> QED
  BY <1>2, <1>3, QuietStep

(* The call of the writer is over without a descriptor. *)
LEMMA WriterReturns ==
  ASSUME NEW w \in Procs, IInv(w), ~Calm(call[w]), call[w].pc # "UpdateNew", ~Writing(call[w]),
         NEW c, NEW r, Step(w, Returned(c, r)), UNCHANGED <<disk, fds, crashes>>
  PROVE  IInv(w)'
<1>1. PICK f : f = Returned(c, r)
  OBVIOUS
<1>2. DOMAIN f = Fields /\ f.pc = "ret" /\ f.inodes = <<>>
  BY <1>1, ReturnedIs
<1>3. FrameOK(itab, f) /\ Calm(f)
  BY <1>2 DEF FrameOK, Calm
<1>4. WriterOK(bmap, itab, data, f) /\ ~Writing(f)
  BY <1>2, <1>3, CalmWriter
<1>5. Step(w, f)
  BY <1>1
<1> QED
  BY <1>3, <1>4, <1>5, OtherFrame

(* CreateImpl reads the directory. *)
LEMMA CreateImplOK ==
  ASSUME NEW w \in Procs, NEW p \in Procs, IInv(w), CreateImpl(p)
  PROVE  IInv(w)'
<1>1. PICK c : c = call[p]
  OBVIOUS
<1>2. c.pc = "CreateImpl" /\ UNCHANGED <<disk, fds, crashes>> /\ ~Calm(call[p])
  BY <1>1 DEF CreateImpl, Calm
<1>3. /\ p = w /\ TableOK(itab) /\ DOMAIN c = Fields /\ WriterOK(bmap, itab, data, c)
      /\ ~Writing(call[w]) /\ call[w].pc # "UpdateNew"
  BY <1>1, <1>2, WriterIs DEF Writing, Writes
<1>4. CASE itab[c.cur].type = "directory"
  <2>1. PICK f : f = [c EXCEPT !.pc = "AllocInode", !.ino = itab[c.cur], !.off = 0]
    OBVIOUS
  <2>2. /\ DOMAIN f = Fields /\ f.pc = "AllocInode" /\ f.ino = itab[c.cur] /\ f.off = 0
        /\ f.op = c.op /\ f.level = c.level /\ f.type = c.type /\ f.cur = c.cur
        /\ f.inodes = c.inodes
    BY <1>3, <2>1 DEF Fields
  <2>3. WriterOK(bmap, itab, data, f) /\ FrameOK(itab, f) /\ ~Writing(f)
    BY <1>2, <1>3, <1>4, <2>2 DEF WriterOK, FrameOK, Writes, Writing
  <2>4. Step(w, f)
    BY <1>1, <1>3, <1>4, <2>1 DEF CreateImpl, Step
  <2> QED
    BY <1>2, <1>3, <2>3, <2>4, OtherFrame
<1>5. CASE itab[c.cur].type # "directory"
  <2>1. Step(w, Returned(c, -1))
    BY <1>1, <1>3, <1>5 DEF CreateImpl, Step
  <2> QED
    BY <1>2, <1>3, <2>1, WriterReturns
<1> QED
  BY <1>4, <1>5

(* AllocInode finds a free inode, or reads the next block of the table. *)
LEMMA AllocInodeOK ==
  ASSUME NEW w \in Procs, NEW p \in Procs, IInv(w), AllocInode(p)
  PROVE  IInv(w)'
<1>1. PICK c : c = call[p]
  OBVIOUS
<1>2. c.pc = "AllocInode" /\ UNCHANGED <<disk, fds, crashes>> /\ ~Calm(call[p])
  BY <1>1 DEF AllocInode, Calm
<1>3. /\ p = w /\ TableOK(itab) /\ DOMAIN c = Fields /\ WriterOK(bmap, itab, data, c)
      /\ ~Writing(call[w]) /\ call[w].pc # "UpdateNew" /\ crashes \in Nat
      /\ DirsBounded(itab, crashes)
  BY <1>1, <1>2, WriterIs DEF Writing, Writes, Pending
<1>4. /\ c.op # "write" /\ c.level # 0 /\ c.type \in FileType \ {"none"} /\ c.cur \in Inums
      /\ c.ino = itab[c.cur] /\ c.ino.type = "directory" /\ c.off \in Nat
  BY <1>2, <1>3 DEF WriterOK
<1>5. PICK S : S = FreeInodes(c.off)
  OBVIOUS
<1>6. Step(w, IF S # {}
              THEN [c EXCEPT !.pc = "WriteImpl", !.new = Min(S),
                      !.rest = <<DirElement(Target(c), Min(S))>>, !.pos = c.ino.size]
              ELSE IF c.off < InodeBlock(InodeNum - 1) THEN [c EXCEPT !.off = @ + 1]
              ELSE Returned(c, -1))
  <2>1. Step(p, IF FreeInodes(call[p].off) # {}
             THEN [call[p] EXCEPT !.pc = "WriteImpl", !.new = Min(FreeInodes(call[p].off)),
                     !.rest = <<DirElement(Target(call[p]), Min(FreeInodes(call[p].off)))>>,
                     !.pos = call[p].ino.size]
             ELSE IF call[p].off < InodeBlock(InodeNum - 1) THEN [call[p] EXCEPT !.off = @ + 1]
             ELSE Returned(call[p], -1))
    BY Zenon DEF AllocInode
  <2> QED
    BY <1>1, <1>3, <1>5, <2>1, Zenon DEF Step
<1>7. CASE S # {}
  <2>1. PICK m, t : m = Min(S) /\ t = <<DirElement(Target(c), m)>>
    OBVIOUS
  <2>2. m \in Inums /\ itab[m].type = "none"
    <3>1. S \in SUBSET Nat /\ \A i \in S : i \in Inums /\ itab[i].type = "none"
      BY <1>5, SizeAssumption DEF FreeInodes, InodesOf, Inums
    <3> QED
      BY <1>7, <2>1, <3>1, MinIs
  <2>3. PICK f : f = [c EXCEPT !.pc = "WriteImpl", !.new = m, !.rest = t, !.pos = c.ino.size]
    OBVIOUS
  <2>4. /\ DOMAIN f = Fields /\ f.pc = "WriteImpl" /\ f.new = m /\ f.rest = t
        /\ f.pos = c.ino.size /\ f.ino = c.ino /\ f.op = c.op /\ f.level = c.level
        /\ f.type = c.type /\ f.inodes = c.inodes
    BY <1>3, <2>3 DEF Fields
  <2>5. /\ t # <<>> /\ Len(t) = 1 /\ t[1].val = m /\ IsSeq(t)
    <3>1. t \in Seq({DirElement(Target(c), m)})
      BY <2>1
    <3>2. t[1] = DirElement(Target(c), m) /\ Len(t) = 1 /\ t # <<>>
      BY <2>1
    <3> QED
      BY <3>1, <3>2 DEF IsSeq, DirElement
  <2>6. c.ino \in InodeDef /\ c.ino.inode_index = c.cur
    BY <1>3, <1>4, TableIs
  <2>7. c.ino.size \in Nat
    BY <2>6, InodeFields
  <2>8. c.ino.size + 1 <= Direct * BlockSize
    <3>1. PICK n : n = Cardinality(FreeInums(itab))
      OBVIOUS
    <3>2. n \in Nat /\ n >= 1
      BY <2>2, <3>1, FreeCount DEF FreeInums
    <3>3. c.ino.size + n <= InodeNum - 1 + crashes
      BY <1>3, <1>4, <3>1 DEF DirsBounded
    <3>4. PICK d : d = Direct * BlockSize
      OBVIOUS
    <3>5. d \in Int /\ InodeNum - 1 + MaxCrashes <= d
      BY <3>4, SizeAssumption, DirectoryAssumption
    <3>6. crashes <= MaxCrashes /\ MaxCrashes \in Nat /\ InodeNum \in Nat
      BY SizeAssumption DEF IInv, Good
    <3> QED
      BY <1>3, <2>7, <3>2, <3>3, <3>4, <3>5, <3>6
  <2>9. c.ino.size + 1 <= (Direct + 1) * BlockSize
    <3>1. Direct \in Int /\ Direct < Direct + 1 /\ BlockSize \in Nat
      BY SizeAssumption
    <3>2. PICK a, b : a = Direct * BlockSize /\ b = (Direct + 1) * BlockSize
      OBVIOUS
    <3>3. a \in Int /\ b \in Int /\ a + BlockSize <= b
      BY <3>1, <3>2, Steps
    <3> QED
      BY <2>7, <2>8, <3>1, <3>2, <3>3
  <2>10. CreateOK(itab, f)
    BY <1>4, <2>2, <2>4 DEF CreateOK
  <2>11. PieceOK(itab, f)
    BY <1>4, <2>4, <2>5, <2>6, <2>7, <2>8, <2>9, <2>10 DEF PieceOK, Fits
  <2>12. WriteOK(bmap, itab, data, f)
    BY <1>4, <2>4, <2>6, <2>11 DEF WriteOK
  <2>13. WriterOK(bmap, itab, data, f) /\ FrameOK(itab, f) /\ ~Writing(f)
    BY <1>3, <1>4, <2>4, <2>12 DEF WriterOK, FrameOK, Writing
  <2>14. Step(w, f)
    BY <1>6, <1>7, <2>1, <2>3 DEF Step
  <2> QED
    BY <1>2, <1>3, <2>13, <2>14, OtherFrame
<1>8. CASE S = {} /\ c.off < InodeBlock(InodeNum - 1)
  <2>1. PICK f : f = [c EXCEPT !.off = @ + 1]
    OBVIOUS
  <2>2. /\ DOMAIN f = Fields /\ f.pc = "AllocInode" /\ f.ino = c.ino /\ f.off = c.off + 1
        /\ f.op = c.op /\ f.level = c.level /\ f.type = c.type /\ f.cur = c.cur
        /\ f.inodes = c.inodes
    BY <1>2, <1>3, <2>1 DEF Fields
  <2>3. f.off \in Nat
    BY <1>4, <2>2
  <2>4. WriterOK(bmap, itab, data, f) /\ FrameOK(itab, f) /\ ~Writing(f)
    BY <1>3, <1>4, <2>2, <2>3 DEF WriterOK, FrameOK, Writes, Writing
  <2>5. Step(w, f)
    BY <1>6, <1>8, <2>1 DEF Step
  <2> QED
    BY <1>2, <1>3, <2>4, <2>5, OtherFrame
<1>9. CASE S = {} /\ ~(c.off < InodeBlock(InodeNum - 1))
  <2>1. Step(w, Returned(c, -1))
    BY <1>6, <1>9 DEF Step
  <2> QED
    BY <1>2, <1>3, <2>1, WriterReturns
<1> QED
  BY <1>7, <1>8, <1>9

(* UpdateInode reads a block of the inode table. *)
LEMMA UpdateInodeReadOK ==
  ASSUME NEW w \in Procs, NEW p \in Procs, IInv(w), UpdateInodeRead(p)
  PROVE  IInv(w)'
<1>1. PICK c : c = call[p]
  OBVIOUS
<1>2. c.pc \in {"UpdateSize", "UpdateNew"} /\ UNCHANGED <<disk, fds, crashes>> /\ ~Calm(call[p])
  BY <1>1 DEF UpdateInodeRead, Calm
<1>3. /\ p = w /\ TableOK(itab) /\ DOMAIN c = Fields /\ WriterOK(bmap, itab, data, c)
      /\ crashes \in Nat /\ FdsAgree(fds, itab) /\ FdWriter(fds[w], itab, c)
      /\ DirsBounded(itab, Pending(c, crashes))
  BY <1>1, <1>2, WriterIs
<1>4. PICK i : Step(p, [call[p] EXCEPT !.inodes = [j \in InodesOf(InodeBlock(i)) |-> itab[j]]])
  BY Zenon DEF UpdateInodeRead
<1>5. PICK g, f : /\ g = [j \in InodesOf(InodeBlock(i)) |-> itab[j]]
                  /\ f = [c EXCEPT !.inodes = g]
  OBVIOUS
<1>6. Step(w, f)
  BY <1>1, <1>3, <1>4, <1>5 DEF Step
<1>7. /\ DOMAIN f = Fields /\ f.inodes = g
      /\ \A x \in Fields \ {"inodes"} : f[x] = c[x]
  BY <1>3, <1>5 DEF Fields
<1>8. /\ f.pc = c.pc /\ f.op = c.op /\ f.level = c.level /\ f.type = c.type /\ f.new = c.new
      /\ f.ino = c.ino /\ f.pos = c.pos /\ f.rest = c.rest /\ f.bufs = c.bufs
      /\ f.start = c.start /\ f.res = c.res /\ f.done = c.done /\ f.blk = c.blk /\ f.fd = c.fd
  BY <1>7 DEF Fields
<1>9. \A j \in DOMAIN f.inodes : j \in Inums => f.inodes[j] = itab[j]
  BY <1>5, <1>7
<1>10. Pending(f, crashes) = Pending(c, crashes) /\ (Writing(f) <=> Writing(c))
  BY <1>8 DEF Pending, Writing
<1>11. FdWriter(fds'[w], itab, f) /\ FdsAgree(fds', itab)
  BY <1>2, <1>3, <1>8, <1>10 DEF FdWriter
<1>12. FrameOK(itab, f)
  BY <1>2, <1>7, <1>8 DEF FrameOK
<1>13. WriterOK(bmap, itab, data, f)
  <2>1. CASE c.pc = "UpdateNew"
    BY <1>3, <1>8, <1>9, <2>1 DEF WriterOK, CreateOK, Writes
  <2>2. CASE c.pc = "UpdateSize"
    <3>1. WriteOK(bmap, itab, data, c)
      BY <1>3, <2>2 DEF WriterOK, Writes
    <3>2. PieceOK(itab, f)
      BY <1>8, <3>1 DEF WriteOK, PieceOK, BufsOK, CreateOK
    <3>3. TargetOK(bmap, itab, data, f) /\ Place(f) = Place(c) /\ PieceLen(f) = PieceLen(c)
      BY <1>8, <2>2, <3>1 DEF WriteOK, TargetOK, NewIndirect, Place, PieceLen
    <3>4. WriteOK(bmap, itab, data, f)
      BY <1>8, <2>2, <3>1, <3>2, <3>3 DEF WriteOK
    <3> QED
      BY <1>8, <1>9, <2>2, <3>4 DEF WriterOK
  <2> QED
    BY <1>2, <2>1, <2>2
<1> QED
  BY <1>2, <1>3, <1>6, <1>10, <1>11, <1>12, <1>13, QuietStep

(* WriteImpl reads the block it writes a part of. *)
LEMMA ReadForWriteOK ==
  ASSUME NEW w \in Procs, NEW p \in Procs, IInv(w), ReadForWrite(p)
  PROVE  IInv(w)'
<1>1. PICK c : c = call[p]
  OBVIOUS
<1>2. c.pc = "WriteData" /\ UNCHANGED <<disk, fds, crashes>> /\ ~Calm(call[p])
  BY <1>1 DEF ReadForWrite, Calm
<1>3. /\ p = w /\ TableOK(itab) /\ DOMAIN c = Fields /\ WriterOK(bmap, itab, data, c)
      /\ crashes \in Nat /\ FdsAgree(fds, itab) /\ FdWriter(fds[w], itab, c)
      /\ DirsBounded(itab, crashes)
  BY <1>1, <1>2, WriterIs DEF Pending
<1>4. PICK f : f = [c EXCEPT !.pc = "WriteMerged", !.buf = data[c.blk]]
  OBVIOUS
<1>5. Step(w, f)
  BY <1>1, <1>3, <1>4 DEF Step, ReadForWrite
<1>6. /\ DOMAIN f = Fields /\ f.pc = "WriteMerged" /\ f.buf = data[c.blk] /\ f.inodes = c.inodes
      /\ f.op = c.op /\ f.level = c.level /\ f.type = c.type /\ f.new = c.new
      /\ f.ino = c.ino /\ f.pos = c.pos /\ f.rest = c.rest /\ f.bufs = c.bufs
      /\ f.start = c.start /\ f.res = c.res /\ f.done = c.done /\ f.blk = c.blk /\ f.fd = c.fd
  BY <1>3, <1>4 DEF Fields
<1>7. WriteOK(bmap, itab, data, c)
  BY <1>2, <1>3 DEF WriterOK, Writes
<1>8. PieceOK(itab, f)
  BY <1>6, <1>7 DEF WriteOK, PieceOK, BufsOK, CreateOK
<1>9. TargetOK(bmap, itab, data, f)
  BY <1>2, <1>6, <1>7 DEF WriteOK, TargetOK, NewIndirect, Place
<1>10. WriteOK(bmap, itab, data, f)
  BY <1>2, <1>6, <1>7, <1>8, <1>9 DEF WriteOK
<1>11. \A j \in DOMAIN f.inodes : j \in Inums => f.inodes[j] = itab[j]
  BY <1>3, <1>6 DEF WriterOK
<1>12. f.pc \in Writes /\ (Writing(f) <=> Writing(c))
  BY <1>2, <1>6 DEF Writing, Writes
<1>13. WriterIn(w, bmap, itab, data, f, fds[w], crashes)
  BY <1>3, <1>6, <1>10, <1>11, <1>12, WriteFrame
<1>14. FdsAgree(fds', itab) /\ WriterIn(w, bmap, itab, data, f, fds'[w], crashes)
  BY <1>2, <1>3, <1>13
<1> QED
  BY <1>2, <1>3, <1>5, <1>14, QuietStep DEF WriterIn

-----------------------------------------------------------------------------
(* Writes *)

\* What is known when Write returns to sys_write: the inode in memory is the
\* one on disk.
AfterWrite(w, T, c) ==
  LET i == c.ino.inode_index IN
  /\ i \in Inums /\ c.ino = T[i] /\ c.ino.type = "regular_file"
  /\ c.fd \in FdSlots /\ fds[w][c.fd].file_type = "regular_file"
  /\ fds[w][c.fd].inode.inode_index = i
  /\ \A s \in FdSlots \ {c.fd} : fds[w][s].file_type = "regular_file" =>
       fds[w][s].inode = T[fds[w][s].inode.inode_index]
  /\ c.rest = <<>> => OpenOnce(fds[w], c.fd, i) /\ BufsOK(T, c)
  /\ c.res \in Nat /\ c.done \in Nat

\* What is known when Write returns to CreateImpl.
AfterEntry(w, T, c) ==
  /\ CreateOK(T, c)
  /\ \A s \in FdSlots : fds[w][s].file_type = "regular_file" =>
       fds[w][s].inode = T[fds[w][s].inode.inode_index]

(* Descriptors stay good when copies of inodes do. *)
LEMMA FdsStay ==
  ASSUME NEW F, NEW T, NEW T2, FdsAgree(F, T), \A n : CopyOK(T, n) => CopyOK(T2, n)
  PROVE  FdsAgree(F, T2)
BY DEF FdsAgree

\* sys_write moves the offset of its descriptor by t and stores the inode there.
FdStored(w, c, t) ==
  fds' = [fds EXCEPT ![w][c.fd].offset = @ + t,
                     ![w][c.fd].inode = WrittenInode(c, fds[w][c.fd])]

(* The descriptor then has the inode that was written. *)
LEMMA FdWritten ==
  ASSUME NEW w \in Procs, NEW T, TableOK(T), FdsAgree(fds, T), NEW c, AfterWrite(w, T, c),
         NEW t \in Nat, FdStored(w, c, t)
  PROVE  /\ FdsAgree(fds', T) /\ fds'[w][c.fd].inode = c.ino
         /\ \A x \in FdSlots \ {c.fd} : fds'[w][x] = fds[w][x]
         /\ \A q \in Procs \ {w} : fds'[q] = fds[q]
<1>1. PICK s, g : s = c.fd /\ g = fds[w][s]
  OBVIOUS
<1>2. /\ s \in FdSlots /\ fds \in [Procs -> [FdSlots -> FdType]] /\ g \in FdType
      /\ g.file_type = "regular_file"
  BY <1>1 DEF AfterWrite, FdsAgree
<1>3. /\ DOMAIN g = {"file_type", "offset", "inode"} /\ g.offset \in Nat
      /\ g.file_type \in FileType
  BY <1>2 DEF FdType
<1>4. c.ino \in InodeDef /\ CopyOK(T, c.ino) /\ c.ino.type = "regular_file"
  BY TableIs DEF AfterWrite
<1>5. PICK d : d = [file_type |-> g.file_type, offset |-> g.offset + t, inode |-> c.ino]
  OBVIOUS
<1>6. d \in FdType /\ d.file_type = "regular_file" /\ d.inode = c.ino
  BY <1>2, <1>3, <1>4, <1>5 DEF FdType
<1>7. fds' = [fds EXCEPT ![w][s] = d]
  <2>1. fds' = [fds EXCEPT ![w][s] = [[g EXCEPT !.offset = @ + t] EXCEPT !.inode = c.ino]]
    BY <1>1, <1>2 DEF WrittenInode, FdStored
  <2>2. [[g EXCEPT !.offset = @ + t] EXCEPT !.inode = c.ino] = d
    <3>1. PICK h : h = [g EXCEPT !.offset = @ + t]
      OBVIOUS
    <3>2. h = [file_type |-> g.file_type, offset |-> g.offset + t, inode |-> g.inode]
      BY <1>3, <3>1
    <3>3. [h EXCEPT !.inode = c.ino] = d
      BY <1>5, <3>2
    <3> QED
      BY <3>1, <3>3
  <2> QED
    BY <2>1, <2>2
<1>8. /\ FdsAgree(fds', T) /\ fds'[w][s] = d /\ \A q \in Procs \ {w} : fds'[q] = fds[q]
      /\ \A x \in FdSlots \ {s} : fds'[w][x] = fds[w][x]
  <2>1. d.file_type = d.inode.type /\ CopyOK(T, d.inode)
    BY <1>4, <1>6
  <2>2. PICK F, G : F = fds /\ G = fds'
    OBVIOUS
  <2>3. FdsAgree(F, T) /\ G = [F EXCEPT ![w][s] = d] /\ s \in FdSlots /\ d \in FdType
    BY <1>2, <1>6, <1>7, <2>2
  <2>4. /\ FdsAgree(G, T) /\ G[w][s] = d /\ \A q \in Procs \ {w} : G[q] = F[q]
        /\ \A x \in FdSlots \ {s} : G[w][x] = F[w][x]
    <3>1. F \in [Procs -> [FdSlots -> FdType]]
      BY <2>3 DEF FdsAgree
    <3>2. G \in [Procs -> [FdSlots -> FdType]] /\ \A q \in Procs \ {w} : G[q] = F[q]
      BY <2>3, <3>1
    <3>3. \A q \in Procs, x \in FdSlots : G[q][x] = IF q = w /\ x = s THEN d ELSE F[q][x]
      BY <2>3, <3>1
    <3>4. FdsAgree(G, T)
      BY <2>1, <2>3, <3>2, <3>3 DEF FdsAgree
    <3> QED
      BY <2>3, <3>2, <3>3, <3>4
  <2> QED
    BY <2>2, <2>4
<1> QED
  BY <1>1, <1>6, <1>8

(* Write returns to CreateImpl or sys_write, on the new state of the disk. *)
LEMMA WriteReturnsOK ==
  ASSUME NEW w \in Procs, IInv(w), NEW c, WriteReturns(w, c), crashes' = crashes,
         DiskOK(bmap', itab', data'), \A n : CopyOK(itab, n) => CopyOK(itab', n),
         DOMAIN c = Fields, \A j \in DOMAIN c.inodes : j \in Inums => c.inodes[j] = itab'[j],
         c.op = "write" => AfterWrite(w, itab', c) /\ DirsBounded(itab', crashes),
         c.op # "write" => AfterEntry(w, itab', c) /\ DirsBounded(itab', crashes + 1)
  PROVE  IInv(w)'
<1>1. /\ FdsAgree(fds, itab') /\ crashes \in Nat /\ TableOK(itab')
  BY FdsStay DEF IInv, Good, DiskOK
<1>2. CASE c.op # "write"
  <2>1. PICK f : f = [c EXCEPT !.pc = "UpdateNew"]
    OBVIOUS
  <2>2. Step(w, f) /\ UNCHANGED fds
    BY <1>2, <2>1 DEF WriteReturns
  <2>3. /\ DOMAIN f = Fields /\ f.pc = "UpdateNew" /\ f.op = c.op /\ f.level = c.level
        /\ f.type = c.type /\ f.new = c.new /\ f.inodes = c.inodes
    BY <2>1 DEF Fields
  <2>4. FrameOK(itab', f)
    BY <2>3 DEF FrameOK
  <2>5. WriterOK(bmap', itab', data', f)
    BY <1>2, <2>3 DEF WriterOK, Writes, CreateOK, AfterEntry
  <2>6. FdWriter(fds[w], itab', f) /\ Pending(f, crashes) = crashes + 1
    BY <1>2, <2>3 DEF FdWriter, Writing, Writes, AfterEntry, Pending
  <2>7. WriterIn(w, bmap', itab', data', f, fds'[w], crashes) /\ FdsAgree(fds', itab')
    BY <1>1, <1>2, <2>2, <2>4, <2>5, <2>6 DEF WriterIn
  <2> QED
    BY <2>2, <2>7, WriterStep
<1>3. CASE c.op = "write"
  <2>1. PICK t : t = c.res + c.done
    OBVIOUS
  <2>2. t \in Nat
    BY <1>3, <2>1 DEF AfterWrite
  <2>4. CASE /\ c.rest = <<>> /\ c.bufs # <<>> /\ c.start <= c.ino.size /\ UNCHANGED fds
             /\ Step(w, [c EXCEPT !.pc = "WriteImpl", !.rest = Head(c.bufs),
                           !.bufs = Tail(c.bufs), !.pos = c.start, !.res = t, !.done = 0])
    <3>1. PICK f, b, l : /\ b = Head(c.bufs) /\ l = Tail(c.bufs)
                         /\ f = [c EXCEPT !.pc = "WriteImpl", !.rest = b, !.bufs = l,
                                   !.pos = c.start, !.res = t, !.done = 0]
      OBVIOUS
    <3>2. /\ DOMAIN f = Fields /\ f.pc = "WriteImpl" /\ f.rest = b /\ f.bufs = l
          /\ f.pos = c.start /\ f.res = t /\ f.done = 0 /\ f.op = c.op /\ f.ino = c.ino
          /\ f.fd = c.fd /\ f.start = c.start /\ f.inodes = c.inodes
      BY <3>1 DEF Fields
    <3>3. PICK S : c.bufs \in Seq(S)
      BY <1>3, <2>4 DEF AfterWrite, BufsOK, IsSeq
    <3>4. /\ Len(c.bufs) \in Nat /\ Len(c.bufs) >= 1 /\ b = c.bufs[1]
          /\ l \in Seq(S) /\ Len(l) = Len(c.bufs) - 1 /\ \A k \in 1..Len(l) : l[k] = c.bufs[k + 1]
      BY <2>4, <3>1, <3>3
    <3>5. BufsOK(itab', f)
      <4>1. BufsOK(itab', c)
        BY <1>3, <2>4 DEF AfterWrite
      <4>2. IsSeq(f.bufs) /\ f.start \in Nat
        BY <3>2, <3>4, <4>1 DEF BufsOK, IsSeq
      <4>3. ASSUME NEW k \in 1..Len(f.bufs)
            PROVE  /\ IsSeq(f.bufs[k]) /\ f.bufs[k] # <<>>
                   /\ Fits(itab', f.ino.inode_index, f.start + Len(f.bufs[k]))
        <5>1. k + 1 \in 1..Len(c.bufs) /\ f.bufs[k] = c.bufs[k + 1]
          BY <3>2, <3>4
        <5> QED
          BY <3>2, <4>1, <5>1 DEF BufsOK
      <4> QED
        BY <4>2, <4>3 DEF BufsOK
    <3>6. /\ IsSeq(b) /\ b # <<>> /\ Fits(itab', c.ino.inode_index, c.start + Len(b))
          /\ c.start \in Nat
      BY <1>3, <2>4, <3>4 DEF AfterWrite, BufsOK
    <3>7. c.ino \in InodeDef
      BY <1>1, <1>3, TableIs DEF AfterWrite
    <3>8. PieceOK(itab', f)
      BY <1>3, <2>2, <2>4, <3>2, <3>5, <3>6, <3>7 DEF AfterWrite, PieceOK
    <3>9. WriteOK(bmap', itab', data', f)
      BY <1>3, <3>2, <3>8 DEF WriteOK, AfterWrite
    <3>10. f.pc \in Writes /\ Writing(f)
      BY <1>3, <3>2 DEF Writing, Writes
    <3>11. FdWriter(fds[w], itab', f)
      BY <1>3, <2>4, <3>2, <3>10 DEF FdWriter, AfterWrite
    <3>12. WriterIn(w, bmap', itab', data', f, fds[w], crashes)
      BY <1>1, <1>3, <3>2, <3>9, <3>10, <3>11, WriteFrame
    <3>13. WriterIn(w, bmap', itab', data', f, fds'[w], crashes) /\ FdsAgree(fds', itab')
      BY <1>1, <2>4, <3>12
    <3>14. Step(w, f)
      BY <2>4, <3>1
    <3> QED
      BY <3>13, <3>14, WriterStep
  <2>5. CASE /\ fds' = [fds EXCEPT ![w][c.fd].offset = @ + t,
                                   ![w][c.fd].inode = WrittenInode(c, fds[w][c.fd])]
             /\ Step(w, Returned(c, t))
    <3>1. /\ FdsAgree(fds', itab') /\ fds'[w][c.fd].inode = c.ino
          /\ \A x \in FdSlots \ {c.fd} : fds'[w][x] = fds[w][x]
      <4>1. PICK T : T = itab'
        OBVIOUS
      <4>2. AfterWrite(w, T, c) /\ TableOK(T) /\ FdsAgree(fds, T)
        BY <1>1, <1>3, <4>1
      <4>3. /\ FdsAgree(fds', T) /\ fds'[w][c.fd].inode = c.ino
            /\ \A x \in FdSlots \ {c.fd} : fds'[w][x] = fds[w][x]
        <5>1. FdStored(w, c, t)
          BY <2>5 DEF FdStored
        <5> QED
          BY <2>2, <4>2, <5>1, FdWritten
      <4> QED
        BY <4>1, <4>3
    <3>2. PICK f : f = Returned(c, t)
      OBVIOUS
    <3>3. DOMAIN f = Fields /\ f.pc = "ret" /\ f.inodes = <<>>
      BY <3>2, ReturnedIs
    <3>4. FrameOK(itab', f) /\ Calm(f)
      BY <3>3 DEF FrameOK, Calm
    <3>5. WriterOK(bmap', itab', data', f) /\ ~Writing(f) /\ Pending(f, crashes) = crashes
      <4>1. \A j \in DOMAIN f.inodes : j \in Inums => f.inodes[j] = itab'[j]
        BY <3>3
      <4> QED
        BY <1>1, <3>4, <4>1, CalmWriter
    <3>6. FdWriter(fds'[w], itab', f)
      <4>1. ASSUME NEW s \in FdSlots, fds'[w][s].file_type = "regular_file"
            PROVE  fds'[w][s].inode = itab'[fds'[w][s].inode.inode_index]
        <5>1. CASE s = c.fd
          BY <1>3, <3>1, <5>1 DEF AfterWrite
        <5>2. CASE s # c.fd
          BY <1>3, <3>1, <4>1, <5>2 DEF AfterWrite
        <5> QED
          BY <5>1, <5>2
      <4> QED
        BY <3>5, <4>1 DEF FdWriter
    <3>7. WriterIn(w, bmap', itab', data', f, fds'[w], crashes)
      BY <1>3, <3>4, <3>5, <3>6 DEF WriterIn
    <3>8. Step(w, f)
      BY <2>5, <3>2
    <3> QED
      BY <3>1, <3>7, <3>8, WriterStep
  <2> QED
    BY <1>3, <2>1, <2>4, <2>5 DEF WriteReturns
<1> QED
  BY <1>2, <1>3

\* The concatenations of the first sequences of s, up to n.
Flat(s, n, g) == g = [i \in 1..n |-> IF i = 1 THEN s[i] ELSE g[i - 1] \o s[i]]

(* They exist. *)
LEMMA FlatExists ==
  ASSUME NEW s, Len(s) \in Nat
  PROVE  \A n \in 1..Len(s) : \E g : Flat(s, n, g)
<1>1. PICK Bad : Bad = {n \in 1..Len(s) : ~ \E g : Flat(s, n, g)}
  OBVIOUS
<1>2. SUFFICES ASSUME Bad # {} PROVE FALSE
  BY <1>1
<1>3. PICK n \in Bad : \A m \in Bad : n <= m
  <2>1. Bad \in SUBSET Nat
    BY <1>1
  <2> QED
    BY <1>2, <2>1, Least
<1>4. n \in 1..Len(s) /\ ~ \E g : Flat(s, n, g)
  BY <1>1, <1>3
<1>5. CASE n = 1
  <2>1. Flat(s, n, [i \in 1..1 |-> s[1]])
    BY <1>5 DEF Flat
  <2> QED
    BY <1>4, <2>1
<1>6. CASE n # 1
  <2>1. PICK m : m = n - 1
    OBVIOUS
  <2>2. m \in 1..Len(s) /\ m \notin Bad /\ m \in Nat /\ m >= 1
    BY <1>3, <1>4, <1>6, <2>1
  <2>3. PICK g : Flat(s, m, g)
    BY <1>1, <2>2
  <2>4. PICK h : h = [i \in 1..n |-> IF i <= m THEN g[i] ELSE g[m] \o s[n]]
    OBVIOUS
  <2>5. ASSUME NEW i \in 1..n
        PROVE  h[i] = IF i = 1 THEN s[i] ELSE h[i - 1] \o s[i]
    <3>1. CASE i = n
      <4>1. h[i] = g[m] \o s[n] /\ h[i - 1] = g[m]
        <5>1. i - 1 = m /\ m \in 1..n /\ n \in 1..n /\ ~(n <= m) /\ m <= m
          BY <1>4, <2>1, <2>2, <3>1
        <5> QED
          BY <2>4, <3>1, <5>1
      <4> QED
        BY <1>6, <3>1, <4>1
    <3>2. CASE i # n
      <4>1. i \in 1..m /\ h[i] = g[i]
        BY <1>4, <2>1, <2>2, <2>4, <2>5, <3>2
      <4>2. g[i] = IF i = 1 THEN s[i] ELSE g[i - 1] \o s[i]
        BY <2>3, <4>1 DEF Flat
      <4>3. i # 1 => h[i - 1] = g[i - 1]
        BY <1>4, <2>1, <2>2, <2>4, <4>1
      <4> QED
        BY <4>1, <4>2, <4>3
    <3> QED
      BY <3>1, <3>2
  <2>6. h = [i \in 1..n |-> IF i = 1 THEN s[i] ELSE h[i - 1] \o s[i]]
    <3>1. h = [i \in 1..n |-> h[i]]
      BY <2>4
    <3> QED
      BY <2>5, <3>1
  <2>7. Flat(s, n, h)
    BY <2>6 DEF Flat
  <2> QED
    BY <1>4, <2>7
<1> QED
  BY <1>5, <1>6

(* A buffer is at least as long as each of its pieces. *)
LEMMA FlattenLen ==
  ASSUME NEW S, NEW s \in Seq(Seq(S)), s # <<>>
  PROVE  /\ Len(FlattenSeq(s)) \in Nat
         /\ \A k \in 1..Len(s) : Len(s[k]) <= Len(FlattenSeq(s))
<1>1. PICK l : l = Len(s)
  OBVIOUS
<1>2. l \in Nat /\ l >= 1 /\ l \in 1..l
  BY <1>1
<1>3. PICK g : g = CHOOSE f : Flat(s, l, f)
  OBVIOUS
<1>4. Flat(s, l, g)
  <2>1. \E f : Flat(s, l, f)
    BY <1>1, <1>2, FlatExists
  <2> QED
    BY <1>3, <2>1, Zenon
<1>5. FlattenSeq(s) = g[l]
  <2>1. Len(s) # 0
    BY <1>1, <1>2
  <2>2. FlattenSeq(s) = (CHOOSE f : f = [i \in 1..Len(s) |-> IF i = 1 THEN s[i] ELSE f[i - 1] \o s[i]])[Len(s)]
    BY <2>1, Zenon DEF FlattenSeq
  <2> QED
    BY <1>1, <1>3, <2>2, Zenon DEF Flat
<1>6. PICK Bad : Bad = {n \in 1..l : ~(g[n] \in Seq(S) /\ \A k \in 1..n : Len(s[k]) <= Len(g[n]))}
  OBVIOUS
<1>7. ASSUME Bad # {} PROVE FALSE
  <2>1. PICK n \in Bad : \A m \in Bad : n <= m
    <3>1. Bad \in SUBSET Nat
      BY <1>6
    <3> QED
      BY <1>7, <3>1, Least
  <2>2. n \in 1..l /\ ~(g[n] \in Seq(S) /\ \A k \in 1..n : Len(s[k]) <= Len(g[n]))
    BY <1>6, <2>1
  <2>3. g[n] = IF n = 1 THEN s[n] ELSE g[n - 1] \o s[n]
    BY <1>4, <2>2 DEF Flat
  <2>4. s[n] \in Seq(S) /\ \A k \in 1..n : s[k] \in Seq(S)
    BY <1>1, <2>2
  <2>5. CASE n = 1
    BY <2>2, <2>3, <2>4, <2>5
  <2>6. CASE n # 1
    <3>1. PICK m : m = n - 1
      OBVIOUS
    <3>2. m \in 1..l /\ m \notin Bad /\ n = m + 1
      BY <1>2, <2>1, <2>2, <2>6, <3>1
    <3>3. g[m] \in Seq(S) /\ \A k \in 1..m : Len(s[k]) <= Len(g[m])
      BY <1>6, <3>2
    <3>4. g[n] = g[m] \o s[n]
      BY <2>3, <2>6, <3>1
    <3>5. g[n] \in Seq(S) /\ Len(g[n]) = Len(g[m]) + Len(s[n])
      BY <2>4, <3>3, <3>4
    <3>6. Len(g[m]) \in Nat /\ \A k \in 1..n : Len(s[k]) \in Nat
      BY <2>4, <3>3
    <3>7. ASSUME NEW k \in 1..n PROVE Len(s[k]) <= Len(g[n])
      <4>1. k = n \/ k \in 1..m
        BY <3>2, <3>7
      <4>2. Len(s[n]) \in Nat
        BY <2>4
      <4> QED
        <5>1. PICK x, y, z : x = Len(g[m]) /\ y = Len(s[n]) /\ z = Len(s[k])
          OBVIOUS
        <5>2. x \in Nat /\ y \in Nat /\ z \in Nat /\ Len(g[n]) = x + y
          BY <3>5, <3>6, <4>2, <5>1
        <5>3. z = y \/ z <= x
          BY <3>3, <4>1, <5>1
        <5>4. z <= x + y
          BY <5>2, <5>3
        <5> QED
          BY <5>1, <5>2, <5>4
    <3> QED
      BY <2>2, <3>5, <3>7
  <2> QED
    BY <2>5, <2>6
<1>8. g[l] \in Seq(S) /\ \A k \in 1..l : Len(s[k]) <= Len(g[l])
  BY <1>2, <1>6, <1>7
<1> QED
  BY <1>1, <1>5, <1>8

(* A shorter piece fits too. *)
LEMMA FitsLess ==
  ASSUME NEW T, NEW i, NEW x \in Int, NEW y \in Int, x <= y, Fits(T, i, y)
  PROVE  Fits(T, i, x)
<1>1. (Direct + 1) * BlockSize \in Int /\ MaxSupportFileSize \in Int
  BY SizeAssumption DEF MaxSupportFileSize
<1> QED
  BY <1>1 DEF Fits

(* sys_write begins. *)
LEMMA CallWriteOK ==
  ASSUME NEW w \in Procs, OneWriter(w), NEW p \in Procs, IInv(w), WriteCarefully(p)
  PROVE  IInv(w)'
<1>1. PICK s \in FdSlots : \E bufs \in WriteBufs(p, fds[p][s].file_type) :
        LET fd == fds[p][s]
            end == fd.offset + Len(FlattenSeq(bufs))
            c == [Idle EXCEPT !.pc = "WriteImpl", !.op = "write", !.fd = s,
                    !.ino = fd.inode, !.start = fd.offset, !.pos = fd.offset,
                    !.rest = Head(bufs), !.bufs = Tail(bufs), !.arg = bufs]
        IN  /\ fd.file_type \in {"regular_file", "directory"}
            /\ end <= MaxSupportFileSize
            /\ \/ fd.offset <= fd.inode.size /\ Step(p, c) /\ UNCHANGED fds
               \/ fd.offset > fd.inode.size /\ WriteReturns(p, c)
  BY Zenon DEF CallWrite, WriteCarefully
<1>2. PICK bufs \in WriteBufs(p, fds[p][s].file_type) :
        LET fd == fds[p][s]
            end == fd.offset + Len(FlattenSeq(bufs))
            c == [Idle EXCEPT !.pc = "WriteImpl", !.op = "write", !.fd = s,
                    !.ino = fd.inode, !.start = fd.offset, !.pos = fd.offset,
                    !.rest = Head(bufs), !.bufs = Tail(bufs), !.arg = bufs]
        IN  /\ fd.file_type \in {"regular_file", "directory"}
            /\ end <= MaxSupportFileSize
            /\ \/ fd.offset <= fd.inode.size /\ Step(p, c) /\ UNCHANGED fds
               \/ fd.offset > fd.inode.size /\ WriteReturns(p, c)
  BY <1>1, Zenon
<1>3. PICK fd, n, x, all, b, l, i : /\ fd = fds[p][s] /\ n = fd.inode /\ x = fd.offset
                                 /\ all = FlattenSeq(bufs) /\ b = Head(bufs) /\ l = Tail(bufs)
                                 /\ i = n.inode_index
  OBVIOUS
<1>4. PICK c : c = [Idle EXCEPT !.pc = "WriteImpl", !.op = "write", !.fd = s, !.ino = n,
                      !.start = x, !.pos = x, !.rest = b, !.bufs = l, !.arg = bufs]
  OBVIOUS
<1>5. /\ fd.file_type \in {"regular_file", "directory"} /\ x + Len(all) <= MaxSupportFileSize
      /\ \/ x <= n.size /\ Step(p, c) /\ UNCHANGED fds
         \/ x > n.size /\ WriteReturns(p, c)
  <2>1. /\ fd.file_type \in {"regular_file", "directory"} /\ x + Len(all) <= MaxSupportFileSize
    BY <1>2, <1>3
  <2>2. c = [Idle EXCEPT !.pc = "WriteImpl", !.op = "write", !.fd = s,
                    !.ino = fds[p][s].inode, !.start = fds[p][s].offset, !.pos = fds[p][s].offset,
                    !.rest = Head(bufs), !.bufs = Tail(bufs), !.arg = bufs]
    BY <1>3, <1>4
  <2>3. \/ fds[p][s].offset <= fds[p][s].inode.size /\ Step(p, c) /\ UNCHANGED fds
        \/ fds[p][s].offset > fds[p][s].inode.size /\ WriteReturns(p, c)
    BY <1>2, <2>2, Zenon DEF WriteReturns, Step, Returned, WrittenInode
  <2> QED
    BY <1>3, <2>1, <2>3
<1>6. /\ FdsAgree(fds, itab) /\ crashes \in Nat /\ DiskOK(bmap, itab, data)
      /\ WriterIn(w, bmap, itab, data, call[w], fds[w], crashes) /\ TableOK(itab)
  BY DEF IInv, Good, DiskOK
<1>7. fd \in FdType /\ n \in InodeDef /\ x \in Nat /\ i \in Inums /\ n.size \in Nat
  <2>1. fd \in FdType
    BY <1>3, <1>6 DEF FdsAgree
  <2>2. n \in InodeDef /\ x \in Nat
    BY <1>3, <2>1 DEF FdType
  <2> QED
    BY <1>3, <2>1, <2>2, InodeFields
<1>8. p = w /\ fd.file_type = "regular_file" /\ fds[w][s].file_type = "regular_file"
  <2>1. p = w
    <3>1. fds[p][s].file_type \in FileType
      BY <1>3, <1>7 DEF FdType
    <3> QED
      BY <1>2, <3>1 DEF OneWriter
  <2> QED
    BY <1>2, <1>3, <1>5, <2>1 DEF OneWriter
<1>9. /\ Calm(call[w]) /\ UNCHANGED <<disk, crashes>>
  BY <1>8 DEF CallWrite, WriteCarefully, Enter, Calm
<1>10. /\ n = itab[i] /\ n.type = "regular_file" /\ DirsBounded(itab, crashes)
      /\ \A t \in FdSlots : fds[w][t].file_type = "regular_file" =>
           fds[w][t].inode = itab[fds[w][t].inode.inode_index]
  <2>1. ~Writing(call[w]) /\ Pending(call[w], crashes) = crashes
    BY <1>6, <1>9 DEF Calm, Writing, Writes, Pending
  <2>2. FdWriter(fds[w], itab, call[w]) /\ DirsBounded(itab, crashes)
    BY <1>6, <2>1 DEF WriterIn
  <2>3. \A t \in FdSlots : fds[w][t].file_type = "regular_file" =>
          fds[w][t].inode = itab[fds[w][t].inode.inode_index]
    BY <2>1, <2>2 DEF FdWriter
  <2>4. n.type = "regular_file"
    BY <1>3, <1>6, <1>8 DEF FdsAgree
  <2> QED
    BY <1>3, <1>8, <2>2, <2>3, <2>4
<1>11. /\ bufs \in Seq(Seq(Cell)) /\ bufs # <<>>
       /\ \A k \in 1..Len(bufs) : bufs[k] \in Seq(Cell) /\ bufs[k] # <<>>
  <2>1. bufs \in Seq(Seq(Cell) \ {<<>>}) /\ bufs # <<>>
    BY <1>2, <1>3, <1>8 DEF OneWriter
  <2> QED
    BY <2>1
<1>12. Len(all) \in Nat /\ \A k \in 1..Len(bufs) : Len(bufs[k]) <= Len(all)
  BY <1>3, <1>11, FlattenLen
<1>13. /\ b = bufs[1] /\ 1 \in 1..Len(bufs) /\ l \in Seq(Seq(Cell))
       /\ \A k \in 1..Len(l) : k + 1 \in 1..Len(bufs) /\ l[k] = bufs[k + 1]
  BY <1>3, <1>11
<1>14. /\ DOMAIN c = Fields /\ c.pc = "WriteImpl" /\ c.op = "write" /\ c.fd = s /\ c.ino = n
       /\ c.start = x /\ c.pos = x /\ c.rest = b /\ c.bufs = l /\ c.inodes = <<>>
       /\ c.done = 0 /\ c.res = 0 /\ c.arg = bufs
  BY <1>4, IdleIs DEF Fields
<1>15. \A j \in DOMAIN c.inodes : j \in Inums => c.inodes[j] = itab[j]
  BY <1>14
<1>16. CASE x <= n.size /\ Step(p, c) /\ UNCHANGED fds
  <2>1. call'[w] = c /\ fds' = fds
    BY <1>8, <1>16 DEF Step, IInv, Good, OthersOK
  <2>2. /\ OpenOnce(fds[w], s, i) /\ EntriesInitialised(n, x + Len(all))
    <3>1. /\ \A t \in FdSlots \ {call'[w].fd} : fds'[w][t].file_type = "regular_file" =>
               fds'[w][t].inode.inode_index # fds'[w][call'[w].fd].inode.inode_index
          /\ call'[w].pc # "ret" =>
               EntriesInitialised(call'[w].ino, call'[w].start + Len(FlattenSeq(call'[w].arg)))
      BY <1>8 DEF WriteCarefully, Careful, EntriesInitialised
    <3> QED
      BY <1>3, <1>8, <1>14, <2>1, <3>1 DEF OpenOnce
  <2>3. Fits(itab, i, x + Len(all))
    BY <1>5, <1>10, <2>2 DEF Fits, EntriesInitialised, ByMkfs
  <2>4. ASSUME NEW k \in 1..Len(bufs)
         PROVE  IsSeq(bufs[k]) /\ bufs[k] # <<>> /\ Fits(itab, i, x + Len(bufs[k]))
    <3>1. bufs[k] \in Seq(Cell) /\ bufs[k] # <<>>
      BY <1>11
    <3>2. PICK y : y = Len(bufs[k])
      OBVIOUS
    <3>3. y \in Nat
      BY <3>1, <3>2
    <3>4. x + y <= x + Len(all) /\ x + y \in Int /\ x + Len(all) \in Int
      BY <1>7, <1>12, <3>2, <3>3
    <3> QED
      BY <2>3, <3>1, <3>2, <3>4, FitsLess DEF IsSeq
  <2>5. BufsOK(itab, c)
    <3>1. ASSUME NEW k \in 1..Len(c.bufs)
          PROVE  /\ IsSeq(c.bufs[k]) /\ c.bufs[k] # <<>>
                 /\ Fits(itab, c.ino.inode_index, c.start + Len(c.bufs[k]))
      <4>1. k + 1 \in 1..Len(bufs) /\ c.bufs[k] = bufs[k + 1]
        BY <1>13, <1>14, <3>1
      <4> QED
        BY <1>3, <1>14, <2>4, <4>1
    <3> QED
      BY <1>7, <1>13, <1>14, <3>1 DEF BufsOK, IsSeq
  <2>6. IsSeq(b) /\ b # <<>> /\ Fits(itab, i, x + Len(b))
    BY <1>13, <2>4
  <2>7. PieceOK(itab, c)
    <3>1. /\ Fits(itab, c.ino.inode_index, c.pos + Len(c.rest)) /\ IsSeq(c.rest) /\ c.rest # <<>>
          /\ c.pos <= itab[c.ino.inode_index].size
      BY <1>3, <1>10, <1>14, <1>16, <2>6
    <3>2. /\ c.ino \in InodeDef /\ itab[c.ino.inode_index].type = c.ino.type
          /\ c.ino.type = "regular_file" /\ c.pos \in Nat /\ c.op = "write"
          /\ c.res \in Nat /\ c.done \in Nat
      BY <1>3, <1>7, <1>10, <1>14
    <3> QED
      BY <2>5, <3>1, <3>2, Zenon DEF PieceOK
  <2>8. WriteOK(bmap, itab, data, c)
    BY <1>3, <1>10, <1>14, <2>7 DEF WriteOK
  <2>9. c.pc \in Writes /\ Writing(c) /\ Pending(c, crashes) = crashes
    BY <1>6, <1>14 DEF Writing, Writes, Pending
  <2>10. WriterOK(bmap, itab, data, c) /\ FrameOK(itab, c)
    BY <1>14, <1>15, <2>8 DEF WriterOK, FrameOK
  <2>11. FdWriter(fds[w], itab, c)
    BY <1>3, <1>8, <1>10, <1>14, <2>9, <2>2 DEF FdWriter
  <2>12. FdWriter(fds'[w], itab, c) /\ FdsAgree(fds', itab)
    BY <1>6, <1>16, <2>11
  <2> QED
    BY <1>8, <1>9, <1>10, <1>16, <2>9, <2>10, <2>12, QuietStep
<1>17. CASE WriteReturns(p, c)
  <2>1. bmap' = bmap /\ itab' = itab /\ data' = data /\ crashes' = crashes
    BY <1>9 DEF disk
  <2>2. AfterWrite(w, itab, c)
    <3>1. c.rest # <<>>
      BY <1>11, <1>13, <1>14
    <3> QED
      BY <1>3, <1>7, <1>8, <1>10, <1>14, <3>1 DEF AfterWrite
  <2>3. /\ DiskOK(bmap', itab', data') /\ \A m : CopyOK(itab, m) => CopyOK(itab', m)
        /\ AfterWrite(w, itab', c) /\ DirsBounded(itab', crashes)
        /\ \A j \in DOMAIN c.inodes : j \in Inums => c.inodes[j] = itab'[j]
    BY <1>6, <1>10, <1>15, <2>1, <2>2
  <2> QED
    BY <1>8, <1>14, <1>17, <2>1, <2>3, WriteReturnsOK
<1> QED
  BY <1>5, <1>16, <1>17

-----------------------------------------------------------------------------
(* Which block a piece goes to *)

(* A position below a multiple of the block size. *)
LEMMA PlaceBelow ==
  ASSUME NEW x \in Nat, NEW m \in Nat, x < m * BlockSize
  PROVE  x \div BlockSize < m
<1>1. PICK k : k = x \div BlockSize
  OBVIOUS
<1>2. k \in Nat /\ k * BlockSize <= x /\ BlockSize \in Nat \ {0}
  BY <1>1, DivIs, SizeAssumption
<1>3. m < k => m * BlockSize + BlockSize <= k * BlockSize
  BY <1>2, Steps
<1>4. k * BlockSize \in Int /\ m * BlockSize \in Int
  BY <1>2
<1>5. k # m
  BY <1>2, <1>4
<1>6. ~(m < k)
  BY <1>2, <1>3, <1>4
<1> QED
  BY <1>1, <1>2, <1>5, <1>6

(* The piece that goes to the block of its place. *)
LEMMA PieceIs ==
  ASSUME NEW T, NEW c, PieceOK(T, c), NEW i, i = c.ino.inode_index
  PROVE  /\ i \in Inums /\ c.ino \in InodeDef
         /\ Len(c.rest) \in Nat /\ Len(c.rest) >= 1 /\ c.pos \in Nat
         /\ c.pos % BlockSize \in 0..(BlockSize - 1)
         /\ PieceLen(c) \in Nat /\ PieceLen(c) >= 1 /\ PieceLen(c) <= Len(c.rest)
         /\ PieceLen(c) <= BlockSize - (c.pos % BlockSize)
         /\ PieceLen(c) = Len(c.rest) \/ PieceLen(c) = BlockSize - (c.pos % BlockSize)
<1>1. i \in Inums /\ c.ino \in InodeDef
  BY InodeFields DEF PieceOK
<1>2. Len(c.rest) \in Nat /\ Len(c.rest) >= 1
  <2>1. PICK S : c.rest \in Seq(S)
    BY DEF PieceOK, IsSeq
  <2>2. c.rest # <<>>
    BY DEF PieceOK
  <2> QED
    BY <2>1, <2>2
<1>3. c.pos \in Nat /\ c.pos % BlockSize \in 0..(BlockSize - 1) /\ BlockSize \in Nat \ {0}
  BY DivIs, SizeAssumption DEF PieceOK
<1>4. PICK a, b : a = Len(c.rest) /\ b = BlockSize - (c.pos % BlockSize)
  OBVIOUS
<1>5. a \in Nat /\ b \in Nat /\ a >= 1 /\ b >= 1
  BY <1>2, <1>3, <1>4
<1>6. PieceLen(c) = Min({a, b})
  BY <1>4 DEF PieceLen
<1>7. PICK n : n = Min({a, b})
  OBVIOUS
<1>8. n \in Nat /\ n <= a /\ n <= b /\ (n = a \/ n = b)
  BY <1>5, <1>7, MinTwo
<1> QED
  BY <1>1, <1>2, <1>3, <1>4, <1>5, <1>6, <1>7, <1>8

(* Its place. *)
LEMMA PlaceOf ==
  ASSUME NEW T, TableOK(T), NEW c, PieceOK(T, c), NEW i, i = c.ino.inode_index
  PROVE  /\ Place(c) \in Nat /\ Place(c) \in AllPlaces
         /\ Place(c) * BlockSize <= c.pos
         /\ c.pos < Place(c) * BlockSize + BlockSize
         /\ Place(c) > Direct => ByMkfs(T[i].addr[Direct])
         /\ c.op # "write" => Place(c) < Direct
<1>1. PICK k : k = Place(c)
  OBVIOUS
<1>2. c.pos \in Nat /\ Len(c.rest) \in Nat /\ Len(c.rest) >= 1
  BY PieceIs
<1>3. k \in Nat /\ k * BlockSize <= c.pos /\ c.pos < k * BlockSize + BlockSize
  BY <1>1, <1>2, DivIs DEF Place
<1>4. BlockSize \in Nat \ {0} /\ Direct \in Nat
  BY SizeAssumption
<1>5. PICK e : e = c.pos + Len(c.rest)
  OBVIOUS
<1>6. e \in Nat /\ c.pos < e
  BY <1>2, <1>5
<1>7. PICK x, y, z : /\ x = (Direct + 1) * BlockSize /\ y = (Direct + BlockSize) * BlockSize
                     /\ z = Direct * BlockSize
  OBVIOUS
<1>8. x \in Int /\ y \in Int /\ z \in Int
  BY <1>4, <1>7
<1>9. e <= x => k < Direct + 1
  <2>1. Direct + 1 \in Nat
    BY <1>4
  <2> QED
    BY <1>1, <1>2, <1>6, <1>7, <1>8, <2>1, PlaceBelow DEF Place
<1>10. e <= y => k < Direct + BlockSize
  <2>1. Direct + BlockSize \in Nat
    BY <1>4
  <2> QED
    BY <1>1, <1>2, <1>6, <1>7, <1>8, <2>1, PlaceBelow DEF Place
<1>11. e <= z => k < Direct
  BY <1>1, <1>2, <1>4, <1>6, <1>7, <1>8, PlaceBelow DEF Place
<1>12. e <= x \/ (ByMkfs(T[i].addr[Direct]) /\ e <= y)
  BY <1>5, <1>7 DEF PieceOK, Fits, MaxSupportFileSize
<1>13. c.op # "write" => e <= z
  BY <1>5, <1>7 DEF PieceOK
<1>14. k < Direct + BlockSize
  BY <1>3, <1>4, <1>9, <1>10, <1>12
<1>15. k \in AllPlaces
  BY <1>3, <1>4, <1>14 DEF AllPlaces
<1> QED
  BY <1>1, <1>3, <1>4, <1>9, <1>11, <1>12, <1>13, <1>15

\* Frames that differ in where the write has got to with its piece.
SamePiece(c, f) ==
  /\ f.pos = c.pos /\ f.rest = c.rest /\ f.bufs = c.bufs /\ f.start = c.start /\ f.res = c.res
  /\ f.done = c.done /\ f.op = c.op /\ f.level = c.level /\ f.type = c.type /\ f.new = c.new
  /\ f.fd = c.fd /\ f.inodes = c.inodes
  /\ f.ino.inode_index = c.ino.inode_index /\ f.ino.type = c.ino.type

(* They agree on the piece. *)
LEMMA PieceSame ==
  ASSUME NEW T, NEW c, NEW f, SamePiece(c, f), PieceOK(T, c), f.ino \in InodeDef
  PROVE  PieceOK(T, f) /\ Place(f) = Place(c) /\ PieceLen(f) = PieceLen(c)
BY DEF SamePiece, PieceOK, BufsOK, CreateOK, Place, PieceLen

(* A step of a write that leaves the inode table alone. *)
LEMMA WriteOn ==
  ASSUME NEW w \in Procs, IInv(w), NEW c, c = call[w], c.pc \in Writes, NEW f, Step(w, f),
         UNCHANGED <<itab, fds, crashes>>, DiskOK(bmap', itab', data'),
         DOMAIN f = Fields, f.pc \in Writes, WriteOK(bmap', itab', data', f), SamePiece(c, f)
  PROVE  IInv(w)'
<1>1. ~Calm(call[w])
  BY DEF Calm, Writes
<1>2. /\ crashes \in Nat /\ FdsAgree(fds, itab) /\ WriterOK(bmap, itab, data, c)
      /\ FdWriter(fds[w], itab, c) /\ DirsBounded(itab, Pending(c, crashes))
  BY <1>1, WriterIs
<1>3. DirsBounded(itab, crashes)
  BY <1>2 DEF Pending, Writes
<1>4. \A j \in DOMAIN f.inodes : j \in Inums => f.inodes[j] = itab'[j]
  BY <1>2 DEF WriterOK, SamePiece
<1>5. Writing(f) <=> Writing(c)
  BY DEF Writing, SamePiece
<1>6. FdWriter(fds[w], itab', c) /\ DirsBounded(itab', crashes) /\ FdsAgree(fds, itab')
  BY <1>2, <1>3
<1>7. WriterIn(w, bmap', itab', data', f, fds[w], crashes)
  BY <1>2, <1>4, <1>5, <1>6, WriteFrame DEF SamePiece
<1>8. /\ WriterIn(w, bmap', itab', data', f, fds'[w], crashes) /\ FdsAgree(fds', itab')
      /\ \A n : CopyOK(itab, n) => CopyOK(itab', n)
  BY <1>6, <1>7
<1> QED
  BY <1>8, WriterStep

(* WriteImpl finds the block of the piece, or allocates one. *)
LEMMA WriteImplOK ==
  ASSUME NEW w \in Procs, NEW p \in Procs, IInv(w), WriteImpl(p)
  PROVE  IInv(w)'
<1>1. PICK c, k, n, ind, i : c = call[p] /\ k = Place(c) /\ n = c.ino /\ ind = data[n.addr[Direct]]
                          /\ i = n.inode_index
  OBVIOUS
<1>2. c.pc = "WriteImpl" /\ UNCHANGED <<disk, fds, crashes>> /\ ~Calm(call[p])
  BY <1>1 DEF WriteImpl, Calm
<1>3. /\ p = w /\ TableOK(itab) /\ DOMAIN c = Fields /\ WriterOK(bmap, itab, data, c)
      /\ crashes \in Nat /\ DiskOK(bmap, itab, data)
  BY <1>1, <1>2, WriterIs
<1>4. PieceOK(itab, c) /\ c.ino = itab[i] /\ c.pc \in Writes
  BY <1>1, <1>2, <1>3 DEF WriterOK, WriteOK, Writes
<1>5. i \in Inums /\ n \in InodeDef
  BY <1>1, <1>4, PieceIs
<1>6. k \in Nat /\ k \in AllPlaces /\ (k > Direct => ByMkfs(n.addr[Direct]))
  BY <1>1, <1>3, <1>4, PlaceOf
<1>7. Direct \in Nat
  BY SizeAssumption
<1>8. Step(w, IF k < Direct
              THEN IF n.addr[k] # 0 THEN [c EXCEPT !.pc = "WriteData", !.blk = n.addr[k]]
                   ELSE [c EXCEPT !.pc = "AllocDataBlock", !.why = "direct"]
              ELSE IF n.addr[Direct] = 0
              THEN [c EXCEPT !.pc = "AllocDataBlock", !.why = "indirect"]
              ELSE IF ind[k - Direct].val # 0
              THEN [c EXCEPT !.pc = "WriteData", !.blk = ind[k - Direct].val]
              ELSE [c EXCEPT !.pc = "AllocDataBlock", !.why = "entry", !.ind = ind])
  BY <1>1, <1>3, Zenon DEF WriteImpl, Step
<1>9. DiskOK(bmap', itab', data') /\ UNCHANGED <<itab, fds, crashes, bmap, data>>
  BY <1>2, <1>3 DEF disk
<1>10. ASSUME NEW b, Step(w, [c EXCEPT !.pc = "WriteData", !.blk = b]), b # 0,
              At(itab, data, i, k) = b
       PROVE  IInv(w)'
  <2>1. PICK f : f = [c EXCEPT !.pc = "WriteData", !.blk = b]
    OBVIOUS
  <2>2. /\ DOMAIN f = Fields /\ f.pc = "WriteData" /\ f.blk = b /\ f.ino = n /\ SamePiece(c, f)
    BY <1>1, <1>3, <2>1 DEF Fields, SamePiece
  <2>3. PieceOK(itab, f) /\ Place(f) = k
    BY <1>1, <1>4, <1>5, <2>2, PieceSame
  <2>4. TargetOK(bmap, itab, data, f)
    BY <1>1, <1>4, <1>10, <2>2, <2>3 DEF TargetOK
  <2>5. WriteOK(bmap, itab, data, f)
    BY <1>1, <1>4, <2>2, <2>3, <2>4 DEF WriteOK
  <2>6. WriteOK(bmap', itab', data', f) /\ f.pc \in Writes /\ Step(w, f)
    BY <1>9, <1>10, <2>1, <2>2, <2>5 DEF Writes
  <2> QED
    BY <1>1, <1>3, <1>4, <1>9, <2>2, <2>6, WriteOn
<1>11. ASSUME NEW f, Step(w, f), DOMAIN f = Fields, f.pc = "AllocDataBlock", f.ino = n,
              SamePiece(c, f), WhyOK(bmap, itab, data, f)
       PROVE  IInv(w)'
  <2>1. PieceOK(itab, f)
    BY <1>1, <1>4, <1>5, <1>11, PieceSame
  <2>2. WriteOK(bmap, itab, data, f)
    BY <1>1, <1>4, <1>11, <2>1 DEF WriteOK
  <2>3. WriteOK(bmap', itab', data', f) /\ f.pc \in Writes
    BY <1>9, <1>11, <2>2 DEF Writes
  <2> QED
    BY <1>1, <1>3, <1>4, <1>9, <1>11, <2>3, WriteOn
<1>12. CASE k < Direct /\ n.addr[k] # 0
  <2>1. At(itab, data, i, k) = n.addr[k]
    BY <1>1, <1>4, <1>6, <1>12 DEF At
  <2> QED
    BY <1>8, <1>10, <1>12, <2>1
<1>13. CASE k < Direct /\ n.addr[k] = 0
  <2>1. PICK f : f = [c EXCEPT !.pc = "AllocDataBlock", !.why = "direct"]
    OBVIOUS
  <2>2. /\ DOMAIN f = Fields /\ f.pc = "AllocDataBlock" /\ f.why = "direct" /\ f.ino = n
        /\ SamePiece(c, f)
    BY <1>1, <1>3, <2>1 DEF Fields, SamePiece
  <2>3. Place(f) = k
    BY <1>1, <1>4, <1>5, <2>2, PieceSame
  <2>4. WhyOK(bmap, itab, data, f)
    BY <1>13, <2>2, <2>3 DEF WhyOK
  <2> QED
    BY <1>8, <1>11, <1>13, <2>1, <2>2, <2>4
<1>14. CASE ~(k < Direct) /\ n.addr[Direct] = 0
  <2>1. PICK f : f = [c EXCEPT !.pc = "AllocDataBlock", !.why = "indirect"]
    OBVIOUS
  <2>2. /\ DOMAIN f = Fields /\ f.pc = "AllocDataBlock" /\ f.why = "indirect" /\ f.ino = n
        /\ SamePiece(c, f)
    BY <1>1, <1>3, <2>1 DEF Fields, SamePiece
  <2>3. Place(f) = k /\ k >= Direct
    BY <1>1, <1>4, <1>5, <1>6, <1>7, <1>14, <2>2, PieceSame
  <2>4. WhyOK(bmap, itab, data, f)
    BY <1>14, <2>2, <2>3 DEF WhyOK
  <2> QED
    BY <1>8, <1>11, <1>14, <2>1, <2>2, <2>4
<1>15. CASE ~(k < Direct) /\ n.addr[Direct] # 0 /\ ind[k - Direct].val # 0
  <2>1. At(itab, data, i, k) = ind[k - Direct].val
    <3>1. k # -1 /\ (k = Direct \/ ByMkfs(n.addr[Direct]))
      BY <1>6, <1>7, <1>15
    <3> QED
      BY <1>1, <1>4, <1>15, <3>1 DEF At
  <2> QED
    BY <1>8, <1>10, <1>15, <2>1
<1>16. CASE ~(k < Direct) /\ n.addr[Direct] # 0 /\ ind[k - Direct].val = 0
  <2>1. PICK f : f = [c EXCEPT !.pc = "AllocDataBlock", !.why = "entry", !.ind = ind]
    OBVIOUS
  <2>2. /\ DOMAIN f = Fields /\ f.pc = "AllocDataBlock" /\ f.why = "entry" /\ f.ind = ind
        /\ f.ino = n /\ SamePiece(c, f)
    BY <1>1, <1>3, <2>1 DEF Fields, SamePiece
  <2>3. Place(f) = k /\ k >= Direct
    BY <1>1, <1>4, <1>5, <1>6, <1>7, <1>16, <2>2, PieceSame
  <2>4. WhyOK(bmap, itab, data, f)
    BY <1>1, <1>16, <2>2, <2>3 DEF WhyOK
  <2> QED
    BY <1>8, <1>11, <1>16, <2>1, <2>2, <2>4
<1> QED
  BY <1>12, <1>13, <1>14, <1>15, <1>16

-----------------------------------------------------------------------------
(* Allocation *)

(* A bound on directories is one on larger numbers. *)
LEMMA DirsMore ==
  ASSUME NEW T, TableOK(T), NEW e \in Nat, DirsBounded(T, e)
  PROVE  DirsBounded(T, e + 1)
<1>1. \A i \in Inums : T[i].size \in Nat
  BY InodeFields DEF TableOK
<1>2. Cardinality(FreeInums(T)) \in Nat /\ InodeNum \in Nat
  BY FreeCount, SizeAssumption
<1> QED
  BY <1>1, <1>2 DEF DirsBounded

(* Write gives up for want of a block. *)
LEMMA ReturnsEarly ==
  ASSUME NEW w \in Procs, OneWriter(w), IInv(w), NEW c, c = call[w],
         c.pc \in {"AllocDataBlock", "WriteBitmap"}, NEW d, DOMAIN d = Fields,
         SamePiece(c, d), d.ino = c.ino, WriteReturns(w, d), UNCHANGED <<itab, data, crashes>>,
         DiskOK(bmap', itab', data')
  PROVE  IInv(w)'
<1>1. ~Calm(call[w]) /\ c.pc \in Writes
  BY DEF Calm, Writes
<1>2. /\ crashes \in Nat /\ FdsAgree(fds, itab) /\ WriterOK(bmap, itab, data, c)
      /\ FdWriter(fds[w], itab, c) /\ DirsBounded(itab, crashes) /\ TableOK(itab)
  BY <1>1, WriterIs DEF Pending
<1>3. PieceOK(itab, c) /\ c.ino = itab[c.ino.inode_index]
  BY <1>1, <1>2 DEF WriterOK, WriteOK
<1>4. c.ino.inode_index \in Inums /\ c.ino \in InodeDef
  BY <1>3, PieceIs
<1>5. PieceOK(itab, d)
  BY <1>3, <1>4, PieceSame
<1>6. d.op = "write" => AfterWrite(w, itab, d)
  <2>1. d.op = "write" => Writing(c)
    BY <1>1 DEF Writing, SamePiece
  <2> QED
    BY <1>2, <1>3, <1>4, <1>5, <2>1 DEF AfterWrite, FdWriter, SamePiece, PieceOK
<1>7. d.op # "write" => AfterEntry(w, itab, d)
  <2>1. d.op # "write" => ~Writing(c)
    BY DEF Writing, SamePiece
  <2>2. d.op # "write" => CreateOK(itab, d)
    BY <1>5 DEF PieceOK
  <2> QED
    BY <1>2, <2>1, <2>2 DEF AfterEntry, FdWriter
<1>8. DirsBounded(itab, crashes + 1)
  BY <1>2, DirsMore
<1>9. /\ d.op = "write" => AfterWrite(w, itab', d) /\ DirsBounded(itab', crashes)
      /\ d.op # "write" => AfterEntry(w, itab', d) /\ DirsBounded(itab', crashes + 1)
      /\ \A n : CopyOK(itab, n) => CopyOK(itab', n)
      /\ \A j \in DOMAIN d.inodes : j \in Inums => d.inodes[j] = itab'[j]
  BY <1>2, <1>6, <1>7, <1>8 DEF SamePiece, WriterOK
<1> QED
  BY <1>9, WriteReturnsOK

(* AllocDataBlock looks for a block that is not marked. *)
LEMMA AllocReadOK ==
  ASSUME NEW w \in Procs, OneWriter(w), NEW p \in Procs, IInv(w), AllocDataBlockRead(p)
  PROVE  IInv(w)'
<1>1. PICK c, b : c = call[p] /\ b = FreeBlock(bmap)
  OBVIOUS
<1>2. /\ c.pc = "AllocDataBlock" /\ UNCHANGED <<disk, crashes>> /\ ~Calm(call[p])
      /\ c.pc \in Writes
  BY <1>1 DEF AllocDataBlockRead, Calm, Writes
<1>3. /\ p = w /\ TableOK(itab) /\ DOMAIN c = Fields /\ WriterOK(bmap, itab, data, c)
      /\ DiskOK(bmap, itab, data) /\ c = call[w]
  BY <1>1, <1>2, WriterIs
<1>4. /\ PieceOK(itab, c) /\ c.ino = itab[c.ino.inode_index] /\ WhyOK(bmap, itab, data, c)
  BY <1>2, <1>3 DEF WriterOK, WriteOK
<1>5. c.ino \in InodeDef
  BY <1>4, PieceIs
<1>6. DiskOK(bmap', itab', data') /\ bmap' = bmap /\ itab' = itab /\ data' = data
  BY <1>2, <1>3 DEF disk
<1>7. CASE b = 0 /\ Allocated(w, c, 0)
  <2>1. CASE WriteReturns(w, c)
    BY <1>2, <1>3, <1>6, <2>1, ReturnsEarly DEF SamePiece
  <2>2. CASE /\ c.why = "indirect" /\ UNCHANGED fds
             /\ Step(w, [c EXCEPT !.pc = "AllocDataBlock", !.why = "first", !.first = 0])
    <3>1. PICK f : f = [c EXCEPT !.pc = "AllocDataBlock", !.why = "first", !.first = 0]
      OBVIOUS
    <3>2. /\ DOMAIN f = Fields /\ f.pc = "AllocDataBlock" /\ f.why = "first" /\ f.first = 0
          /\ f.ino = c.ino /\ SamePiece(c, f)
      BY <1>3, <3>1 DEF Fields, SamePiece
    <3>3. PieceOK(itab, f) /\ Place(f) = Place(c)
      BY <1>4, <1>5, <3>2, PieceSame
    <3>4. WhyOK(bmap, itab, data, f)
      BY <1>4, <2>2, <3>2, <3>3 DEF WhyOK
    <3>5. WriteOK(bmap, itab, data, f)
      BY <1>4, <3>2, <3>3, <3>4 DEF WriteOK
    <3>6. WriteOK(bmap', itab', data', f) /\ f.pc \in Writes /\ Step(w, f)
      BY <1>6, <2>2, <3>1, <3>2, <3>5 DEF Writes
    <3> QED
      BY <1>2, <1>3, <1>6, <2>2, <3>2, <3>6, WriteOn
  <2> QED
    BY <1>7, <2>1, <2>2 DEF Allocated
<1>8. CASE /\ b # 0 /\ UNCHANGED fds
           /\ Step(w, [c EXCEPT !.pc = "WriteBitmap", !.blk = b, !.bits = bmap \cup {b}])
  <2>1. b \in Blocks \ bmap
    <3>1. Blocks \ bmap \in SUBSET Nat
      BY DEF Blocks
    <3>2. Blocks \ bmap # {} /\ b = Min(Blocks \ bmap)
      BY <1>1, <1>8 DEF FreeBlock
    <3> QED
      BY <3>1, <3>2, MinIs
  <2>2. PICK f : f = [c EXCEPT !.pc = "WriteBitmap", !.blk = b, !.bits = bmap \cup {b}]
    OBVIOUS
  <2>3. /\ DOMAIN f = Fields /\ f.pc = "WriteBitmap" /\ f.blk = b /\ f.bits = bmap \cup {b}
        /\ f.ino = c.ino /\ f.why = c.why /\ f.first = c.first /\ f.ind = c.ind /\ SamePiece(c, f)
    BY <1>3, <2>2 DEF Fields, SamePiece
  <2>4. PieceOK(itab, f) /\ Place(f) = Place(c)
    BY <1>4, <1>5, <2>3, PieceSame
  <2>5. WhyOK(bmap, itab, data, f)
    BY <1>4, <2>3, <2>4 DEF WhyOK
  <2>6. WriteOK(bmap, itab, data, f)
    BY <1>4, <2>1, <2>3, <2>4, <2>5 DEF WriteOK
  <2>7. WriteOK(bmap', itab', data', f) /\ f.pc \in Writes /\ Step(w, f)
    BY <1>6, <1>8, <2>2, <2>3, <2>6 DEF Writes
  <2> QED
    BY <1>2, <1>3, <1>6, <1>8, <2>3, <2>7, WriteOn
<1>9. \/ b = 0 /\ Allocated(w, c, 0)
      \/ /\ b # 0 /\ UNCHANGED fds
         /\ Step(w, [c EXCEPT !.pc = "WriteBitmap", !.blk = b, !.bits = bmap \cup {b}])
  <2>1. IF FreeBlock(bmap) = 0 THEN Allocated(p, call[p], 0)
        ELSE /\ Step(p, [call[p] EXCEPT !.pc = "WriteBitmap", !.blk = FreeBlock(bmap),
                                        !.bits = bmap \cup {FreeBlock(bmap)}])
             /\ UNCHANGED fds
    BY Zenon DEF AllocDataBlockRead
  <2>2. CASE FreeBlock(bmap) = 0
    <3>1. Allocated(p, call[p], 0)
      BY <2>1, <2>2
    <3>2. Allocated(w, c, 0)
      BY <1>1, <1>3, <3>1, Zenon DEF Allocated, WriteReturns, Step, Returned, WrittenInode, Place
    <3> QED
      BY <1>1, <2>2, <3>2
  <2>3. CASE FreeBlock(bmap) # 0
    BY <1>1, <1>3, <2>1, <2>3, Zenon DEF Step
  <2> QED
    BY <2>2, <2>3
<1> QED
  BY <1>7, <1>8, <1>9

(* AllocDataBlock marks the block it has found. *)
LEMMA AllocWriteOK ==
  ASSUME NEW w \in Procs, OneWriter(w), NEW p \in Procs, IInv(w), AllocDataBlockWrite(p)
  PROVE  IInv(w)'
<1>1. PICK c, b, d, i, k : /\ c = call[p] /\ b = c.blk /\ d = [c EXCEPT !.bits = {}, !.blk = 0]
                           /\ i = c.ino.inode_index /\ k = Place(c)
  OBVIOUS
<1>2. /\ c.pc = "WriteBitmap" /\ UNCHANGED <<itab, data, crashes>> /\ ~Calm(call[p])
      /\ bmap' = c.bits /\ c.pc \in Writes
  BY <1>1 DEF AllocDataBlockWrite, Calm, Writes
<1>3. /\ p = w /\ TableOK(itab) /\ DOMAIN c = Fields /\ WriterOK(bmap, itab, data, c)
      /\ DiskOK(bmap, itab, data) /\ c = call[w]
  BY <1>1, <1>2, WriterIs
<1>4. /\ PieceOK(itab, c) /\ c.ino = itab[i] /\ WhyOK(bmap, itab, data, c)
      /\ b \in Blocks \ bmap /\ bmap' = bmap \cup {b}
  BY <1>1, <1>2, <1>3 DEF WriterOK, WriteOK
<1>5. c.ino \in InodeDef /\ i \in Inums /\ c.ino.addr \in [0..Direct -> 0..BlockNum]
  BY <1>1, <1>4, PieceIs, InodeFields
<1>6. k \in Nat /\ k \in AllPlaces /\ (k > Direct => ByMkfs(c.ino.addr[Direct]))
  BY <1>1, <1>3, <1>4, PlaceOf
<1>7. /\ DiskOK(bmap', itab, data) /\ Extra(bmap', itab, data, b) /\ ~ByMkfs(b) /\ b # 0
      /\ \A x : Extra(bmap, itab, data, x) => Extra(bmap', itab, data, x) /\ x # b
  BY <1>3, <1>4, Marked DEF Blocks
<1>8. DiskOK(bmap', itab', data') /\ itab' = itab /\ data' = data /\ b \in 0..BlockNum
  BY <1>2, <1>4, <1>7 DEF Blocks
<1>9. /\ DOMAIN d = Fields /\ SamePiece(c, d) /\ d.ino = c.ino /\ d.why = c.why
      /\ d.first = c.first /\ d.ind = c.ind /\ d.pc = c.pc
  BY <1>1, <1>3 DEF Fields, SamePiece
<1>10. PieceOK(itab, d) /\ Place(d) = k
  <2>1. d.ino \in InodeDef /\ SamePiece(c, d)
    BY <1>5, <1>9
  <2>2. PieceOK(itab, d) /\ Place(d) = Place(c)
    BY <1>4, <2>1, PieceSame
  <2> QED
    BY <1>1, <2>2
<1>11. Direct \in Nat /\ Direct \in 0..Direct
  BY SizeAssumption
<1>12. ASSUME NEW f, Step(w, f), UNCHANGED fds, DOMAIN f = Fields, f.pc \in Writes,
              SamePiece(d, f), WriteOK(bmap', itab, data, f)
       PROVE  IInv(w)'
  <2>1. SamePiece(c, f) /\ WriteOK(bmap', itab', data', f)
    BY <1>8, <1>9, <1>12 DEF SamePiece
  <2> QED
    BY <1>2, <1>3, <1>8, <1>12, <2>1, WriteOn
<1>13. CASE /\ c.why = "direct" /\ UNCHANGED fds
            /\ Step(w, [d EXCEPT !.pc = "WriteData", !.blk = b, !.ino.addr[Place(d)] = b])
  <2>1. PICK n : n = [c.ino EXCEPT !.addr[k] = b]
    OBVIOUS
  <2>2. k < Direct /\ c.ino.addr[k] = 0
    BY <1>1, <1>4, <1>13 DEF WhyOK
  <2>3. /\ n \in InodeDef /\ n.inode_index = c.ino.inode_index /\ n.type = c.ino.type
        /\ n.size = c.ino.size /\ n.addr = [c.ino.addr EXCEPT ![k] = b]
    <3>1. [c.ino.addr EXCEPT ![k] = b] \in [0..Direct -> 0..BlockNum]
      BY <1>5, <1>8
    <3> QED
      BY <1>5, <2>1, <3>1 DEF InodeDef
  <2>4. PICK f : f = [d EXCEPT !.pc = "WriteData", !.blk = b, !.ino = n]
    OBVIOUS
  <2>5. /\ DOMAIN f = Fields /\ f.pc = "WriteData" /\ f.blk = b /\ f.ino = n /\ SamePiece(d, f)
    BY <1>9, <2>3, <2>4 DEF Fields, SamePiece
  <2>6. PieceOK(itab, f) /\ Place(f) = k
    BY <1>10, <2>3, <2>5, PieceSame
  <2>7. TargetOK(bmap', itab, data, f)
    BY <1>1, <1>4, <1>7, <2>2, <2>3, <2>5, <2>6 DEF TargetOK
  <2>8. WriteOK(bmap', itab, data, f) /\ f.pc \in Writes
    BY <1>1, <1>4, <2>3, <2>5, <2>6, <2>7 DEF WriteOK, Writes
  <2>9. Step(w, f)
    <3>1. [d EXCEPT !.pc = "WriteData", !.blk = b, !.ino.addr[k] = b] = f
      BY <1>9, <2>1, <2>4 DEF Fields
    <3> QED
      BY <1>10, <1>13, <3>1
  <2> QED
    BY <1>12, <1>13, <2>5, <2>8, <2>9
<1>14. CASE /\ c.why = "indirect" /\ UNCHANGED fds
            /\ Step(w, [d EXCEPT !.pc = "AllocDataBlock", !.why = "first", !.first = b])
  <2>1. PICK f : f = [d EXCEPT !.pc = "AllocDataBlock", !.why = "first", !.first = b]
    OBVIOUS
  <2>2. /\ DOMAIN f = Fields /\ f.pc = "AllocDataBlock" /\ f.why = "first" /\ f.first = b
        /\ f.ino = c.ino /\ SamePiece(d, f)
    BY <1>9, <2>1 DEF Fields, SamePiece
  <2>3. PieceOK(itab, f) /\ Place(f) = k
    BY <1>5, <1>10, <2>2, PieceSame
  <2>4. WhyOK(bmap', itab, data, f)
    BY <1>1, <1>4, <1>7, <1>14, <2>2, <2>3 DEF WhyOK
  <2>5. WriteOK(bmap', itab, data, f) /\ f.pc \in Writes
    BY <1>1, <1>4, <2>2, <2>3, <2>4 DEF WriteOK, Writes
  <2>6. Step(w, f)
    BY <1>14, <2>1
  <2> QED
    BY <1>12, <1>14, <2>2, <2>5, <2>6
<1>15. ASSUME c.why = "first", c.first # 0, UNCHANGED fds, NEW v,
              Step(w, [d EXCEPT !.pc = "WriteIndirect", !.blk = b, !.ino.addr[Direct] = d.first,
                     !.ind = [j \in 0..BlockSize - 1 |-> IF j = 0 THEN Byte(b) ELSE Byte(v)]])
       PROVE  IInv(w)'
  <2>1. PICK n, x, g : /\ x = c.first /\ n = [c.ino EXCEPT !.addr[Direct] = x]
                       /\ g = [j \in 0..BlockSize - 1 |-> IF j = 0 THEN Byte(b) ELSE Byte(v)]
    OBVIOUS
  <2>2. /\ k >= Direct /\ c.ino.addr[Direct] = 0
        /\ Extra(bmap, itab, data, x) /\ ~ByMkfs(x)
    BY <1>1, <1>4, <1>15, <2>1 DEF WhyOK
  <2>3. Extra(bmap', itab, data, x) /\ x # b /\ x \in 0..BlockNum
    <3>1. x \in bmap /\ bmap \subseteq Blocks
      BY <1>3, <2>2 DEF Extra, DiskOK
    <3> QED
      BY <1>7, <2>2, <3>1 DEF Blocks
  <2>4. k = Direct
    <3>1. ~ByMkfs(0)
      BY DEF ByMkfs
    <3> QED
      BY <1>6, <1>11, <2>2, <3>1
  <2>5. /\ n \in InodeDef /\ n.inode_index = c.ino.inode_index /\ n.type = c.ino.type
        /\ n.size = c.ino.size /\ n.addr = [c.ino.addr EXCEPT ![Direct] = x]
    <3>1. [c.ino.addr EXCEPT ![Direct] = x] \in [0..Direct -> 0..BlockNum]
      BY <1>5, <2>3
    <3> QED
      BY <1>5, <2>1, <3>1 DEF InodeDef
  <2>6. n.addr[Direct] = x
    BY <1>5, <1>11, <2>5
  <2>7. DOMAIN g = 0..(BlockSize - 1) /\ g[0].val = b
    <3>1. 0 \in 0..(BlockSize - 1)
      BY SizeAssumption
    <3> QED
      BY <2>1, <3>1 DEF Byte
  <2>8. PICK f : f = [d EXCEPT !.pc = "WriteIndirect", !.blk = b, !.ino = n, !.ind = g]
    OBVIOUS
  <2>9. /\ DOMAIN f = Fields /\ f.pc = "WriteIndirect" /\ f.blk = b /\ f.ino = n /\ f.ind = g
        /\ SamePiece(d, f)
    BY <1>9, <2>5, <2>8 DEF Fields, SamePiece
  <2>10. PieceOK(itab, f) /\ Place(f) = k
    BY <1>10, <2>5, <2>9, PieceSame
  <2>11. NewIndirect(bmap', itab, data, f, b)
    BY <1>1, <1>4, <1>7, <2>2, <2>3, <2>4, <2>5, <2>6, <2>9, <2>10 DEF NewIndirect
  <2>12. IndirectOK(bmap', itab, data, f)
    BY <1>1, <1>4, <2>5, <2>7, <2>9, <2>11 DEF IndirectOK
  <2>13. WriteOK(bmap', itab, data, f) /\ f.pc \in Writes
    BY <2>9, <2>10, <2>12 DEF WriteOK, Writes
  <2>14. Step(w, f)
    <3>1. [d EXCEPT !.pc = "WriteIndirect", !.blk = b, !.ino.addr[Direct] = x, !.ind = g] = f
      BY <1>9, <2>1, <2>8 DEF Fields
    <3> QED
      BY <1>9, <1>15, <2>1, <3>1
  <2> QED
    BY <1>12, <1>15, <2>9, <2>13, <2>14
<1>16. CASE /\ c.why = "entry" /\ UNCHANGED fds
            /\ Step(w, [d EXCEPT !.pc = "WriteIndirect", !.blk = b,
                          !.ind[Place(d) - Direct] = Byte(b)])
  <2>1. PICK g : g = [c.ind EXCEPT ![k - Direct] = Byte(b)]
    OBVIOUS
  <2>2. /\ k >= Direct /\ c.ino.addr[Direct] # 0 /\ c.ind = data[c.ino.addr[Direct]]
        /\ c.ind[k - Direct].val = 0
    BY <1>1, <1>4, <1>16 DEF WhyOK
  <2>3. DOMAIN g = 0..(BlockSize - 1)
    <3>1. c.ino.addr[Direct] \in 0..BlockNum
      BY <1>5, <1>11
    <3> QED
      BY <1>3, <2>1, <2>2, <3>1 DEF DiskOK
  <2>4. PICK f : f = [d EXCEPT !.pc = "WriteIndirect", !.blk = b, !.ind = g]
    OBVIOUS
  <2>5. /\ DOMAIN f = Fields /\ f.pc = "WriteIndirect" /\ f.blk = b /\ f.ino = c.ino /\ f.ind = g
        /\ SamePiece(d, f)
    BY <1>9, <2>4 DEF Fields, SamePiece
  <2>6. PieceOK(itab, f) /\ Place(f) = k
    BY <1>5, <1>10, <2>5, PieceSame
  <2>7. IndirectOK(bmap', itab, data, f)
    <3>1. PICK old : old = itab[f.ino.inode_index].addr
      OBVIOUS
    <3>2. /\ f.ino = itab[f.ino.inode_index] /\ f.ino.addr = old /\ old = c.ino.addr
      BY <1>1, <1>4, <2>5, <3>1
    <3>3. /\ Place(f) >= Direct /\ old[Direct] # 0 /\ Extra(bmap', itab, data, f.blk)
          /\ data[old[Direct]][Place(f) - Direct].val = 0
          /\ f.ind = [data[old[Direct]] EXCEPT ![Place(f) - Direct] = Byte(f.blk)]
      BY <1>7, <2>1, <2>2, <2>5, <2>6, <3>2
    <3>4. DOMAIN f.ind = 0..(BlockSize - 1)
      BY <2>3, <2>5
    <3> QED
      BY <3>1, <3>2, <3>3, <3>4 DEF IndirectOK
  <2>8. WriteOK(bmap', itab, data, f) /\ f.pc \in Writes
    BY <2>5, <2>6, <2>7 DEF WriteOK, Writes
  <2>9. Step(w, f)
    <3>1. [d EXCEPT !.pc = "WriteIndirect", !.blk = b, !.ind[k - Direct] = Byte(b)] = f
      BY <1>9, <2>1, <2>4 DEF Fields
    <3> QED
      BY <1>10, <1>16, <3>1
  <2> QED
    BY <1>12, <1>16, <2>5, <2>8, <2>9
<1>17. CASE WriteReturns(w, d)
  BY <1>2, <1>3, <1>8, <1>9, <1>17, ReturnsEarly
<1>18. Allocated(w, d, b)
  <2>1. Allocated(p, [call[p] EXCEPT !.bits = {}, !.blk = 0], call[p].blk)
    BY Zenon DEF AllocDataBlockWrite
  <2>2. d = [call[p] EXCEPT !.bits = {}, !.blk = 0] /\ b = call[p].blk /\ p = w
    BY <1>1, <1>3
  <2> DEFINE e == [call[p] EXCEPT !.bits = {}, !.blk = 0]
              x == call[p].blk
  <2>3. Allocated(p, e, x) /\ d = e /\ b = x
    BY <2>1, <2>2
  <2> HIDE DEF e, x
  <2>4. CASE /\ e.why = "direct" /\ x # 0 /\ UNCHANGED fds
             /\ Step(p, [e EXCEPT !.pc = "WriteData", !.blk = x, !.ino.addr[Place(e)] = x])
    BY <2>2, <2>3, <2>4, Zenon DEF Allocated, Step, Place
  <2>5. CASE /\ e.why = "indirect" /\ UNCHANGED fds
             /\ Step(p, [e EXCEPT !.pc = "AllocDataBlock", !.why = "first", !.first = x])
    BY <2>2, <2>3, <2>5, Zenon DEF Allocated, Step, Place
  <2>6. CASE /\ e.why = "first" /\ e.first # 0 /\ x # 0 /\ UNCHANGED fds
             /\ \E v \in StackWords :
                  Step(p, [e EXCEPT !.pc = "WriteIndirect", !.blk = x, !.ino.addr[Direct] = e.first,
                     !.ind = [j \in 0..BlockSize - 1 |-> IF j = 0 THEN Byte(x) ELSE Byte(v)]])
    <3>1. PICK v \in StackWords :
            Step(p, [e EXCEPT !.pc = "WriteIndirect", !.blk = x, !.ino.addr[Direct] = e.first,
                     !.ind = [j \in 0..BlockSize - 1 |-> IF j = 0 THEN Byte(x) ELSE Byte(v)]])
      BY <2>6
    <3>2. Step(w, [d EXCEPT !.pc = "WriteIndirect", !.blk = b, !.ino.addr[Direct] = d.first,
                     !.ind = [j \in 0..BlockSize - 1 |-> IF j = 0 THEN Byte(b) ELSE Byte(v)]])
      BY <2>2, <2>3, <3>1, Zenon DEF Step
    <3>3. d.why = "first" /\ d.first # 0 /\ b # 0 /\ UNCHANGED fds
      BY <2>3, <2>6
    <3> QED
      BY <3>2, <3>3, Zenon DEF Allocated
  <2>7. CASE /\ e.why = "entry" /\ x # 0 /\ UNCHANGED fds
             /\ Step(p, [e EXCEPT !.pc = "WriteIndirect", !.blk = x,
                           !.ind[Place(e) - Direct] = Byte(x)])
    BY <2>2, <2>3, <2>7, Zenon DEF Allocated, Step, Place
  <2>8. CASE /\ e.why # "indirect"
             /\ x = 0 \/ (e.why = "first" /\ e.first = 0)
             /\ WriteReturns(p, e)
    <3>1. WriteReturns(w, d)
      BY <2>2, <2>3, <2>8, Zenon DEF WriteReturns, Step, Returned, WrittenInode
    <3> QED
      BY <2>3, <2>8, <3>1 DEF Allocated
  <2> QED
    BY <2>3, <2>4, <2>5, <2>6, <2>7, <2>8, Zenon DEF Allocated
<1> QED
  BY <1>9, <1>13, <1>14, <1>15, <1>16, <1>17, <1>18 DEF Allocated

-----------------------------------------------------------------------------
(* Writing blocks *)

\* The entries of directories in the block x, which gets the cells v, are inodes.
DirsKeep(T, x, v) ==
  \A j \in Inums : T[j].type = "directory" =>
    \A y \in 0..(T[j].size - 1) :
      T[j].addr[y \div BlockSize] = x => v[y % BlockSize].val \in Inums

(* A block that is at no place is no indirect block and of no directory. *)
LEMMA ExtraIs ==
  ASSUME NEW B, NEW T, NEW D, DiskOK(B, T, D), DirsSmall(T), NEW b, Extra(B, T, D, b)
  PROVE  /\ b \in 1..BlockNum
         /\ NoIndirect(T, b) /\ \A v : DirsKeep(T, b, v)
<1>1. b \in 1..BlockNum
  BY DEF Extra, DiskOK, Blocks
<1>2. -1 \in AllPlaces
  BY SizeAssumption DEF AllPlaces
<1>3. ASSUME NEW j \in Inums PROVE T[j].addr[Direct] # b
  <2>1. At(T, D, j, -1) = T[j].addr[Direct]
    BY DEF At
  <2> QED
    BY <1>2, <2>1 DEF Extra
<1>4. ASSUME NEW j \in Inums, T[j].type = "directory", NEW y \in 0..(T[j].size - 1)
      PROVE  T[j].addr[y \div BlockSize] # b
  <2>1. T[j].size \in Nat
    BY InodeFields DEF DiskOK, TableOK
  <2>2. y \in Nat /\ y < T[j].size
    BY <1>4, <2>1
  <2>3. /\ y \div BlockSize \in AllPlaces
        /\ T[j].addr[y \div BlockSize] = At(T, D, j, y \div BlockSize)
    BY <1>4, <2>2, DirPlace
  <2> QED
    BY <2>3 DEF Extra
<1> QED
  BY <1>1, <1>3, <1>4 DEF NoIndirect, DirsKeep

(* It stays so when the places stay. *)
LEMMA ExtraSame ==
  ASSUME NEW B, NEW T, NEW D, NEW T2, NEW D2, SamePlaces(T, D, T2, D2), NEW b, Extra(B, T, D, b)
  PROVE  Extra(B, T2, D2, b)
BY DEF Extra, SamePlaces

(* A block that is no indirect block is written; what directories hold in it *)
(* are still inodes.                                                         *)
LEMMA BlockWritten ==
  ASSUME NEW B, NEW T, NEW D, DiskOK(B, T, D), NEW x, NEW v,
         DOMAIN v = 0..(BlockSize - 1), NEW D2, DataWritten(D, D2, x, v),
         NoIndirect(T, x), DirsKeep(T, x, v), DirsSmall(T)
  PROVE  DiskOK(B, T, D2) /\ SamePlaces(T, D, T, D2)
<1>1. TableOK(T) /\ Owned(B, T, D) /\ Covered(T, D)
  BY DEF DiskOK
<1>2. SamePlaces(T, D, T, D2)
  BY <1>1, AtStays
<1>3. Owned(B, T, D2)
  BY <1>1, <1>2, OwnedSame
<1>4. Covered(T, D2)
  BY <1>1, <1>2 DEF Covered, SamePlaces
<1>5. \A b \in 0..BlockNum : DOMAIN D2[b] = 0..(BlockSize - 1)
  BY DEF DiskOK, DataWritten
<1>6. DirsLead(T, D2)
  <2>1. SUFFICES ASSUME NEW j \in Inums, T[j].type = "directory", NEW y \in 0..(T[j].size - 1)
                 PROVE  D2[T[j].addr[y \div BlockSize]][y % BlockSize].val \in Inums
    BY DEF DirsLead
  <2>2. D[T[j].addr[y \div BlockSize]][y % BlockSize].val \in Inums
    BY <2>1 DEF DiskOK, DirsLead
  <2>3. T[j] \in InodeDef
    BY <1>1 DEF TableOK
  <2>4. /\ T[j].size \in Nat /\ \A k \in 0..Direct : T[j].addr[k] \in 0..BlockNum
    BY <2>3, InodeFields
  <2>5. y \in Nat /\ y < T[j].size
    BY <2>1, <2>4
  <2>6. y \div BlockSize \in 0..(Direct - 1)
    BY <2>1, <2>5, DirPlace
  <2>7. T[j].addr[y \div BlockSize] \in 0..BlockNum
    BY <2>4, <2>6, SizeAssumption
  <2>8. CASE T[j].addr[y \div BlockSize] = x
    BY <2>1, <2>8 DEF DirsKeep, DataWritten
  <2>9. CASE T[j].addr[y \div BlockSize] # x
    BY <2>2, <2>7, <2>9 DEF DataWritten
  <2> QED
    BY <2>8, <2>9
<1>7. DOMAIN D2 = 0..BlockNum
  BY DEF DataWritten
<1> QED
  BY <1>2, <1>3, <1>4, <1>5, <1>6, <1>7 DEF DiskOK

\* The cells v are those of old but for cell j, which has the block b.
CellFilled(v, old, j, b) ==
  /\ DOMAIN v = 0..(BlockSize - 1) /\ v[j].val = b
  /\ \A x : x # j => v[x] = old[x]

(* An entry of an indirect block is filled with the new block b. *)
LEMMA EntryWritten ==
  ASSUME NEW B, NEW T, NEW D, DiskOK(B, T, D), DirsSmall(T), NEW i \in Inums,
         NEW a, a = T[i].addr[Direct], a # 0, NEW k \in Nat, k \in AllPlaces, k >= Direct,
         k = Direct \/ ByMkfs(a), D[a][k - Direct].val = 0, NEW b, Extra(B, T, D, b),
         NEW v, CellFilled(v, D[a], k - Direct, b), NEW D2, DataWritten(D, D2, a, v)
  PROVE  DiskOK(B, T, D2) /\ At(T, D2, i, k) = b /\ b # 0
<1>1. /\ TableOK(T) /\ DOMAIN D = 0..BlockNum /\ Owned(B, T, D) /\ Covered(T, D)
      /\ \A c \in 0..BlockNum : DOMAIN D[c] = 0..(BlockSize - 1)
  BY DEF DiskOK
<1>2. Direct \in Nat /\ BlockSize \in Nat \ {0} /\ -1 \in AllPlaces
  BY SizeAssumption DEF AllPlaces
<1>3. \A j \in Inums : T[j].addr[Direct] \in 0..BlockNum
  BY <1>1, InodeFields DEF TableOK
<1>4. a \in 0..BlockNum /\ k - Direct \in 0..(BlockSize - 1)
  BY <1>2, <1>3 DEF AllPlaces
<1>5. b \in B /\ b # 0 /\ \A j \in Inums, l \in AllPlaces : At(T, D, j, l) # b
  BY ExtraIs DEF Extra
<1>6. \A j \in Inums : At(T, D, j, -1) = T[j].addr[Direct]
  BY DEF At
<1>7. \A j \in Inums : T[j].addr[Direct] = a => j = i
  BY <1>1, <1>2, <1>6 DEF Owned
<1>9. /\ DOMAIN v = 0..(BlockSize - 1) /\ v[k - Direct].val = b
      /\ \A c : c # k - Direct => v[c] = D[a][c]
  BY DEF CellFilled
<1>10. /\ DOMAIN D2 = 0..BlockNum /\ D2[a] = v
       /\ \A c \in 0..BlockNum : c # a => D2[c] = D[c]
  BY <1>1, <1>4 DEF DataWritten
<1>11. ASSUME NEW j \in Inums, NEW l \in AllPlaces, ~(j = i /\ l = k)
       PROVE  At(T, D2, j, l) = At(T, D, j, l)
  <2>1. CASE j # i
    <3>1. T[j].addr[Direct] # a /\ T[j].addr[Direct] \in 0..BlockNum
      BY <1>3, <1>7, <2>1
    <3>2. D2[T[j].addr[Direct]] = D[T[j].addr[Direct]]
      BY <1>10, <3>1
    <3> QED
      BY <3>2 DEF At
  <2>2. CASE j = i
    <3>1. l - Direct # k - Direct /\ l \in Int
      BY <1>2, <1>11, <2>2 DEF AllPlaces
    <3>2. D2[a][l - Direct] = D[a][l - Direct]
      BY <1>9, <1>10, <3>1
    <3> QED
      BY <2>2, <3>2 DEF At
  <2> QED
    BY <2>1, <2>2
<1>12. At(T, D2, i, k) = b
  <2>1. k # -1 /\ ~(k < Direct)
    BY <1>2
  <2> QED
    BY <1>9, <1>10, <2>1 DEF At
<1>13. Owned(B, T, D2)
  <2>1. OneFilled(T, D, T, D2, i, k, b)
    BY <1>11, <1>12 DEF OneFilled
  <2> QED
    BY <1>1, <2>1, OwnedOne
<1>14. Covered(T, D2)
  BY <1>1, <1>5, <1>11, <1>12 DEF Covered
<1>15. \A c \in 0..BlockNum : DOMAIN D2[c] = 0..(BlockSize - 1)
  BY <1>1, <1>9, <1>10
<1>16. DirsLead(T, D2)
  <2>1. SUFFICES ASSUME NEW j \in Inums, T[j].type = "directory", NEW y \in 0..(T[j].size - 1)
                 PROVE  D2[T[j].addr[y \div BlockSize]][y % BlockSize].val \in Inums
    BY DEF DirsLead
  <2>2. D[T[j].addr[y \div BlockSize]][y % BlockSize].val \in Inums
    BY <2>1 DEF DiskOK, DirsLead
  <2>3. T[j].size \in Nat
    BY <1>1, InodeFields DEF TableOK
  <2>4. y \in Nat /\ y < T[j].size
    BY <2>1, <2>3
  <2>5. PICK l : l = y \div BlockSize
    OBVIOUS
  <2>6. l \in 0..(Direct - 1) /\ l \in AllPlaces /\ T[j].addr[l] = At(T, D, j, l)
    BY <2>1, <2>4, <2>5, DirPlace
  <2>7. l # -1 /\ At(T, D, i, -1) = a
    BY <1>2, <1>6, <2>6
  <2>8. T[j].addr[l] # a
    BY <1>1, <1>2, <2>6, <2>7 DEF Owned
  <2>9. T[j] \in InodeDef
    BY <1>1 DEF TableOK
  <2>10. T[j].addr[l] \in 0..BlockNum
    BY <1>2, <2>6, <2>9, InodeFields
  <2> QED
    BY <1>10, <2>2, <2>5, <2>8, <2>10
<1> QED
  BY <1>5, <1>10, <1>12, <1>13, <1>14, <1>15, <1>16 DEF DiskOK

(* An indirect block is written: a new one, or one with a new entry. *)
LEMMA WriteIndirectOK ==
  ASSUME NEW w \in Procs, NEW p \in Procs, IInv(w), WriteIndirect(p)
  PROVE  IInv(w)'
<1>1. PICK c, a, b, v, i : /\ c = call[p] /\ a = c.ino.addr[Direct] /\ b = c.blk /\ v = c.ind
                           /\ i = c.ino.inode_index
  OBVIOUS
<1>2. /\ c.pc = "WriteIndirect" /\ UNCHANGED <<bmap, itab, fds, crashes>> /\ ~Calm(call[p])
      /\ c.pc \in Writes /\ data' = [data EXCEPT ![a] = v]
  BY <1>1 DEF WriteIndirect, Calm, Writes
<1>3. /\ p = w /\ TableOK(itab) /\ DOMAIN c = Fields /\ WriterOK(bmap, itab, data, c)
      /\ DiskOK(bmap, itab, data) /\ c = call[w] /\ DirsSmall(itab)
  BY <1>1, <1>2, WriterIs
<1>4. PieceOK(itab, c) /\ IndirectOK(bmap, itab, data, c)
  BY <1>2, <1>3 DEF WriterOK, WriteOK
<1>5. c.ino \in InodeDef /\ i \in Inums /\ a \in 0..BlockNum /\ Direct \in 0..Direct
  BY <1>1, <1>4, PieceIs, InodeFields
<1>6. DataWritten(data, data', a, v)
  <2>1. DOMAIN data = 0..BlockNum
    BY <1>3 DEF DiskOK
  <2> QED
    BY <1>2, <1>5, <2>1 DEF DataWritten
<1>7. PICK f : f = [c EXCEPT !.pc = "WriteData", !.ind = BlankBlock]
  OBVIOUS
<1>8. /\ DOMAIN f = Fields /\ f.pc = "WriteData" /\ f.blk = b /\ f.ino = c.ino /\ SamePiece(c, f)
  BY <1>1, <1>3, <1>7 DEF Fields, SamePiece
<1>9. PieceOK(itab, f) /\ Place(f) = Place(c)
  BY <1>4, <1>5, <1>8, PieceSame
<1>10. Step(w, f)
  <2>1. Step(p, [call[p] EXCEPT !.pc = "WriteData", !.ind = BlankBlock])
    BY Zenon DEF WriteIndirect
  <2> QED
    BY <1>1, <1>3, <1>7, <2>1, Zenon
<1>11. PICK old : old = itab[i].addr
  OBVIOUS
<1>12. DiskOK(bmap, itab, data') /\ TargetOK(bmap, itab, data', f)
  <2>1. CASE NewIndirect(bmap, itab, data, c, b) /\ v[0].val = b /\ DOMAIN v = 0..(BlockSize - 1)
    <3>1. /\ Extra(bmap, itab, data, a) /\ Extra(bmap, itab, data, b) /\ a # b /\ ~ByMkfs(a)
          /\ Place(c) = Direct /\ old[Direct] = 0 /\ c.ino.addr = [old EXCEPT ![Direct] = a]
      BY <1>1, <1>11, <2>1 DEF NewIndirect
    <3>2. NoIndirect(itab, a) /\ DirsKeep(itab, a, v)
      BY <1>3, <3>1, ExtraIs
    <3>3. DiskOK(bmap, itab, data') /\ SamePlaces(itab, data, itab, data')
      BY <1>3, <1>6, <2>1, <3>2, BlockWritten
    <3>4. Extra(bmap, itab, data', a) /\ Extra(bmap, itab, data', b)
      BY <3>1, <3>3, ExtraSame
    <3>5. NewIndirect(bmap, itab, data', f, b)
      BY <1>1, <1>8, <1>9, <1>11, <3>1, <3>4 DEF NewIndirect
    <3>6. data'[f.ino.addr[Direct]][0].val = b
      BY <1>1, <1>6, <1>8, <2>1 DEF DataWritten
    <3> QED
      BY <1>8, <3>3, <3>5, <3>6 DEF TargetOK
  <2>2. CASE /\ c.ino.addr = old /\ old[Direct] # 0 /\ Place(c) >= Direct
             /\ Extra(bmap, itab, data, b) /\ data[a][Place(c) - Direct].val = 0
             /\ v = [data[a] EXCEPT ![Place(c) - Direct] = Byte(b)]
    <3>1. PICK k : k = Place(c)
      OBVIOUS
    <3>2. /\ k \in Nat /\ k \in AllPlaces /\ k >= Direct
          /\ k > Direct => ByMkfs(itab[i].addr[Direct])
      BY <1>1, <1>3, <1>4, <2>2, <3>1, PlaceOf
    <3>3. a = itab[i].addr[Direct] /\ a # 0 /\ data[a][k - Direct].val = 0
      BY <1>1, <1>11, <2>2, <3>1
    <3>5. k = Direct \/ ByMkfs(a)
      BY <3>2, <3>3, SizeAssumption
    <3>6. CellFilled(v, data[a], k - Direct, b)
      <4>1. DOMAIN data[a] = 0..(BlockSize - 1)
        BY <1>3, <1>5 DEF DiskOK
      <4>2. k - Direct \in 0..(BlockSize - 1)
        BY <3>2, SizeAssumption DEF AllPlaces
      <4>3. v = [data[a] EXCEPT ![k - Direct] = Byte(b)]
        BY <2>2, <3>1
      <4>4. DOMAIN v = 0..(BlockSize - 1) /\ v[k - Direct] = Byte(b)
        BY <4>1, <4>2, <4>3
      <4>5. \A x : x # k - Direct => v[x] = data[a][x]
        BY <4>1, <4>2, <4>3
      <4>6. Byte(b).val = b
        BY DEF Byte
      <4> QED
        BY <4>4, <4>5, <4>6 DEF CellFilled
    <3>4. DiskOK(bmap, itab, data') /\ At(itab, data', i, k) = b /\ b # 0
      BY <1>3, <1>5, <1>6, <2>2, <3>2, <3>3, <3>5, <3>6, EntryWritten
    <3> QED
      BY <1>1, <1>8, <1>9, <1>11, <2>2, <3>1, <3>4 DEF TargetOK
  <2> QED
    BY <1>1, <1>4, <1>11, <2>1, <2>2 DEF IndirectOK
<1>13. c.ino.size = itab[i].size
  BY <1>1, <1>4 DEF IndirectOK
<1>14. WriteOK(bmap, itab, data', f) /\ f.pc \in Writes
  BY <1>1, <1>8, <1>9, <1>12, <1>13 DEF WriteOK, Writes
<1>15. WriteOK(bmap', itab', data', f) /\ DiskOK(bmap', itab', data')
  BY <1>2, <1>12, <1>14
<1> QED
  BY <1>2, <1>3, <1>8, <1>10, <1>14, <1>15, WriteOn

-----------------------------------------------------------------------------
(* Writing data *)

(* Where the piece goes in its block. *)
LEMMA MergedIs ==
  ASSUME NEW T, NEW c, PieceOK(T, c), NEW buf, NEW v, v = Merged(c, buf)
  PROVE  /\ DOMAIN v = 0..(BlockSize - 1)
         /\ v[c.pos % BlockSize] = c.rest[1]
         /\ \A x \in 0..(BlockSize - 1) : x < c.pos % BlockSize => v[x] = buf[x]
<1>1. PICK m, n : m = c.pos % BlockSize /\ n = PieceLen(c)
  OBVIOUS
<1>2. m \in 0..(BlockSize - 1) /\ n \in Nat /\ n >= 1 /\ BlockSize \in Nat
  BY <1>1, PieceIs, SizeAssumption
<1>3. v = [k \in 0..BlockSize - 1 |->
             IF k - m \in 0..n - 1 THEN c.rest[(k - m) + 1] ELSE buf[k]]
  BY <1>1, Zenon DEF Merged
<1>4. v[m] = c.rest[1]
  <2>1. m - m = 0 /\ (m - m) + 1 = 1 /\ 0 \in 0..n - 1
    BY <1>2
  <2> QED
    BY <1>2, <1>3, <2>1
<1>5. ASSUME NEW x \in 0..(BlockSize - 1), x < m PROVE v[x] = buf[x]
  <2>1. x - m \notin 0..n - 1
    BY <1>2, <1>5
  <2> QED
    BY <1>3, <2>1
<1> QED
  BY <1>1, <1>3, <1>4, <1>5

(* The block of a piece is a block of data. *)
LEMMA TargetBlock ==
  ASSUME NEW B, NEW T, NEW D, DiskOK(B, T, D), DirsSmall(T), NEW c, PieceOK(T, c),
         TargetOK(B, T, D, c)
  PROVE  c.blk \in 1..BlockNum /\ NoIndirect(T, c.blk)
<1>1. PICK i, k, b : i = c.ino.inode_index /\ k = Place(c) /\ b = c.blk
  OBVIOUS
<1>2. TableOK(T) /\ Owned(B, T, D) /\ B \subseteq Blocks
  BY DEF DiskOK
<1>3. i \in Inums /\ k \in Nat /\ k \in AllPlaces /\ -1 \in AllPlaces
  BY <1>1, <1>2, PieceIs, PlaceOf, SizeAssumption DEF AllPlaces
<1>4. CASE At(T, D, i, k) = b /\ b # 0
  <2>1. b \in 1..BlockNum
    BY <1>2, <1>3, <1>4 DEF Owned, Blocks
  <2>2. ASSUME NEW j \in Inums PROVE T[j].addr[Direct] # b
    <3>1. At(T, D, j, -1) = T[j].addr[Direct]
      BY DEF At
    <3>2. k # -1
      BY <1>3
    <3>3. At(T, D, j, -1) # At(T, D, i, k)
      BY <1>2, <1>3, <1>4, <3>2 DEF Owned
    <3> QED
      BY <1>4, <3>1, <3>3
  <2> QED
    BY <1>1, <2>1, <2>2 DEF NoIndirect
<1>5. CASE Extra(B, T, D, b)
  BY <1>1, <1>5, ExtraIs
<1> QED
  BY <1>1, <1>4, <1>5 DEF TargetOK, NewIndirect

(* The entries of a directory stay when an entry is written behind them. *)
LEMMA TargetKeeps ==
  ASSUME NEW B, NEW T, NEW D, DiskOK(B, T, D), DirsSmall(T), NEW c, PieceOK(T, c),
         TargetOK(B, T, D, c), PieceLen(c) = BlockSize \/ c.buf = D[c.blk],
         NEW v, v = Merged(c, c.buf)
  PROVE  DirsKeep(T, c.blk, v)
<1>1. PICK i, k, b : i = c.ino.inode_index /\ k = Place(c) /\ b = c.blk
  OBVIOUS
<1>2. TableOK(T) /\ Owned(B, T, D)
  BY DEF DiskOK
<1>3. i \in Inums /\ k \in Nat /\ k \in AllPlaces /\ c.pos \in Nat /\ k = c.pos \div BlockSize
  BY <1>1, <1>2, PieceIs, PlaceOf DEF Place
<1>4. SUFFICES ASSUME NEW j \in Inums, T[j].type = "directory", NEW y \in 0..(T[j].size - 1),
                      T[j].addr[y \div BlockSize] = b
               PROVE  v[y % BlockSize].val \in Inums
  BY <1>1 DEF DirsKeep
<1>5. T[j].size \in Nat
  BY <1>2, InodeFields DEF TableOK
<1>6. y \in Nat /\ y < T[j].size
  BY <1>4, <1>5
<1>7. PICK l : l = y \div BlockSize
  OBVIOUS
<1>8. l \in AllPlaces /\ At(T, D, j, l) = b /\ b # 0
  BY <1>4, <1>6, <1>7, DirPlace
<1>9. ~Extra(B, T, D, b)
  BY <1>8 DEF Extra
<1>10. At(T, D, i, k) = b
  BY <1>1, <1>9 DEF TargetOK, NewIndirect
<1>11. j = i /\ l = k
  BY <1>2, <1>3, <1>8, <1>10 DEF Owned
<1>12. c.pos = T[i].size
  BY <1>1, <1>4, <1>11 DEF PieceOK
<1>13. PICK m, z : m = c.pos % BlockSize /\ z = y % BlockSize
  OBVIOUS
<1>14. /\ c.pos = k * BlockSize + m /\ y = k * BlockSize + z /\ k * BlockSize \in Int
       /\ m \in 0..(BlockSize - 1) /\ z \in 0..(BlockSize - 1)
  <2>1. PICK x : x = c.pos
    OBVIOUS
  <2>2. /\ x \in Nat /\ x \div BlockSize = k /\ y \div BlockSize = k
        /\ x % BlockSize = m /\ y % BlockSize = z
    BY <1>3, <1>7, <1>11, <1>13, <2>1
  <2>3. x = k * BlockSize + m /\ m \in 0..(BlockSize - 1)
    BY <2>2, DivIs
  <2>4. y = k * BlockSize + z /\ z \in 0..(BlockSize - 1)
    BY <1>6, <2>2, DivIs
  <2>5. k * BlockSize \in Int
    BY <1>3, SizeAssumption
  <2> QED
    BY <2>1, <2>3, <2>4, <2>5
<1>15. z < m /\ BlockSize \in Nat
  BY <1>6, <1>11, <1>12, <1>14, SizeAssumption
<1>16. PieceLen(c) <= BlockSize - m /\ PieceLen(c) \in Nat
  BY <1>13, PieceIs
<1>17. c.buf = D[b]
  BY <1>1, <1>14, <1>15, <1>16
<1>18. v[z] = c.buf[z]
  <2>1. \A x \in 0..(BlockSize - 1) : x < c.pos % BlockSize => v[x] = c.buf[x]
    BY MergedIs
  <2> QED
    BY <1>13, <1>14, <1>15, <2>1
<1>19. D[b][z].val \in Inums
  BY <1>4, <1>13 DEF DiskOK, DirsLead
<1> QED
  BY <1>13, <1>17, <1>18, <1>19

(* The block of the piece stays the block of the piece when it is written. *)
LEMMA TargetStays ==
  ASSUME NEW B, NEW T, NEW D, DiskOK(B, T, D), NEW c, PieceOK(T, c), TargetOK(B, T, D, c),
         NEW D2, SamePlaces(T, D, T, D2), NEW v, DataWritten(D, D2, c.blk, v),
         NEW f, f.blk = c.blk, f.ino.addr = c.ino.addr,
         f.ino.inode_index = c.ino.inode_index, Place(f) = Place(c)
  PROVE  TargetOK(B, T, D2, f)
<1>1. PICK i, k, b, n : i = c.ino.inode_index /\ k = Place(c) /\ b = c.blk /\ n = c.ino
  OBVIOUS
<1>2. TableOK(T)
  BY DEF DiskOK
<1>3. i \in Inums /\ k \in AllPlaces /\ n \in InodeDef
  BY <1>1, <1>2, PieceIs, PlaceOf
<1>4. At(T, D2, i, k) = At(T, D, i, k) /\ n.addr[Direct] \in 0..BlockNum
  BY <1>3, InodeFields DEF SamePlaces
<1>5. \A x : Extra(B, T, D, x) => Extra(B, T, D2, x)
  BY ExtraSame
<1>6. CASE c.ino.addr = T[i].addr /\ At(T, D, i, k) = b /\ b # 0
  BY <1>1, <1>4, <1>6 DEF TargetOK
<1>7. CASE /\ k < Direct /\ T[i].addr[k] = 0
           /\ n.addr = [T[i].addr EXCEPT ![k] = b] /\ Extra(B, T, D, b)
  BY <1>1, <1>5, <1>7 DEF TargetOK
<1>8. CASE NewIndirect(B, T, D, c, b) /\ D[n.addr[Direct]][0].val = b
  <2>1. NewIndirect(B, T, D2, f, b)
    BY <1>1, <1>5, <1>8 DEF NewIndirect
  <2>2. n.addr[Direct] # b
    BY <1>1, <1>8 DEF NewIndirect
  <2>3. D2[n.addr[Direct]] = D[n.addr[Direct]]
    BY <1>1, <1>4, <2>2 DEF DataWritten
  <2> QED
    BY <1>1, <1>8, <2>1, <2>3 DEF TargetOK
<1> QED
  BY <1>1, <1>6, <1>7, <1>8 DEF TargetOK

\* The inode i grows, and no other changes.
InodeGrown(T, T2, i) ==
  /\ \A j \in Inums \ {i} : T2[j] = T[j]
  /\ ByMkfs(T[i].addr[Direct]) => ByMkfs(T2[i].addr[Direct])
  /\ T2[i].type = T[i].type /\ T[i].size <= T2[i].size

(* What follows fits as before. *)
LEMMA BufsStay ==
  ASSUME NEW T, NEW T2, NEW c, BufsOK(T, c), NEW d, d.bufs = c.bufs, d.start = c.start,
         d.ino.inode_index = c.ino.inode_index, InodeGrown(T, T2, c.ino.inode_index)
  PROVE  BufsOK(T2, d)
BY DEF BufsOK, InodeGrown, Fits

(* The inode to create stays free. *)
LEMMA CreateStays ==
  ASSUME NEW T, NEW T2, NEW i, InodeGrown(T, T2, i), T[i].type # "none", NEW c, CreateOK(T, c),
         NEW d, d.op = c.op, d.level = c.level, d.type = c.type, d.new = c.new
  PROVE  CreateOK(T2, d)
BY DEF CreateOK, InodeGrown

\* The frame with which Write's loop goes on, n cells later.
Advanced(c, n) ==
  [c EXCEPT !.pc = "WriteImpl", !.rest = SubSeq(c.rest, n + 1, Len(c.rest)),
     !.pos = @ + n, !.done = @ + n, !.blk = 0, !.buf = BlankBlock,
     !.inodes = <<>>, !.why = "none", !.first = 0]

\* It has the rest of the piece, which ends where the piece did.
Behind(c, n, d) ==
  /\ DOMAIN d = Fields /\ d.pc = "WriteImpl" /\ d.op = c.op /\ d.ino = c.ino
  /\ d.bufs = c.bufs /\ d.start = c.start /\ d.res = c.res /\ d.fd = c.fd
  /\ d.level = c.level /\ d.type = c.type /\ d.new = c.new /\ d.inodes = <<>>
  /\ d.pos = c.pos + n /\ d.pos \in Nat /\ d.done = c.done + n /\ IsSeq(d.rest)
  /\ d.pos + Len(d.rest) = c.pos + Len(c.rest)
  /\ Len(c.rest) = 1 => d.rest = <<>>

(* Write's loop goes on with that frame. *)
LEMMA AdvanceIs ==
  ASSUME NEW T, NEW c, PieceOK(T, c), DOMAIN c = Fields, NEW n, n = PieceLen(c), NEW d,
         d = Advanced(c, n)
  PROVE  Behind(c, n, d)
<1>0. PICK x, y : x = c.pos + n /\ y = c.done + n
  OBVIOUS
<1>1. PICK r : r = SubSeq(c.rest, n + 1, Len(c.rest))
  OBVIOUS
<1>2. d = [c EXCEPT !.pc = "WriteImpl", !.rest = r, !.pos = x, !.done = y, !.blk = 0,
             !.buf = BlankBlock, !.inodes = <<>>, !.why = "none", !.first = 0]
  BY <1>0, <1>1 DEF Advanced
<1>3. /\ DOMAIN d = Fields /\ d.pc = "WriteImpl" /\ d.op = c.op /\ d.ino = c.ino
      /\ d.bufs = c.bufs /\ d.start = c.start /\ d.res = c.res /\ d.fd = c.fd
      /\ d.level = c.level /\ d.type = c.type /\ d.new = c.new /\ d.inodes = <<>>
      /\ d.pos = x /\ d.done = y /\ d.rest = r
  <2>1. DOMAIN d = Fields
    BY <1>2
  <2>2. /\ d.pc = "WriteImpl" /\ d.inodes = <<>> /\ d.pos = x /\ d.done = y /\ d.rest = r
    BY <1>2 DEF Fields
  <2>3. /\ d.op = c.op /\ d.ino = c.ino /\ d.bufs = c.bufs /\ d.start = c.start
    BY <1>2 DEF Fields
  <2>4. /\ d.res = c.res /\ d.fd = c.fd /\ d.level = c.level /\ d.type = c.type
        /\ d.new = c.new
    BY <1>2 DEF Fields
  <2> QED
    BY <2>1, <2>2, <2>3, <2>4
<1>4. /\ Len(c.rest) \in Nat /\ n \in Nat /\ n >= 1 /\ n <= Len(c.rest) /\ c.pos \in Nat
  BY PieceIs
<1>5. PICK S : c.rest \in Seq(S)
  BY DEF PieceOK, IsSeq
<1>6. r \in Seq(S) /\ Len(r) = Len(c.rest) - n
  BY <1>1, <1>4, <1>5
<1>7. Len(c.rest) = 1 => r = <<>>
  BY <1>4, <1>6
<1>8. IsSeq(r) /\ x \in Nat /\ x + Len(r) = c.pos + Len(c.rest)
  <2>1. IsSeq(r)
    BY <1>6, Zenon DEF IsSeq
  <2>2. x \in Nat /\ x + Len(r) = c.pos + Len(c.rest)
    BY <1>0, <1>4, <1>6
  <2> QED
    BY <2>1, <2>2
<1> QED
  BY <1>0, <1>3, <1>7, <1>8 DEF Behind

(* Write's loop goes on, or Write returns, when the piece is in the file. *)
LEMMA AdvanceOK ==
  ASSUME NEW w \in Procs, OneWriter(w), IInv(w), NEW c, c = call[w], c.pc \in Writes,
         Advance(w, c), crashes' = crashes, DiskOK(bmap', itab', data'),
         \A n : CopyOK(itab, n) => CopyOK(itab', n),
         NEW i, i = c.ino.inode_index, c.ino = itab'[i], InodeGrown(itab, itab', i),
         c.pos + PieceLen(c) <= itab'[i].size,
         c.op = "write" => DirsBounded(itab', crashes),
         c.op # "write" => DirsBounded(itab', crashes + 1)
  PROVE  IInv(w)'
<1>1. PICK n, d : n = PieceLen(c) /\ d = Advanced(c, n)
  OBVIOUS
<1>2. ~Calm(call[w])
  BY DEF Calm, Writes
<1>3. /\ TableOK(itab) /\ DOMAIN c = Fields /\ WriterOK(bmap, itab, data, c) /\ crashes \in Nat
      /\ FdsAgree(fds, itab) /\ FdWriter(fds[w], itab, c)
  BY <1>2, WriterIs
<1>4. PieceOK(itab, c)
  BY <1>3 DEF WriterOK, WriteOK
<1>5. /\ i \in Inums /\ n \in Nat /\ c.ino \in InodeDef
  BY <1>1, <1>4, PieceIs
<1>6. /\ DOMAIN d = Fields /\ d.pc = "WriteImpl" /\ d.op = c.op /\ d.ino = c.ino
      /\ d.bufs = c.bufs /\ d.start = c.start /\ d.res = c.res /\ d.fd = c.fd
      /\ d.level = c.level /\ d.type = c.type /\ d.new = c.new /\ d.inodes = <<>>
      /\ d.pos = c.pos + n /\ d.pos \in Nat /\ d.done = c.done + n /\ IsSeq(d.rest)
      /\ d.pos + Len(d.rest) = c.pos + Len(c.rest)
      /\ Len(c.rest) = 1 => d.rest = <<>>
  <2>1. Behind(c, n, d)
    BY <1>1, <1>3, <1>4, AdvanceIs
  <2> QED
    BY <2>1 DEF Behind
<1>7. itab'[i].type = itab[i].type /\ c.ino.type = itab[i].type
  BY <1>4 DEF PieceOK, InodeGrown
<1>8. c.op = "write" => BufsOK(itab', d)
  <2>1. c.op = "write" => BufsOK(itab, c)
    BY <1>4 DEF PieceOK
  <2> QED
    BY <1>6, <2>1, BufsStay
<1>9. c.op = "write" => d.res \in Nat /\ d.done \in Nat /\ c.ino.type = "regular_file"
  <2>1. c.op = "write" => c.res \in Nat /\ c.done \in Nat /\ c.ino.type = "regular_file"
    BY <1>4 DEF PieceOK
  <2> QED
    BY <1>5, <1>6, <2>1
<1>10. c.op = "write" => Writing(c) /\ OpenOnce(fds[w], c.fd, i)
  BY <1>3 DEF Writing, FdWriter
<1>11. ASSUME c.op = "write", NEW s \in FdSlots \ {c.fd}, fds[w][s].file_type = "regular_file"
       PROVE  fds[w][s].inode = itab'[fds[w][s].inode.inode_index]
  <2>1. fds[w][s].inode = itab[fds[w][s].inode.inode_index]
    BY <1>3, <1>11 DEF FdWriter
  <2>2. CopyOK(itab, fds[w][s].inode)
    BY <1>3, <1>11 DEF FdsAgree
  <2>3. fds[w][s].inode.inode_index \in Inums
    BY <2>2, InodeFields DEF CopyOK
  <2>4. fds[w][s].inode.inode_index # i
    BY <1>10, <1>11 DEF OpenOnce
  <2> QED
    BY <2>1, <2>3, <2>4 DEF InodeGrown
<1>12. CASE d.rest = <<>> /\ WriteReturns(w, d)
  <2>1. d.op = "write" => AfterWrite(w, itab', d)
    BY <1>3, <1>5, <1>6, <1>8, <1>9, <1>10, <1>11 DEF AfterWrite, FdWriter
  <2>2. ASSUME d.op # "write" PROVE AfterEntry(w, itab', d)
    <3>1. CreateOK(itab, c) /\ c.ino.type = "directory" /\ itab[i].type = "directory"
      BY <1>4, <1>6, <2>2 DEF PieceOK
    <3>2. CreateOK(itab', d)
      BY <1>6, <3>1, CreateStays
    <3>3. ASSUME NEW s \in FdSlots, fds[w][s].file_type = "regular_file"
          PROVE  fds[w][s].inode = itab'[fds[w][s].inode.inode_index]
      <4>1. fds[w][s].inode = itab[fds[w][s].inode.inode_index]
        BY <1>3, <1>6, <2>2, <3>3 DEF FdWriter, Writing
      <4>2. fds[w][s].inode.type = "regular_file" /\ CopyOK(itab, fds[w][s].inode)
        BY <1>3, <3>3 DEF FdsAgree
      <4>3. fds[w][s].inode.inode_index \in Inums
        BY <4>2, InodeFields DEF CopyOK
      <4>4. fds[w][s].inode.inode_index # i
        BY <3>1, <4>1, <4>2
      <4> QED
        BY <4>1, <4>3, <4>4 DEF InodeGrown
    <3> QED
      BY <3>2, <3>3 DEF AfterEntry
  <2>3. /\ d.op = "write" => AfterWrite(w, itab', d) /\ DirsBounded(itab', crashes)
        /\ d.op # "write" => AfterEntry(w, itab', d) /\ DirsBounded(itab', crashes + 1)
        /\ \A j \in DOMAIN d.inodes : j \in Inums => d.inodes[j] = itab'[j]
    BY <1>6, <2>1, <2>2
  <2> QED
    BY <1>6, <1>12, <2>3, WriteReturnsOK
<1>13. CASE d.rest # <<>> /\ Step(w, d) /\ UNCHANGED fds
  <2>1. c.op = "write"
    BY <1>4, <1>6, <1>13 DEF PieceOK
  <2>2. Fits(itab', i, d.pos + Len(d.rest))
    BY <1>4, <1>6 DEF PieceOK, Fits, InodeGrown
  <2>3. PieceOK(itab', d)
    BY <1>1, <1>5, <1>6, <1>7, <1>8, <1>9, <1>13, <2>1, <2>2 DEF PieceOK
  <2>4. WriteOK(bmap', itab', data', d) /\ d.pc \in Writes
    BY <1>6, <2>3 DEF WriteOK, Writes
  <2>5. Writing(d) /\ Writing(c)
    BY <1>6, <1>10, <2>1, <2>4 DEF Writing
  <2>6. FdWriter(fds[w], itab', c)
    BY <1>3, <1>11, <2>1, <2>5 DEF FdWriter
  <2>7. \A j \in DOMAIN d.inodes : j \in Inums => d.inodes[j] = itab'[j]
    BY <1>6
  <2>8. WriterIn(w, bmap', itab', data', d, fds[w], crashes)
    BY <1>3, <1>6, <2>1, <2>4, <2>5, <2>6, <2>7, WriteFrame
  <2>9. FdsAgree(fds, itab')
    BY <1>3, FdsStay
  <2>10. WriterIn(w, bmap', itab', data', d, fds'[w], crashes) /\ FdsAgree(fds', itab')
    BY <1>13, <2>8, <2>9
  <2> QED
    BY <1>13, <2>10, WriterStep
<1>14. IF d.rest = <<>> THEN WriteReturns(w, d) ELSE Step(w, d) /\ UNCHANGED fds
  BY <1>1, Zenon DEF Advance, Advanced
<1> QED
  BY <1>12, <1>13, <1>14

(* A piece ends inside the largest file. *)
LEMMA PieceEnd ==
  ASSUME NEW T, NEW c, PieceOK(T, c)
  PROVE  c.pos + PieceLen(c) \in 0..MaxSupportFileSize
<1>1. PICK x, n, l, i : x = c.pos /\ n = PieceLen(c) /\ l = Len(c.rest) /\ i = c.ino.inode_index
  OBVIOUS
<1>2. x \in Nat /\ n \in Nat /\ l \in Nat /\ n <= l
  BY <1>1, PieceIs
<1>3. Fits(T, i, x + l)
  BY <1>1 DEF PieceOK
<1>4. BlockSize \in Nat \ {0} /\ Direct \in Nat
  BY SizeAssumption
<1>5. (Direct + 1) * BlockSize <= MaxSupportFileSize /\ MaxSupportFileSize \in Nat
  <2>1. PICK a, b : a = Direct + 1 /\ b = Direct + BlockSize
    OBVIOUS
  <2>2. a \in Nat /\ b \in Nat /\ a <= b
    BY <1>4, <2>1
  <2>3. a < b => a * BlockSize + BlockSize <= b * BlockSize
    BY <2>2, Steps
  <2>4. a * BlockSize \in Nat /\ b * BlockSize \in Nat
    BY <1>4, <2>2
  <2>5. a * BlockSize <= b * BlockSize
    BY <1>4, <2>2, <2>3, <2>4
  <2> QED
    BY <2>1, <2>4, <2>5 DEF MaxSupportFileSize
<1>6. x + l <= MaxSupportFileSize
  <2>1. (Direct + 1) * BlockSize \in Int
    BY <1>4
  <2> QED
    BY <1>2, <1>3, <1>5, <2>1 DEF Fits
<1>7. x + n \in 0..MaxSupportFileSize
  BY <1>2, <1>5, <1>6
<1> QED
  BY <1>1, <1>7

(* A piece that ends inside the file goes to a block the file has. *)
LEMMA TargetInside ==
  ASSUME NEW B, NEW T, NEW D, DiskOK(B, T, D), NEW c, PieceOK(T, c), TargetOK(B, T, D, c),
         NEW i, i = c.ino.inode_index, c.ino.size = T[i].size, c.pos < T[i].size,
         T[i].type # "none"
  PROVE  c.ino = T[i]
<1>1. PICK k : k = Place(c)
  OBVIOUS
<1>2. TableOK(T) /\ Covered(T, D) /\ BlockSize \in Nat /\ Direct \in Nat
  BY SizeAssumption DEF DiskOK
<1>3. i \in Inums /\ k \in Nat /\ k * BlockSize <= c.pos /\ c.pos \in Nat /\ c.ino \in InodeDef
  BY <1>1, <1>2, PieceIs, PlaceOf
<1>4. T[i] \in InodeDef /\ T[i].inode_index = i /\ T[i].size \in Nat
  BY <1>2, <1>3, TableIs, InodeFields
<1>5. k * BlockSize < T[i].size
  <2>1. k * BlockSize \in Int
    BY <1>2, <1>3
  <2> QED
    BY <1>3, <1>4, <2>1
<1>6. At(T, D, i, k) # 0
  BY <1>2, <1>3, <1>5 DEF Covered
<1>7. ~(k < Direct /\ T[i].addr[k] = 0)
  BY <1>2, <1>3, <1>6 DEF At
<1>8. ~(k = Direct /\ T[i].addr[Direct] = 0)
  BY <1>2, <1>3, <1>6 DEF At
<1>9. c.ino.addr = T[i].addr
  BY <1>1, <1>7, <1>8 DEF TargetOK, NewIndirect
<1>10. c.ino.type = T[i].type
  BY DEF PieceOK
<1> QED
  BY <1>3, <1>4, <1>9, <1>10, SameInode

(* The block of the piece is written. *)
LEMMA WriteDataOK ==
  ASSUME NEW w \in Procs, OneWriter(w), NEW p \in Procs, IInv(w), WriteData(p)
  PROVE  IInv(w)'
<1>1. PICK c, b, v, i, e : /\ c = call[p] /\ b = c.blk /\ v = Merged(c, c.buf)
                           /\ i = c.ino.inode_index /\ e = c.pos + PieceLen(c)
  OBVIOUS
<1>2. /\ c.pc = "WriteMerged" \/ (c.pc = "WriteData" /\ PieceLen(c) = BlockSize)
      /\ UNCHANGED <<bmap, itab, crashes>> /\ ~Calm(call[p])
      /\ c.pc \in Writes /\ data' = [data EXCEPT ![b] = v]
  <2>1. /\ \/ call[p].pc = "WriteMerged"
           \/ call[p].pc = "WriteData" /\ PieceLen(call[p]) = BlockSize
        /\ UNCHANGED <<bmap, itab, cwd, calls, torn, crashes>>
        /\ data' = [data EXCEPT ![call[p].blk] = Merged(call[p], call[p].buf)]
    BY Zenon DEF WriteData
  <2>2. data' = [data EXCEPT ![b] = v]
    BY <1>1, <2>1
  <2> QED
    BY <1>1, <2>1, <2>2 DEF Calm, Writes
<1>3. /\ p = w /\ TableOK(itab) /\ DOMAIN c = Fields /\ WriterOK(bmap, itab, data, c)
      /\ DiskOK(bmap, itab, data) /\ c = call[w] /\ DirsSmall(itab) /\ crashes \in Nat
      /\ DirsBounded(itab, Pending(c, crashes))
  BY <1>1, <1>2, WriterIs
<1>4. /\ PieceOK(itab, c) /\ TargetOK(bmap, itab, data, c) /\ c.ino.size = itab[i].size
      /\ PieceLen(c) = BlockSize \/ c.buf = data[c.blk]
  BY <1>1, <1>2, <1>3 DEF WriterOK, WriteOK
<1>5. c.ino \in InodeDef /\ i \in Inums /\ PieceLen(c) \in Nat /\ PieceLen(c) >= 1 /\ c.pos \in Nat
  BY <1>1, <1>4, PieceIs
<1>6. b \in 1..BlockNum /\ NoIndirect(itab, b)
  BY <1>1, <1>3, <1>4, TargetBlock
<1>7. DirsKeep(itab, b, v)
  BY <1>1, <1>3, <1>4, TargetKeeps
<1>8. DOMAIN v = 0..(BlockSize - 1) /\ v[c.pos % BlockSize] = c.rest[1]
  BY <1>1, <1>4, MergedIs
<1>9. DataWritten(data, data', b, v)
  <2>1. DOMAIN data = 0..BlockNum
    BY <1>3 DEF DiskOK
  <2> QED
    BY <1>2, <1>6, <2>1 DEF DataWritten
<1>10. DiskOK(bmap, itab, data') /\ SamePlaces(itab, data, itab, data')
  BY <1>3, <1>6, <1>7, <1>8, <1>9, BlockWritten
<1>11. DiskOK(bmap', itab', data') /\ itab' = itab /\ bmap' = bmap
  BY <1>2, <1>10
<1>12. CASE e > c.ino.size /\ UNCHANGED fds /\ Step(w, [c EXCEPT !.pc = "UpdateSize", !.ino.size = e])
  <2>1. PICK n : n = [c.ino EXCEPT !.size = e]
    OBVIOUS
  <2>2. /\ n \in InodeDef /\ n.inode_index = i /\ n.type = c.ino.type
        /\ n.size = e /\ n.addr = c.ino.addr
    <3>1. e \in 0..MaxSupportFileSize
      BY <1>1, <1>4, PieceEnd
    <3> QED
      BY <1>1, <1>5, <2>1, <3>1 DEF InodeDef
  <2>3. PICK f : f = [c EXCEPT !.pc = "UpdateSize", !.ino = n]
    OBVIOUS
  <2>4. /\ DOMAIN f = Fields /\ f.pc = "UpdateSize" /\ f.blk = b /\ f.ino = n /\ SamePiece(c, f)
    BY <1>1, <1>3, <2>2, <2>3 DEF Fields, SamePiece
  <2>5. PieceOK(itab, f) /\ Place(f) = Place(c) /\ PieceLen(f) = PieceLen(c)
    BY <1>4, <2>2, <2>4, PieceSame
  <2>6. TargetOK(bmap, itab, data', f)
    <3>1. f.blk = c.blk /\ f.ino.addr = c.ino.addr /\ f.ino.inode_index = c.ino.inode_index
      BY <1>1, <2>2, <2>4
    <3>2. DataWritten(data, data', c.blk, v)
      BY <1>1, <1>9
    <3> QED
      BY <1>3, <1>4, <1>10, <2>5, <3>1, <3>2, TargetStays
  <2>7. /\ f.ino.size = f.pos + PieceLen(f) /\ itab[i].size < f.ino.size
        /\ f.op # "write" => data'[f.blk][f.pos % BlockSize].val \in Inums
    <3>1. f.op # "write" => c.rest[1].val \in Inums
      BY <1>4, <2>4 DEF PieceOK, CreateOK, SamePiece
    <3>2. data'[b][c.pos % BlockSize] = c.rest[1]
      BY <1>8, <1>9 DEF DataWritten
    <3>3. itab[i].size \in Nat /\ e \in Nat
      BY <1>1, <1>3, <1>5, TableIs, InodeFields
    <3>4. itab[i].size < e
      BY <1>4, <1>12, <3>3
    <3> QED
      BY <1>1, <2>2, <2>4, <2>5, <3>1, <3>2, <3>4 DEF SamePiece
  <2>8. WriteOK(bmap, itab, data', f) /\ f.pc \in Writes
    BY <2>2, <2>4, <2>5, <2>6, <2>7 DEF WriteOK, Writes
  <2>9. Step(w, f)
    <3>1. [c EXCEPT !.pc = "UpdateSize", !.ino.size = e] = f
      BY <1>3, <2>1, <2>3 DEF Fields
    <3> QED
      BY <1>12, <3>1
  <2>10. WriteOK(bmap', itab', data', f)
    BY <1>11, <2>8
  <2> QED
    BY <1>2, <1>3, <1>11, <1>12, <2>4, <2>8, <2>9, <2>10, WriteOn
<1>13. CASE ~(e > c.ino.size) /\ Advance(w, c)
  <2>1. itab[i].size \in Nat /\ itab[i] \in InodeDef
    BY <1>3, <1>5, TableIs, InodeFields
  <2>2. c.pos < itab[i].size /\ e <= itab[i].size
    BY <1>1, <1>4, <1>5, <1>13, <2>1
  <2>3. c.op = "write" /\ itab[i].type # "none"
    BY <1>1, <1>4, <2>1, <2>2 DEF PieceOK
  <2>4. c.ino = itab[i]
    BY <1>1, <1>3, <1>4, <2>2, <2>3, TargetInside
  <2>5. DirsBounded(itab, crashes)
    BY <1>2, <1>3 DEF Pending
  <2>6. InodeGrown(itab, itab', i)
    BY <1>11, <2>1 DEF InodeGrown
  <2>7. /\ c.ino = itab'[i] /\ c.pos + PieceLen(c) <= itab'[i].size
        /\ c.op = "write" => DirsBounded(itab', crashes)
        /\ c.op # "write" => DirsBounded(itab', crashes + 1)
        /\ \A n : CopyOK(itab, n) => CopyOK(itab', n)
        /\ crashes' = crashes
    BY <1>1, <1>2, <1>11, <2>2, <2>3, <2>4, <2>5
  <2> QED
    BY <1>1, <1>2, <1>3, <1>11, <1>13, <2>6, <2>7, AdvanceOK
<1>14. \/ e > c.ino.size /\ UNCHANGED fds /\ Step(w, [c EXCEPT !.pc = "UpdateSize", !.ino.size = e])
       \/ ~(e > c.ino.size) /\ Advance(w, c)
  <2>1. IF call[p].pos + PieceLen(call[p]) > call[p].ino.size
        THEN /\ Step(p, [call[p] EXCEPT !.pc = "UpdateSize",
                                        !.ino.size = call[p].pos + PieceLen(call[p])])
             /\ UNCHANGED fds
        ELSE Advance(p, call[p])
    BY Zenon DEF WriteData
  <2>2. CASE call[p].pos + PieceLen(call[p]) > call[p].ino.size
    BY <1>1, <1>3, <2>1, <2>2, Zenon DEF Step
  <2>3. CASE ~(call[p].pos + PieceLen(call[p]) > call[p].ino.size)
    <3>1. Advance(p, call[p])
      BY <2>1, <2>3
    <3>2. Advance(w, c)
      BY <1>1, <1>3, <3>1, Zenon DEF Advance, WriteReturns, Step, Returned, WrittenInode, PieceLen
    <3> QED
      BY <1>1, <2>3, <3>2
  <2> QED
    BY <2>2, <2>3
<1> QED
  BY <1>12, <1>13, <1>14

-----------------------------------------------------------------------------
(* Writing inodes *)

\* The table has the inode n at i, and no other inode has changed.
TableSet(T, T2, i, n) ==
  /\ T2 = [j \in Inums |-> T2[j]] /\ T2[i] = n
  /\ \A j \in Inums : j # i => T2[j] = T[j]

(* UpdateInode changes one inode: its copy of the block is not stale. *)
LEMMA Stored ==
  ASSUME NEW c, NEW n, NEW i \in Inums, n.inode_index = i, StoreInode(c, n),
         \A j \in DOMAIN c.inodes : j \in Inums => c.inodes[j] = itab[j]
  PROVE  TableSet(itab, itab', i, n)
<1>1. itab' = [j \in Inums |-> IF j = i THEN n
                               ELSE IF j \in DOMAIN c.inodes THEN c.inodes[j] ELSE itab[j]]
  BY Zenon DEF StoreInode
<1>2. itab' = [j \in Inums |-> itab'[j]] /\ itab'[i] = n
  BY <1>1
<1>3. ASSUME NEW j \in Inums, j # i PROVE itab'[j] = itab[j]
  BY <1>1, <1>3
<1> QED
  BY <1>2, <1>3 DEF TableSet

\* No place loses its block.
PlacesKept(T, D, T2, D2) ==
  \A i \in Inums, k \in AllPlaces : At(T, D, i, k) # 0 => At(T2, D2, i, k) = At(T, D, i, k)

(* The inode i gets the block of the piece. *)
LEMMA PlacesGrow ==
  ASSUME NEW B, NEW T, NEW D, DiskOK(B, T, D), NEW c, PieceOK(T, c), TargetOK(B, T, D, c),
         NEW i, i = c.ino.inode_index, NEW T2, TableSet(T, T2, i, c.ino)
  PROVE  /\ Owned(B, T2, D) /\ PlacesKept(T, D, T2, D)
         /\ At(T2, D, i, Place(c)) = c.blk /\ c.blk # 0
<1>1. PICK k, b, n, old : k = Place(c) /\ b = c.blk /\ n = c.ino /\ old = T[i].addr
  OBVIOUS
<1>2. /\ TableOK(T) /\ Owned(B, T, D) /\ B \subseteq Blocks
      /\ BlockSize \in Nat \ {0} /\ Direct \in Nat
  BY SizeAssumption DEF DiskOK
<1>3. i \in Inums /\ k \in Nat /\ k \in AllPlaces /\ n \in InodeDef
  BY <1>1, <1>2, PieceIs, PlaceOf
<1>4. old \in [0..Direct -> 0..BlockNum]
  BY <1>1, <1>2, <1>3, TableIs, InodeFields
<1>5. T2[i] = n /\ \A j \in Inums : j # i => T2[j] = T[j]
  BY <1>1 DEF TableSet
<1>6. \A j \in Inums : j # i => \A l : At(T2, D, j, l) = At(T, D, j, l)
  BY <1>5 DEF At
<1>7. CASE n.addr = old /\ At(T, D, i, k) = b /\ b # 0
  <2>1. \A l : At(T2, D, i, l) = At(T, D, i, l)
    BY <1>1, <1>5, <1>7 DEF At
  <2>2. SamePlaces(T, D, T2, D)
    BY <1>6, <2>1 DEF SamePlaces
  <2>3. Owned(B, T2, D)
    BY <1>2, <2>2, OwnedSame
  <2> QED
    BY <1>1, <1>7, <2>1, <2>2, <2>3 DEF SamePlaces, PlacesKept
<1>8. CASE k < Direct /\ old[k] = 0 /\ n.addr = [old EXCEPT ![k] = b] /\ Extra(B, T, D, b)
  <2>1. /\ n.addr[k] = b /\ n.addr[Direct] = old[Direct]
        /\ \A l \in 0..Direct : l # k => n.addr[l] = old[l]
    BY <1>2, <1>3, <1>4, <1>8
  <2>2. At(T2, D, i, k) = b /\ At(T, D, i, k) = 0
    BY <1>1, <1>2, <1>3, <1>5, <1>8, <2>1 DEF At
  <2>3. ASSUME NEW l \in AllPlaces, l # k PROVE At(T2, D, i, l) = At(T, D, i, l)
    <3>1. l \in Int /\ (l # -1 /\ l < Direct => l \in 0..Direct)
      BY <1>2 DEF AllPlaces
    <3> QED
      BY <1>1, <1>5, <2>1, <2>3, <3>1 DEF At
  <2>4. OneFilled(T, D, T2, D, i, k, b)
    BY <1>6, <2>2, <2>3 DEF OneFilled
  <2>5. Owned(B, T2, D)
    BY <1>2, <1>8, <2>4, OwnedOne
  <2>6. b # 0
    BY <1>2, <1>8 DEF Extra, Blocks
  <2>7. PlacesKept(T, D, T2, D)
    BY <1>6, <2>2, <2>3 DEF PlacesKept
  <2> QED
    BY <1>1, <2>2, <2>5, <2>6, <2>7
<1>9. CASE NewIndirect(B, T, D, c, b) /\ D[n.addr[Direct]][0].val = b
  <2>1. PICK f : f = n.addr[Direct]
    OBVIOUS
  <2>2. /\ k = Direct /\ old[Direct] = 0 /\ n.addr = [old EXCEPT ![Direct] = f]
        /\ Extra(B, T, D, f) /\ Extra(B, T, D, b) /\ f # b /\ ~ByMkfs(f)
    BY <1>1, <1>9, <2>1 DEF NewIndirect
  <2>3. f # 0 /\ b # 0
    BY <1>2, <2>2 DEF Extra, Blocks
  <2>4. \A l \in 0..Direct : l # Direct => n.addr[l] = old[l]
    BY <1>4, <2>2
  <2>5. At(T2, D, i, -1) = f /\ At(T, D, i, -1) = 0
    BY <1>1, <1>5, <2>1, <2>2 DEF At
  <2>6. At(T2, D, i, k) = b /\ At(T, D, i, k) = 0
    <3>1. k # -1 /\ ~(k < Direct) /\ k - Direct = 0
      BY <1>2, <2>2
    <3> QED
      BY <1>1, <1>5, <1>9, <2>1, <2>2, <2>3, <3>1 DEF At
  <2>7. ASSUME NEW l \in AllPlaces, l # k, l # -1 PROVE At(T2, D, i, l) = At(T, D, i, l)
    <3>1. l \in Int /\ (l < Direct => l \in 0..Direct)
      BY <1>2, <2>7 DEF AllPlaces
    <3>2. CASE l < Direct
      BY <1>1, <1>2, <1>5, <2>4, <2>7, <3>1, <3>2 DEF At
    <3>3. CASE ~(l < Direct)
      BY <1>1, <1>5, <2>1, <2>2, <2>7, <3>3 DEF At
    <3> QED
      BY <3>2, <3>3
  <2>8. TwoFilled(T, D, T2, D, i, -1, f, k, b)
    BY <1>6, <2>5, <2>6, <2>7 DEF TwoFilled
  <2>9. Owned(B, T2, D)
    BY <1>2, <2>2, <2>8, OwnedTwo
  <2>10. PlacesKept(T, D, T2, D)
    BY <1>6, <2>5, <2>6, <2>7 DEF PlacesKept
  <2> QED
    BY <1>1, <2>3, <2>6, <2>9, <2>10
<1> QED
  BY <1>1, <1>7, <1>8, <1>9 DEF TargetOK

(* The inode has grown by the piece, whose last place is the only new one. *)
LEMMA CoveredGrow ==
  ASSUME NEW B, NEW T, NEW D, DiskOK(B, T, D), NEW c, PieceOK(T, c), TargetOK(B, T, D, c),
         NEW i, i = c.ino.inode_index, NEW T2, TableSet(T, T2, i, c.ino),
         c.ino.size = c.pos + PieceLen(c)
  PROVE  Covered(T2, D)
<1>1. PICK k, x, n, m, s : /\ k = Place(c) /\ x = c.pos /\ n = PieceLen(c)
                           /\ m = x % BlockSize /\ s = T[i].size
  OBVIOUS
<1>2. TableOK(T) /\ Covered(T, D) /\ BlockSize \in Nat \ {0}
  BY SizeAssumption DEF DiskOK
<1>3. /\ i \in Inums /\ k \in Nat /\ k \in AllPlaces /\ k = x \div BlockSize
      /\ x \in Nat /\ n \in Nat /\ n <= BlockSize - m /\ m \in 0..(BlockSize - 1)
  <2>1. i \in Inums /\ c.pos \in Nat
    BY PieceIs
  <2>2. /\ c.pos % BlockSize \in 0..(BlockSize - 1) /\ PieceLen(c) \in Nat
        /\ PieceLen(c) <= BlockSize - (c.pos % BlockSize)
    BY PieceIs
  <2>3. Place(c) \in Nat /\ Place(c) \in AllPlaces
    BY <1>2, PlaceOf
  <2> QED
    BY <1>1, <2>1, <2>2, <2>3 DEF Place
<1>4. x = k * BlockSize + m /\ k * BlockSize \in Int
  <2>1. x \div BlockSize = k /\ x % BlockSize = m /\ x \in Nat
    BY <1>1, <1>3
  <2>2. x = k * BlockSize + m
    BY <2>1, DivIs
  <2> QED
    BY <1>2, <1>3, <2>2
<1>5. s \in Nat /\ x <= s
  BY <1>1, <1>2, <1>3, TableIs, InodeFields DEF PieceOK
<1>6. /\ PlacesKept(T, D, T2, D) /\ At(T2, D, i, k) # 0
  BY <1>1, PlacesGrow
<1>7. T2[i].size = x + n /\ \A j \in Inums : j # i => T2[j] = T[j]
  BY <1>1 DEF TableSet
<1>8. SUFFICES ASSUME NEW j \in Inums, NEW l \in Nat, l * BlockSize < T2[j].size
               PROVE  l \in AllPlaces /\ At(T2, D, j, l) # 0
  BY DEF Covered
<1>9. CASE l * BlockSize < T[j].size
  <2>1. l \in AllPlaces /\ At(T, D, j, l) # 0
    BY <1>2, <1>9 DEF Covered
  <2> QED
    BY <1>6, <2>1 DEF PlacesKept
<1>10. CASE ~(l * BlockSize < T[j].size)
  <2>1. j = i
    BY <1>7, <1>8, <1>10
  <2>2. l * BlockSize \in Int
    BY <1>2
  <2>3. l * BlockSize < x + n /\ l * BlockSize >= s
    BY <1>1, <1>5, <1>7, <1>8, <1>10, <2>1, <2>2
  <2>4. l * BlockSize < k * BlockSize + BlockSize /\ l * BlockSize >= k * BlockSize
    BY <1>2, <1>3, <1>4, <1>5, <2>2, <2>3
  <2>5. ~(l < k)
    <3>1. l < k => l * BlockSize + BlockSize <= k * BlockSize
      BY <1>3, Steps
    <3> QED
      BY <1>2, <1>4, <2>2, <2>4, <3>1
  <2>6. ~(k < l)
    <3>1. k < l => k * BlockSize + BlockSize <= l * BlockSize
      BY <1>3, Steps
    <3> QED
      BY <1>2, <1>4, <2>2, <2>4, <3>1
  <2>7. l = k
    BY <1>3, <2>5, <2>6
  <2> QED
    BY <1>3, <1>6, <2>1, <2>7
<1> QED
  BY <1>9, <1>10

(* A directory has grown by the entry that is in the block of the piece. *)
LEMMA DirsGrow ==
  ASSUME NEW B, NEW T, NEW D, DiskOK(B, T, D), DirsSmall(T), NEW c, PieceOK(T, c),
         TargetOK(B, T, D, c), NEW i, i = c.ino.inode_index, NEW T2, TableSet(T, T2, i, c.ino),
         c.ino.size = c.pos + PieceLen(c),
         c.op # "write" => D[c.blk][c.pos % BlockSize].val \in Inums
  PROVE  DirsLead(T2, D)
<1>1. PICK k, x : k = Place(c) /\ x = c.pos
  OBVIOUS
<1>2. TableOK(T) /\ DirsLead(T, D) /\ Direct \in Nat
  BY SizeAssumption DEF DiskOK
<1>3. i \in Inums /\ x \in Nat /\ k \in Nat /\ k = x \div BlockSize
  BY <1>1, <1>2, PieceIs, PlaceOf DEF Place
<1>4. PlacesKept(T, D, T2, D) /\ At(T2, D, i, k) = c.blk
  BY <1>1, PlacesGrow
<1>5. T2[i] = c.ino /\ \A j \in Inums : j # i => T2[j] = T[j]
  BY DEF TableSet
<1>6. SUFFICES ASSUME NEW j \in Inums, T2[j].type = "directory", NEW y \in 0..(T2[j].size - 1)
               PROVE  D[T2[j].addr[y \div BlockSize]][y % BlockSize].val \in Inums
  BY DEF DirsLead
<1>7. CASE j # i
  BY <1>2, <1>5, <1>6, <1>7 DEF DirsLead
<1>8. CASE j = i
  <2>1. /\ T[i].type = "directory" /\ c.op # "write" /\ x = T[i].size /\ Len(c.rest) = 1
    BY <1>1, <1>5, <1>6, <1>8 DEF PieceOK
  <2>2. PieceLen(c) = 1
    <3>1. PieceLen(c) \in Nat /\ PieceLen(c) >= 1 /\ PieceLen(c) <= Len(c.rest)
      BY PieceIs
    <3> QED
      BY <2>1, <3>1
  <2>3. T2[i].size = x + 1
    BY <1>1, <1>5, <2>2
  <2>4. y \in Nat /\ (y < x \/ y = x)
    BY <1>3, <1>6, <1>8, <2>3
  <2>5. CASE y = x
    <3>1. k < Direct /\ k # -1
      <4>1. c.op # "write" => Place(c) < Direct
        BY <1>2, PlaceOf
      <4> QED
        BY <1>1, <1>3, <2>1, <4>1
    <3>2. T2[i].addr[k] = c.blk
      BY <1>4, <3>1 DEF At
    <3> QED
      BY <1>1, <1>3, <1>8, <2>1, <2>5, <3>2
  <2>6. CASE y < x
    <3>1. PICK l : l = y \div BlockSize
      OBVIOUS
    <3>2. /\ l \in 0..(Direct - 1) /\ l \in AllPlaces
          /\ T[i].addr[l] = At(T, D, i, l) /\ T[i].addr[l] # 0
      BY <1>3, <2>1, <2>4, <2>6, <3>1, DirPlace
    <3>3. At(T2, D, i, l) = At(T, D, i, l)
      BY <1>3, <1>4, <3>2 DEF PlacesKept
    <3>4. At(T2, D, i, l) = T2[i].addr[l]
      BY <1>2, <3>2 DEF At
    <3>5. D[T[i].addr[l]][y % BlockSize].val \in Inums
      BY <1>2, <1>3, <2>1, <2>4, <2>6, <3>1 DEF DirsLead
    <3> QED
      BY <1>8, <3>1, <3>2, <3>3, <3>4, <3>5
  <2> QED
    BY <2>4, <2>5, <2>6
<1> QED
  BY <1>7, <1>8

(* Copies of the inode agree with it as before, and so does all else. *)
LEMMA CopiesGrow ==
  ASSUME NEW B, NEW T, NEW D, DiskOK(B, T, D), NEW c, PieceOK(T, c), TargetOK(B, T, D, c),
         NEW i, i = c.ino.inode_index, NEW T2, TableSet(T, T2, i, c.ino),
         T[i].size < c.ino.size
  PROVE  (\A n : CopyOK(T, n) => CopyOK(T2, n)) /\ InodeGrown(T, T2, i)
<1>1. TableOK(T) /\ Covered(T, D) /\ Direct \in Nat /\ BlockSize \in Nat \ {0}
  BY SizeAssumption DEF DiskOK
<1>2. i \in Inums /\ c.ino \in InodeDef /\ c.ino.type = T[i].type
  BY PieceIs DEF PieceOK
<1>3. T2[i] = c.ino /\ \A j \in Inums : j # i => T2[j] = T[j]
  BY DEF TableSet
<1>4. PlacesKept(T, D, T2, D) /\ -1 \in AllPlaces
  BY <1>1, PlacesGrow DEF AllPlaces
<1>5. T[i].size \in Nat /\ c.ino.size \in Nat
  BY <1>1, <1>2, TableIs, InodeFields
<1>6. T[i].addr[Direct] # 0 => T2[i].addr[Direct] = T[i].addr[Direct]
  <2>1. At(T, D, i, -1) = T[i].addr[Direct] /\ At(T2, D, i, -1) = T2[i].addr[Direct]
    BY DEF At
  <2> QED
    BY <1>2, <1>4, <2>1 DEF PlacesKept
<1>7. ASSUME NEW k \in 0..Direct, k * BlockSize < T[i].size
      PROVE  T2[i].addr[k] = T[i].addr[k]
  <2>1. k \in AllPlaces /\ At(T, D, i, k) # 0
    BY <1>1, <1>2, <1>7 DEF Covered
  <2>2. At(T2, D, i, k) = At(T, D, i, k)
    BY <1>2, <1>4, <2>1 DEF PlacesKept
  <2>3. CASE k < Direct
    <3>1. k # -1
      BY <1>1
    <3>2. At(T, D, i, k) = T[i].addr[k] /\ At(T2, D, i, k) = T2[i].addr[k]
      BY <2>3, <3>1 DEF At
    <3> QED
      BY <2>2, <3>2
  <2>4. CASE k = Direct
    <3>1. k # -1 /\ ~(k < Direct)
      BY <1>1, <2>4
    <3>2. T[i].addr[Direct] # 0
      BY <2>1, <3>1 DEF At
    <3> QED
      BY <1>6, <2>4, <3>2
  <2> QED
    BY <1>1, <2>3, <2>4
<1>8. ASSUME NEW n, CopyOK(T, n) PROVE CopyOK(T2, n)
  <2>1. n \in InodeDef /\ n.inode_index \in Inums /\ n.size \in Nat
    BY <1>8, InodeFields DEF CopyOK
  <2>2. CASE n.inode_index # i
    <3>1. T2[n.inode_index] = T[n.inode_index]
      BY <1>3, <2>1, <2>2
    <3> QED
      BY <1>8, <3>1 DEF CopyOK
  <2>3. CASE n.inode_index = i
    <3>1. n.type # "none" /\ T2[i].type = n.type /\ n.size <= T[i].size
      BY <1>2, <1>3, <1>8, <2>3 DEF CopyOK
    <3>2. n.size <= T2[i].size
      BY <1>3, <1>5, <2>1, <3>1
    <3>3. ASSUME NEW k \in 0..Direct, k * BlockSize < n.size
          PROVE  n.addr[k] = T2[i].addr[k]
      <4>1. n.addr[k] = T[i].addr[k]
        BY <1>8, <2>3, <3>3 DEF CopyOK
      <4>2. k * BlockSize < T[i].size
        <5>1. k * BlockSize \in Int
          BY <1>1
        <5> QED
          BY <1>5, <2>1, <3>1, <3>3, <5>1
      <4> QED
        BY <1>7, <4>1, <4>2
    <3> QED
      BY <2>1, <2>3, <3>1, <3>2, <3>3 DEF CopyOK
  <2> QED
    BY <2>2, <2>3
<1>9. InodeGrown(T, T2, i)
  <2>1. ByMkfs(T[i].addr[Direct]) => ByMkfs(T2[i].addr[Direct])
    <3>1. ~ByMkfs(0)
      BY DEF ByMkfs
    <3> QED
      BY <1>6, <3>1
  <2>2. T2[i].type = T[i].type /\ T[i].size <= T2[i].size
    BY <1>2, <1>3, <1>5
  <2> QED
    BY <1>3, <2>1, <2>2 DEF InodeGrown
<1> QED
  BY <1>8, <1>9

(* The disk stays in order when an inode grows by a piece. *)
LEMMA DiskGrow ==
  ASSUME NEW B, NEW T, NEW D, DiskOK(B, T, D), DirsSmall(T), NEW c, PieceOK(T, c),
         TargetOK(B, T, D, c), NEW i, i = c.ino.inode_index, NEW T2, TableSet(T, T2, i, c.ino),
         c.ino.size = c.pos + PieceLen(c),
         c.op # "write" => D[c.blk][c.pos % BlockSize].val \in Inums
  PROVE  DiskOK(B, T2, D)
<1>1. TableOK(T2)
  <2>1. TableOK(T)
    BY DEF DiskOK
  <2>2. i \in Inums /\ c.ino \in InodeDef /\ T[i].type = c.ino.type
    BY PieceIs DEF PieceOK
  <2>3. T2[i] = c.ino /\ \A j \in Inums : j # i => T2[j] = T[j]
    BY DEF TableSet
  <2>4. ASSUME NEW j \in Inums
        PROVE  /\ T2[j] \in InodeDef /\ T2[j].type = T[j].type
               /\ T2[j].type # "none" => T2[j].inode_index = j
    BY <2>1, <2>2, <2>3 DEF TableOK
  <2>5. Root \in Inums
    BY SizeAssumption DEF Root, Inums
  <2>6. T2 \in [Inums -> InodeDef]
    <3>1. T2 = [j \in Inums |-> T2[j]]
      BY DEF TableSet
    <3> QED
      BY <2>4, <3>1
  <2> QED
    BY <2>1, <2>4, <2>5, <2>6 DEF TableOK
<1>2. Owned(B, T2, D)
  BY PlacesGrow
<1>3. Covered(T2, D)
  BY CoveredGrow
<1>4. DirsLead(T2, D)
  BY DirsGrow
<1> QED
  BY <1>1, <1>2, <1>3, <1>4 DEF DiskOK

(* The bound on directories when an inode grows: an entry counts one more. *)
LEMMA BoundGrow ==
  ASSUME NEW T, TableOK(T), NEW T2, NEW c, PieceOK(T, c), NEW i, i = c.ino.inode_index,
         TableSet(T, T2, i, c.ino), InodeGrown(T, T2, i), c.ino.size = c.pos + PieceLen(c),
         NEW e \in Nat, DirsBounded(T, e)
  PROVE  /\ c.op = "write" => DirsBounded(T2, e)
         /\ c.op # "write" => DirsBounded(T2, e + 1)
<1>1. i \in Inums /\ T2[i] = c.ino /\ (\A j \in Inums : j # i => T2[j] = T[j])
  BY PieceIs DEF TableSet
<1>2. T2[i].type = T[i].type
  BY DEF InodeGrown
<1>3. FreeInums(T2) = FreeInums(T)
  BY <1>1, <1>2 DEF FreeInums
<1>4. PICK n : n = Cardinality(FreeInums(T))
  OBVIOUS
<1>5. n \in Nat /\ InodeNum \in Nat
  BY <1>4, FreeCount, SizeAssumption
<1>6. \A j \in Inums : T[j].type = "directory" => T[j].size + n <= InodeNum - 1 + e
  BY <1>4 DEF DirsBounded
<1>7. \A j \in Inums : T[j].size \in Nat
  BY TableIs, InodeFields
<1>8. CASE c.op = "write"
  <2>1. T2[i].type # "directory"
    BY <1>1, <1>8 DEF PieceOK
  <2>2. ASSUME NEW j \in Inums, T2[j].type = "directory"
        PROVE  T2[j].size + n <= InodeNum - 1 + e
    <3>1. T2[j] = T[j]
      BY <1>1, <2>1, <2>2
    <3> QED
      BY <1>6, <2>2, <3>1
  <2> QED
    BY <1>3, <1>4, <1>8, <2>2 DEF DirsBounded
<1>9. CASE c.op # "write"
  <2>1. c.pos = T[i].size /\ Len(c.rest) = 1
    BY <1>9 DEF PieceOK
  <2>2. PieceLen(c) = 1
    <3>1. PieceLen(c) \in Nat /\ PieceLen(c) >= 1 /\ PieceLen(c) <= Len(c.rest)
      BY PieceIs
    <3> QED
      BY <2>1, <3>1
  <2>3. T2[i].size = T[i].size + 1
    BY <1>1, <2>1, <2>2
  <2>4. ASSUME NEW j \in Inums, T2[j].type = "directory"
        PROVE  T2[j].size + n <= InodeNum - 1 + (e + 1)
    <3>1. T[j].size \in Nat /\ T[j].type = "directory"
      BY <1>1, <1>2, <1>7, <2>4
    <3>2. T[j].size + n <= InodeNum - 1 + e
      BY <1>6, <3>1
    <3>3. T2[j].size = T[j].size \/ T2[j].size = T[j].size + 1
      BY <1>1, <2>3
    <3> QED
      BY <1>5, <3>1, <3>2, <3>3
  <2> QED
    BY <1>3, <1>4, <1>9, <2>4 DEF DirsBounded
<1> QED
  BY <1>8, <1>9

(* UpdateInode writes the inode that has grown. *)
LEMMA UpdateSizeOK ==
  ASSUME NEW w \in Procs, OneWriter(w), NEW p \in Procs, IInv(w), UpdateSize(p)
  PROVE  IInv(w)'
<1>1. PICK c, i : c = call[p] /\ i = c.ino.inode_index
  OBVIOUS
<1>2. /\ c.pc = "UpdateSize" /\ UNCHANGED <<bmap, data, crashes>> /\ ~Calm(call[p])
      /\ c.pc \in Writes
  BY <1>1 DEF UpdateSize, Calm, Writes
<1>3. /\ p = w /\ TableOK(itab) /\ DOMAIN c = Fields /\ WriterOK(bmap, itab, data, c)
      /\ DiskOK(bmap, itab, data) /\ c = call[w] /\ DirsSmall(itab) /\ crashes \in Nat
      /\ DirsBounded(itab, Pending(c, crashes))
  BY <1>1, <1>2, WriterIs
<1>4. /\ PieceOK(itab, c) /\ TargetOK(bmap, itab, data, c)
      /\ c.ino.size = c.pos + PieceLen(c) /\ itab[i].size < c.ino.size
      /\ c.op # "write" => data[c.blk][c.pos % BlockSize].val \in Inums
  BY <1>1, <1>2, <1>3 DEF WriterOK, WriteOK
<1>5. c.ino \in InodeDef /\ i \in Inums
  BY <1>1, <1>4, PieceIs
<1>6. StoreInode(c, c.ino) /\ Advance(w, c)
  <2>1. StoreInode(call[p], call[p].ino) /\ Advance(p, call[p])
    BY Zenon DEF UpdateSize
  <2>2. StoreInode(c, c.ino)
    BY <1>1, <2>1, Zenon DEF StoreInode
  <2>3. Advance(w, c)
    BY <1>1, <1>3, <2>1, Zenon DEF Advance, WriteReturns, Step, Returned, WrittenInode, PieceLen
  <2> QED
    BY <2>2, <2>3
<1>7. TableSet(itab, itab', i, c.ino)
  <2>1. \A j \in DOMAIN c.inodes : j \in Inums => c.inodes[j] = itab[j]
    BY <1>3 DEF WriterOK
  <2> QED
    BY <1>1, <1>5, <1>6, <2>1, Stored
<1>8. DiskOK(bmap, itab', data)
  BY <1>1, <1>3, <1>4, <1>7, DiskGrow
<1>9. (\A n : CopyOK(itab, n) => CopyOK(itab', n)) /\ InodeGrown(itab, itab', i)
  BY <1>1, <1>3, <1>4, <1>7, CopiesGrow
<1>10. DirsBounded(itab, crashes)
  BY <1>2, <1>3 DEF Pending
<1>11. /\ c.op = "write" => DirsBounded(itab', crashes)
       /\ c.op # "write" => DirsBounded(itab', crashes + 1)
  BY <1>1, <1>3, <1>4, <1>7, <1>9, <1>10, BoundGrow
<1>12. /\ c.ino = itab'[i] /\ crashes' = crashes /\ DiskOK(bmap', itab', data')
  BY <1>2, <1>7, <1>8 DEF TableSet
<1>13. c.pos + PieceLen(c) <= itab'[i].size
  BY <1>4, <1>5, <1>12, InodeFields
<1> QED
  BY <1>1, <1>2, <1>3, <1>6, <1>9, <1>11, <1>12, <1>13, AdvanceOK

\* Places have the block they had, or none.
PlacesLess(T, D, T2, D2) ==
  \A i \in Inums, k \in AllPlaces : At(T2, D2, i, k) \in {0, At(T, D, i, k)}

(* Blocks keep one owner when places are emptied. *)
LEMMA OwnedLess ==
  ASSUME NEW B, NEW T, NEW D, Owned(B, T, D), NEW T2, NEW D2, PlacesLess(T, D, T2, D2)
  PROVE  Owned(B, T2, D2)
BY DEF Owned, PlacesLess

\* An inode without blocks.
NewInode(n, i) ==
  /\ n \in InodeDef /\ n.inode_index = i /\ n.type # "none" /\ n.size = 0
  /\ \A k \in 0..Direct : n.addr[k] = 0

(* The disk stays in order when a free inode is taken. *)
LEMMA DiskNew ==
  ASSUME NEW B, NEW T, NEW D, DiskOK(B, T, D), NEW i \in Inums, T[i].type = "none",
         NEW n, NewInode(n, i), NEW T2, TableSet(T, T2, i, n)
  PROVE  DiskOK(B, T2, D) /\ \A m : CopyOK(T, m) => CopyOK(T2, m)
<1>1. /\ TableOK(T) /\ Owned(B, T, D) /\ Covered(T, D) /\ DirsLead(T, D)
      /\ Direct \in Nat /\ BlockSize \in Nat
  BY SizeAssumption DEF DiskOK
<1>2. T2[i] = n /\ \A j \in Inums : j # i => T2[j] = T[j]
  BY DEF TableSet
<1>3. n \in InodeDef /\ n.inode_index = i /\ n.type # "none" /\ n.size = 0
  BY DEF NewInode
<1>4. TableOK(T2)
  <2>1. T2 = [j \in Inums |-> T2[j]]
    BY DEF TableSet
  <2>2. \A j \in Inums : T2[j] \in InodeDef
    BY <1>1, <1>2, <1>3 DEF TableOK
  <2>3. T2 \in [Inums -> InodeDef]
    BY <2>1, <2>2
  <2>4. Root \in Inums
    BY SizeAssumption DEF Root, Inums
  <2>5. T2[Root].type # "none"
    BY <1>1, <1>2, <1>3, <2>4 DEF TableOK
  <2>6. \A j \in Inums : T2[j].type # "none" => T2[j].inode_index = j
    BY <1>1, <1>2, <1>3 DEF TableOK
  <2> QED
    BY <2>3, <2>5, <2>6 DEF TableOK
<1>5. \A j \in Inums : j # i => \A k : At(T2, D, j, k) = At(T, D, j, k)
  BY <1>2 DEF At
<1>6. \A k \in AllPlaces : At(T2, D, i, k) = 0
  <2>1. T2[i].addr[Direct] = 0
    BY <1>1, <1>2 DEF NewInode
  <2>2. ASSUME NEW k \in AllPlaces PROVE At(T2, D, i, k) = 0
    <3>1. k \in Int /\ (k # -1 /\ k < Direct => k \in 0..Direct)
      BY <1>1 DEF AllPlaces
    <3>2. k # -1 /\ k < Direct => T2[i].addr[k] = 0
      BY <1>2, <3>1 DEF NewInode
    <3> QED
      BY <2>1, <3>2 DEF At
  <2> QED
    BY <2>2
<1>7. Owned(B, T2, D)
  <2>1. PlacesLess(T, D, T2, D)
    BY <1>5, <1>6 DEF PlacesLess
  <2> QED
    BY <1>1, <2>1, OwnedLess
<1>8. Covered(T2, D)
  <2>1. SUFFICES ASSUME NEW j \in Inums, NEW k \in Nat, k * BlockSize < T2[j].size
                 PROVE  k \in AllPlaces /\ At(T2, D, j, k) # 0
    BY DEF Covered
  <2>2. k * BlockSize \in Nat
    BY <1>1
  <2>3. j # i
    BY <1>2, <1>3, <2>1, <2>2
  <2> QED
    BY <1>1, <1>2, <1>5, <2>1, <2>3 DEF Covered
<1>9. DirsLead(T2, D)
  <2>1. SUFFICES ASSUME NEW j \in Inums, T2[j].type = "directory", NEW y \in 0..(T2[j].size - 1)
                 PROVE  D[T2[j].addr[y \div BlockSize]][y % BlockSize].val \in Inums
    BY DEF DirsLead
  <2>2. j # i
    BY <1>2, <1>3, <2>1
  <2> QED
    BY <1>1, <1>2, <2>1, <2>2 DEF DirsLead
<1>10. ASSUME NEW m, CopyOK(T, m) PROVE CopyOK(T2, m)
  <2>1. m.inode_index \in Inums /\ m.inode_index # i
    BY <1>10, InodeFields DEF CopyOK
  <2>2. T2[m.inode_index] = T[m.inode_index]
    BY <1>2, <2>1
  <2> QED
    BY <1>10, <2>2 DEF CopyOK
<1> QED
  BY <1>4, <1>7, <1>8, <1>9, <1>10 DEF DiskOK

(* A free inode fewer pays for the entry. *)
LEMMA BoundNew ==
  ASSUME NEW T, TableOK(T), NEW i \in Inums, T[i].type = "none", NEW n, NewInode(n, i),
         NEW T2, TableSet(T, T2, i, n), NEW e \in Nat, DirsBounded(T, e + 1)
  PROVE  DirsBounded(T2, e)
<1>1. T2[i] = n /\ \A j \in Inums : j # i => T2[j] = T[j]
  BY DEF TableSet
<1>2. n.type # "none" /\ n.size = 0
  BY DEF NewInode
<1>3. FreeInums(T2) = FreeInums(T) \ {i} /\ i \in FreeInums(T)
  BY <1>1, <1>2 DEF FreeInums
<1>4. PICK a, b : a = Cardinality(FreeInums(T)) /\ b = Cardinality(FreeInums(T2))
  OBVIOUS
<1>5. a \in Nat /\ b = a - 1
  <2>1. IsFiniteSet(FreeInums(T)) /\ Cardinality(FreeInums(T)) \in Nat
    BY FreeCount
  <2>2. Cardinality(FreeInums(T) \ {i}) = Cardinality(FreeInums(T)) - 1
    BY <1>3, <2>1, FS_RemoveElement
  <2> QED
    BY <1>3, <1>4, <2>1, <2>2
<1>6. a <= InodeNum
  <2>1. 0 \in Int /\ InodeNum - 1 \in Int /\ ~(0 > InodeNum - 1)
    BY SizeAssumption
  <2>2. IsFiniteSet(0..InodeNum - 1) /\ Cardinality(0..InodeNum - 1) = InodeNum - 1 - 0 + 1
    BY <2>1, FS_Interval
  <2>3. FreeInums(T) \in SUBSET (0..InodeNum - 1)
    BY DEF FreeInums, Inums
  <2>4. a <= Cardinality(0..InodeNum - 1)
    BY <1>4, <2>2, <2>3, FS_Subset
  <2> QED
    BY <2>2, <2>4, SizeAssumption
<1>7. ASSUME NEW j \in Inums, T2[j].type = "directory"
      PROVE  T2[j].size + b <= InodeNum - 1 + e
  <2>1. CASE j = i
    BY <1>1, <1>2, <1>5, <1>6, <2>1, SizeAssumption
  <2>2. CASE j # i
    <3>1. T2[j] = T[j] /\ T[j].size \in Nat
      BY <1>1, <2>2, TableIs, InodeFields
    <3>2. T[j].size + a <= InodeNum - 1 + (e + 1)
      BY <1>4, <1>7, <3>1 DEF DirsBounded
    <3> QED
      BY <1>5, <3>1, <3>2, SizeAssumption
  <2> QED
    BY <2>1, <2>2
<1> QED
  BY <1>4, <1>7 DEF DirsBounded

(* UpdateInode writes the new inode, and Create goes on. *)
LEMMA UpdateNewInodeOK ==
  ASSUME NEW w \in Procs, NEW p \in Procs, IInv(w), UpdateNewInode(p)
  PROVE  IInv(w)'
<1>1. PICK c, d, i, n : /\ c = call[p] /\ d = [c EXCEPT !.inodes = <<>>] /\ i = c.new
                        /\ n = TargetInode(c)
  OBVIOUS
<1>2. /\ c.pc = "UpdateNew" /\ UNCHANGED <<bmap, data, crashes>> /\ ~Calm(call[p])
  BY <1>1 DEF UpdateNewInode, Calm
<1>3. /\ p = w /\ TableOK(itab) /\ DOMAIN c = Fields /\ WriterOK(bmap, itab, data, c)
      /\ DiskOK(bmap, itab, data) /\ c = call[w] /\ crashes \in Nat /\ FdsAgree(fds, itab)
      /\ FdWriter(fds[w], itab, c) /\ DirsBounded(itab, Pending(c, crashes))
  BY <1>1, <1>2, WriterIs
<1>4. CreateOK(itab, c) /\ i \in Inums /\ itab[i].type = "none" /\ c.op # "write"
      /\ c.type \in FileType \ {"none"}
  BY <1>1, <1>2, <1>3 DEF WriterOK, CreateOK
<1>5. NewInode(n, i) /\ (LastLevel(c) => n.type = c.type)
  <2>1. PICK t : t = IF LastLevel(c) THEN c.type ELSE "directory"
    OBVIOUS
  <2>2. t \in FileType /\ t # "none" /\ (LastLevel(c) => t = c.type)
    BY <1>4, <2>1 DEF FileType
  <2>3. n = [inode_index |-> i, type |-> t, size |-> 0, addr |-> [k \in 0..Direct |-> 0]]
    BY <1>1, <2>1 DEF TargetInode, EmptyInode
  <2>4. 0 \in 0..MaxSupportFileSize /\ [k \in 0..Direct |-> 0] \in [0..Direct -> 0..BlockNum]
    <3>1. BlockSize \in Nat /\ Direct \in Nat /\ BlockNum \in Nat
      BY SizeAssumption
    <3>2. MaxSupportFileSize \in Nat
      BY <3>1 DEF MaxSupportFileSize
    <3> QED
      BY <3>1, <3>2
  <2>5. n \in InodeDef
    BY <1>4, <2>2, <2>3, <2>4 DEF InodeDef
  <2> QED
    BY <2>2, <2>3, <2>5 DEF NewInode
<1>6. StoreInode(c, n) /\ Created(w, d)
  <2>1. /\ StoreInode(call[p], TargetInode(call[p]))
        /\ Created(p, [call[p] EXCEPT !.inodes = <<>>])
    BY Zenon DEF UpdateNewInode
  <2>2. StoreInode(c, n)
    BY <1>1, <2>1, Zenon DEF StoreInode
  <2> DEFINE e == [call[p] EXCEPT !.inodes = <<>>]
  <2>3. d = e /\ p = w /\ Created(p, e)
    BY <1>1, <1>3, <2>1
  <2> HIDE DEF e
  <2>4. Created(w, d)
    BY <2>3, Zenon DEF Created, Step, NextLevel, Returned, InstallFd, LastLevel, TargetInode
  <2> QED
    BY <2>2, <2>4
<1>7. TableSet(itab, itab', i, n)
  <2>1. \A j \in DOMAIN c.inodes : j \in Inums => c.inodes[j] = itab[j]
    BY <1>3 DEF WriterOK
  <2>2. n.inode_index = i
    BY <1>5 DEF NewInode
  <2> QED
    BY <1>4, <1>6, <2>1, <2>2, Stored
<1>8. DiskOK(bmap, itab', data) /\ \A m : CopyOK(itab, m) => CopyOK(itab', m)
  BY <1>3, <1>4, <1>5, <1>7, DiskNew
<1>9. DiskOK(bmap', itab', data') /\ crashes' = crashes /\ TableOK(itab')
  BY <1>2, <1>8 DEF DiskOK
<1>10. DirsBounded(itab', crashes)
  <2>1. DirsBounded(itab, crashes + 1)
    BY <1>2, <1>3 DEF Pending
  <2> QED
    BY <1>3, <1>4, <1>5, <1>7, <2>1, BoundNew
<1>11. FdsAgree(fds, itab')
  BY <1>3, <1>8, FdsStay
<1>12. ASSUME NEW s \in FdSlots, fds[w][s].file_type = "regular_file"
       PROVE  fds[w][s].inode = itab'[fds[w][s].inode.inode_index]
  <2>1. ~Writing(c)
    BY <1>4 DEF Writing
  <2>2. fds[w][s].inode = itab[fds[w][s].inode.inode_index]
    BY <1>3, <1>12, <2>1 DEF FdWriter
  <2>3. fds[w][s].inode.type = "regular_file" /\ CopyOK(itab, fds[w][s].inode)
    BY <1>3, <1>12 DEF FdsAgree
  <2>4. fds[w][s].inode.inode_index \in Inums
    BY <2>3, InodeFields DEF CopyOK
  <2>5. fds[w][s].inode.inode_index # i
    BY <1>4, <2>2, <2>3
  <2> QED
    BY <1>7, <2>2, <2>4, <2>5 DEF TableSet
<1>13. ASSUME NEW f, Step(w, f), FrameOK(itab', f), Calm(f), f.inodes = <<>>,
              FdsAgree(fds', itab'),
              \A s \in FdSlots : fds'[w][s].file_type = "regular_file" =>
                fds'[w][s].inode = itab'[fds'[w][s].inode.inode_index]
       PROVE  IInv(w)'
  <2>1. \A j \in DOMAIN f.inodes : j \in Inums => f.inodes[j] = itab'[j]
    BY <1>13
  <2>2. WriterOK(bmap', itab', data', f) /\ ~Writing(f) /\ Pending(f, crashes) = crashes
    BY <1>3, <1>13, <2>1, CalmWriter
  <2>3. FdWriter(fds'[w], itab', f)
    BY <1>13, <2>2 DEF FdWriter
  <2>4. WriterIn(w, bmap', itab', data', f, fds'[w], crashes)
    BY <1>10, <1>13, <2>2, <2>3 DEF WriterIn
  <2> QED
    BY <1>8, <1>9, <1>13, <2>4, WriterStep
<1>14. /\ DOMAIN d = Fields /\ d.op = c.op /\ d.level = c.level /\ d.type = c.type
       /\ d.path = c.path /\ d.new = i /\ d.inodes = <<>>
  BY <1>1, <1>3 DEF Fields
<1>15. (LastLevel(d) <=> LastLevel(c)) /\ TargetInode(d) = n
  <2>1. LastLevel(d) <=> LastLevel(c)
    BY <1>14 DEF LastLevel
  <2> QED
    BY <1>1, <1>14, <2>1 DEF TargetInode
<1>16. CASE Step(w, [NextLevel(d) EXCEPT !.cur = d.new]) /\ UNCHANGED fds
  <2>1. PICK f : f = [NextLevel(d) EXCEPT !.cur = d.new]
    OBVIOUS
  <2>2. /\ DOMAIN f = Fields /\ f.pc = "GetInode" /\ f.cur = i /\ f.op = c.op
        /\ f.type = c.type /\ f.inodes = <<>>
    BY <1>14, <2>1 DEF NextLevel, Fields
  <2>3. FrameOK(itab', f) /\ Calm(f)
    BY <1>4, <2>2 DEF FrameOK, WalkOK, Calm
  <2>4. Step(w, f) /\ fds' = fds
    BY <1>16, <2>1
  <2> QED
    BY <1>11, <1>12, <1>13, <2>2, <2>3, <2>4
<1>17. ASSUME NEW r, Step(w, Returned(d, r)), FdsAgree(fds', itab'),
              \A s \in FdSlots : fds'[w][s].file_type = "regular_file" =>
                fds'[w][s].inode = itab'[fds'[w][s].inode.inode_index]
       PROVE  IInv(w)'
  <2>1. PICK f : f = Returned(d, r)
    OBVIOUS
  <2>2. DOMAIN f = Fields /\ f.pc = "ret" /\ f.inodes = <<>>
    BY <2>1, ReturnedIs
  <2>3. FrameOK(itab', f) /\ Calm(f) /\ Step(w, f)
    BY <1>17, <2>1, <2>2 DEF FrameOK, Calm
  <2> QED
    BY <1>13, <1>17, <2>2, <2>3
<1>18. CASE Step(w, Returned(d, 0)) /\ UNCHANGED fds
  BY <1>11, <1>12, <1>17, <1>18
<1>19. CASE LastLevel(d) /\ InstallFd(w, d, d.type, TargetInode(d))
  <2>1. n \in InodeDef /\ n.inode_index = i /\ n.type = d.type
    BY <1>5, <1>14, <1>15, <1>19 DEF NewInode
  <2>2. itab'[i] = n
    BY <1>7 DEF TableSet
  <2>3. n.type # "none" => CopyOK(itab', n)
    BY <1>4, <1>9, <2>2, TableIs
  <2>4. InstallFd(w, d, n.type, n)
    BY <1>15, <1>19, <2>1 DEF InstallFd
  <2>5. /\ FdsAgree(fds', itab') /\ \E r : Step(w, Returned(d, r))
        /\ \A s \in FdSlots : \/ fds'[w][s] = fds[w][s]
                              \/ fds'[w][s].inode = n
    <3>1. PICK T : T = itab'
      OBVIOUS
    <3>2. FdsAgree(fds, T) /\ n \in InodeDef /\ (n.type # "none" => CopyOK(T, n))
      BY <1>11, <2>1, <2>3, <3>1
    <3>3. /\ FdsAgree(fds', T) /\ \E r : Step(w, Returned(d, r))
          /\ \A s \in FdSlots : \/ fds'[w][s] = fds[w][s]
                                \/ fds'[w][s].inode = n
      <4>1. CopyOK(T, n)
        BY <1>5, <3>2 DEF NewInode
      <4>2. FdsAgree(fds', T)
        BY <2>4, <3>2, <4>1, Installed
      <4>3. \E r : Step(w, Returned(d, r))
        BY <2>4, <3>2, <4>1, Installed, Zenon
      <4>4. \A s \in FdSlots : fds'[w][s] = fds[w][s] \/ fds'[w][s].inode = n
        <5>1. SlotsBut(fds[w], fds'[w], n)
          BY <2>4, <3>2, <4>1, Installed
        <5> QED
          BY <5>1 DEF SlotsBut
      <4> QED
        BY <4>2, <4>3, <4>4
    <3> QED
      BY <3>1, <3>3
  <2>6. PICK r : Step(w, Returned(d, r))
    BY <2>5
  <2>7. ASSUME NEW s \in FdSlots, fds'[w][s].file_type = "regular_file"
        PROVE  fds'[w][s].inode = itab'[fds'[w][s].inode.inode_index]
    BY <1>12, <2>1, <2>2, <2>5, <2>7
  <2> QED
    BY <1>17, <2>5, <2>6, <2>7
<1> QED
  BY <1>6, <1>16, <1>18, <1>19 DEF Created

-----------------------------------------------------------------------------
(* Crashes, and every step *)

(* Descriptors that are free agree with any table. *)
LEMMA EmptyFds ==
  ASSUME NEW T, NEW F, F = [p \in Procs |-> [s \in FdSlots |-> EmptyFd]]
  PROVE  /\ FdsAgree(F, T)
         /\ \A p \in Procs, s \in FdSlots : F[p][s].file_type = "none"
<1>1. BlockSize \in Nat \ {0} /\ Direct \in Nat /\ BlockNum \in Nat /\ InodeNum \in Nat \ {0}
  BY SizeAssumption
<1>2. MaxSupportFileSize \in Nat
  BY <1>1 DEF MaxSupportFileSize
<1>3. EmptyInode \in InodeDef
  <2>1. 0 \in Inums /\ 0 \in 0..MaxSupportFileSize /\ "none" \in FileType
    BY <1>1, <1>2 DEF Inums, FileType
  <2>2. [k \in 0..Direct |-> 0] \in [0..Direct -> 0..BlockNum]
    BY <1>1
  <2> QED
    BY <2>1, <2>2 DEF EmptyInode, InodeDef
<1>4. EmptyFd \in FdType /\ EmptyFd.file_type = "none"
  BY <1>3 DEF EmptyFd, FdType, FileType
<1> QED
  BY <1>4 DEF FdsAgree

(* Only the disk is left of a crash, and the disk is in order. *)
LEMMA CrashOK ==
  ASSUME NEW w \in Procs, IInv(w), Crash
  PROVE  IInv(w)'
<1>1. /\ DiskOK(bmap, itab, data) /\ crashes \in Nat
      /\ DirsBounded(itab, Pending(call[w], crashes))
  BY DEF IInv, Good, WriterIn
<1>2. /\ crashes < MaxCrashes /\ crashes' = crashes + 1
      /\ fds' = [p \in Procs |-> [s \in FdSlots |-> EmptyFd]]
      /\ call' = [p \in Procs |-> Idle] /\ UNCHANGED disk
  BY DEF Crash
<1>3. DiskOK(bmap', itab', data') /\ itab' = itab
  BY <1>1, <1>2 DEF disk
<1>4. /\ FdsAgree(fds', itab')
      /\ \A p \in Procs, s \in FdSlots : fds'[p][s].file_type = "none"
  BY <1>2, EmptyFds
<1>5. /\ FrameOK(itab', Idle) /\ OnlyReads(Idle) /\ Calm(Idle)
  BY IdleIs DEF FrameOK, OnlyReads, Calm
<1>6. crashes' \in Nat /\ crashes' <= MaxCrashes
  BY <1>1, <1>2, SizeAssumption
<1>7. /\ WriterOK(bmap', itab', data', Idle) /\ ~Writing(Idle)
      /\ Pending(Idle, crashes') = crashes'
  <2>1. \A j \in DOMAIN Idle.inodes : j \in Inums => Idle.inodes[j] = itab'[j]
    BY IdleIs
  <2> QED
    BY <1>5, <1>6, <2>1, CalmWriter
<1>8. FdWriter(fds'[w], itab', Idle)
  BY <1>4, <1>7 DEF FdWriter
<1>9. DirsBounded(itab', crashes')
  <2>1. TableOK(itab)
    BY <1>1 DEF DiskOK
  <2>2. Pending(call[w], crashes) = crashes \/ Pending(call[w], crashes) = crashes + 1
    BY <1>1 DEF Pending
  <2>3. DirsBounded(itab, crashes + 1)
    BY <1>1, <2>1, <2>2, DirsMore
  <2> QED
    BY <1>2, <1>3, <2>3
<1>10. WriterIn(w, bmap', itab', data', call'[w], fds'[w], crashes')
  BY <1>2, <1>5, <1>7, <1>8, <1>9 DEF WriterIn
<1>11. OthersOK(w, itab', call')
  BY <1>2, <1>5 DEF OthersOK
<1> QED
  BY <1>3, <1>4, <1>6, <1>10, <1>11 DEF IInv, Good

(* Every step keeps the invariant. *)
LEMMA NextOK ==
  ASSUME NEW w \in Procs, OneWriter(w), IInv(w), [CarefulNext]_vars
  PROVE  IInv(w)'
<1>1. CASE UNCHANGED vars
  BY <1>1 DEF vars, IInv
<1>2. CASE Crash
  BY <1>2, CrashOK
<1>3. ASSUME NEW p \in Procs, Calls(p)
      PROVE  IInv(w)'
  <2>1. CASE \E op \in {"open", "chdir"} : CallOpen(p, op)
    BY <2>1, CallOpenOK
  <2>2. CASE SysMkdir(p)
    BY <2>2, CallCreateOK DEF FileType, SysMkdir
  <2>3. CASE SysMknod(p)
    BY <2>3, CallCreateOK DEF FileType, SysMknod
  <2>4. CASE CallClose(p)
    BY <2>4, CallCloseOK
  <2>5. CASE CallRead(p)
    BY <2>5, CallReadOK
  <2> QED
    BY <1>3, <2>1, <2>2, <2>3, <2>4, <2>5 DEF Calls
<1>4. ASSUME NEW p \in Procs, Runs(p)
      PROVE  IInv(w)'
  <2>1. CASE GetInode(p) \/ IteratorDir(p)
    BY <2>1, GetInodeOK, IteratorDirOK
  <2>2. CASE CreateImpl(p) \/ AllocInode(p)
    BY <2>2, CreateImplOK, AllocInodeOK
  <2>3. CASE UpdateInodeRead(p) \/ UpdateNewInode(p)
    BY <2>3, UpdateInodeReadOK, UpdateNewInodeOK
  <2>4. CASE WriteImpl(p) \/ AllocDataBlockRead(p) \/ AllocDataBlockWrite(p)
    BY <2>4, WriteImplOK, AllocReadOK, AllocWriteOK
  <2>5. CASE WriteIndirect(p) \/ ReadForWrite(p)
    BY <2>5, WriteIndirectOK, ReadForWriteOK
  <2>6. CASE WriteData(p) \/ UpdateSize(p)
    BY <2>6, WriteDataOK, UpdateSizeOK
  <2>7. CASE Read(p)
    BY <2>7, ReadStepOK
  <2> QED
    BY <1>4, <2>1, <2>2, <2>3, <2>4, <2>5, <2>6, <2>7 DEF Runs
<1>5. ASSUME NEW p \in Procs, CreateCarefully(p)
      PROVE  IInv(w)'
  <2>1. PICK t \in {"regular_file", "directory"} : CallCreate(p, "create", t)
    BY <1>5 DEF CreateCarefully, SysCreate
  <2> QED
    BY <1>5, <2>1, CallCreateOK DEF FileType, CreateCarefully
<1>6. ASSUME NEW p \in Procs, WriteCarefully(p)
      PROVE  IInv(w)'
  BY <1>6, CallWriteOK
<1> QED
  BY <1>1, <1>2, <1>3, <1>4, <1>5, <1>6 DEF CarefulNext

(* A file of the disk in order uses only blocks of its own. *)
LEMMA DiskOwned ==
  ASSUME NEW w \in Procs, IInv(w)
  PROVE  BlocksOwned
<1>1. DiskOK(bmap, itab, data)
  BY DEF IInv, Good
<1>2. TableOK(itab) /\ Owned(bmap, itab, data) /\ Covered(itab, data) /\ Direct \in Nat
  BY <1>1, SizeAssumption DEF DiskOK
<1>3. ASSUME NEW u \in Uses
      PROVE  /\ u = <<u[1], u[2]>> /\ u[1] \in Inums /\ u[2] \in AllPlaces
             /\ UsedBlock(u) = At(itab, data, u[1], u[2]) /\ UsedBlock(u) # 0
  <2>1. CASE u \in UNION {{<<i, k>> : k \in Places(itab[i])} : i \in Inums}
    <3>1. PICK i \in Inums : u \in {<<i, k>> : k \in Places(itab[i])}
      BY <2>1
    <3>2. PICK k \in Places(itab[i]) : u = <<i, k>>
      BY <3>1
    <3>3. itab[i].size \in Nat
      BY <1>2, TableIs, InodeFields
    <3>4. k \in Nat /\ k * BlockSize < itab[i].size
      BY <3>2, <3>3, InPlaces
    <3>5. k \in AllPlaces /\ At(itab, data, i, k) # 0
      BY <1>2, <3>4 DEF Covered
    <3>6. k # -1 /\ u[1] = i /\ u[2] = k
      BY <3>2, <3>4
    <3>7. UsedBlock(u) = At(itab, data, i, k)
      BY <3>5, <3>6 DEF UsedBlock, BlockAt, At
    <3> QED
      BY <3>2, <3>5, <3>6, <3>7
  <2>2. CASE u \in {<<i, -1>> : i \in {j \in Inums : itab[j].addr[Direct] # 0}}
    <3>1. PICK i \in {j \in Inums : itab[j].addr[Direct] # 0} : u = <<i, -1>>
      BY <2>2
    <3>2. i \in Inums /\ itab[i].addr[Direct] # 0 /\ u[1] = i /\ u[2] = -1
      BY <3>1
    <3>3. -1 \in AllPlaces
      BY <1>2, SizeAssumption DEF AllPlaces
    <3>4. UsedBlock(u) = At(itab, data, i, -1) /\ At(itab, data, i, -1) = itab[i].addr[Direct]
      BY <3>2 DEF UsedBlock, At
    <3> QED
      BY <3>1, <3>2, <3>3, <3>4
  <2>3. \/ u \in UNION {{<<i, k>> : k \in Places(itab[i])} : i \in Inums}
        \/ u \in {<<i, -1>> : i \in {j \in Inums : itab[j].addr[Direct] # 0}}
    BY Zenon DEF Uses
  <2> QED
    BY <2>1, <2>2, <2>3
<1>4. \A u \in Uses : UsedBlock(u) \in bmap
  BY <1>2, <1>3 DEF Owned
<1>5. ASSUME NEW u \in Uses, NEW v \in Uses, UsedBlock(u) = UsedBlock(v)
      PROVE  u = v
  <2>1. u[1] = v[1] /\ u[2] = v[2]
    BY <1>2, <1>3, <1>5 DEF Owned
  <2> QED
    BY <1>3, <2>1
<1> QED
  BY <1>4, <1>5 DEF BlocksOwned

(* The descriptors agree with the disk. *)
LEMMA CopiesDo ==
  ASSUME NEW w \in Procs, OneWriter(w), IInv(w)
  PROVE  CopiesAgree
<1>1. /\ DiskOK(bmap, itab, data) /\ FdsAgree(fds, itab) /\ OthersOK(w, itab, call)
      /\ WriterIn(w, bmap, itab, data, call[w], fds[w], crashes)
  BY DEF IInv, Good
<1>2. TableOK(itab)
  BY <1>1 DEF DiskOK
<1>3. \A p \in Procs : call[p].pc # "panic"
  BY <1>1 DEF OthersOK, WriterIn, FrameOK
<1>4. ASSUME NEW n, CopyOK(itab, n)
      PROVE  Agrees(n)
  <2>1. /\ n \in InodeDef /\ itab[n.inode_index].type = n.type
        /\ n.size <= itab[n.inode_index].size
        /\ \A k \in 0..Direct : k * BlockSize < n.size => n.addr[k] = itab[n.inode_index].addr[k]
    BY <1>4 DEF CopyOK
  <2>2. n.size \in Nat /\ Direct \in Nat /\ BlockSize \in Nat
    BY <2>1, InodeFields, SizeAssumption
  <2>3. ASSUME NEW k \in Places(n)
        PROVE  n.addr[Min({k, Direct})] = itab[n.inode_index].addr[Min({k, Direct})]
    <3>1. k \in Nat /\ k * BlockSize < n.size
      BY <2>2, InPlaces
    <3>2. PICK a : a = Min({k, Direct})
      OBVIOUS
    <3>3. a \in Nat /\ a <= k /\ a <= Direct
      BY <2>2, <3>1, <3>2, MinTwo
    <3>4. a * BlockSize < n.size
      <4>1. a < k => a * BlockSize + BlockSize <= k * BlockSize
        BY <3>1, <3>3, Steps
      <4>2. a * BlockSize \in Int /\ k * BlockSize \in Int
        BY <2>2, <3>1, <3>3
      <4> QED
        BY <2>2, <3>1, <3>3, <4>1, <4>2
    <3> QED
      BY <2>1, <2>2, <3>2, <3>3, <3>4
  <2> QED
    BY <2>1, <2>3 DEF Agrees
<1>5. ASSUME NEW p \in Procs, NEW s \in FdSlots, fds[p][s].file_type # "none"
      PROVE  Agrees(fds[p][s].inode)
  BY <1>1, <1>4, <1>5 DEF FdsAgree
<1>6. ASSUME NEW p \in Writers, NEW s \in FdSlots, call[p].pc \in {"user", "ret"},
             fds[p][s].file_type = "regular_file"
      PROVE  fds[p][s].inode = itab[fds[p][s].inode.inode_index]
  <2>1. p = w
    BY <1>6 DEF Writers, OneWriter, FileType
  <2>2. ~Writing(call[w])
    BY <1>6, <2>1 DEF Writing, Writes
  <2> QED
    BY <1>1, <1>6, <2>1, <2>2 DEF WriterIn, FdWriter
<1> QED
  BY <1>3, <1>5, <1>6 DEF CopiesAgree

-----------------------------------------------------------------------------
(* The image of mkfs *)

\* The positions of mkfs in the image, up to file n.
Cursor(n, g) ==
  g = [i \in 0..n |-> IF i = 0 THEN 1
                      ELSE g[i - 1] + OpensRootBlock(i) + BlocksFor(Len(MkfsFiles[i].body))]

(* They exist. *)
LEMMA CursorExists == \A n \in 0..Len(MkfsFiles) : \E g : Cursor(n, g)
<1>0. Len(MkfsFiles) \in Nat
  BY MkfsAssumption
<1>1. PICK Bad : Bad = {n \in 0..Len(MkfsFiles) : ~ \E g : Cursor(n, g)}
  OBVIOUS
<1>2. SUFFICES ASSUME Bad # {} PROVE FALSE
  BY <1>1
<1>3. PICK n \in Bad : \A m \in Bad : n <= m
  <2>1. Bad \in SUBSET Nat
    BY <1>0, <1>1
  <2> QED
    BY <1>2, <2>1, Least
<1>4. n \in 0..Len(MkfsFiles) /\ ~ \E g : Cursor(n, g)
  BY <1>1, <1>3
<1>5. CASE n = 0
  <2>1. Cursor(0, [i \in 0..0 |-> 1])
    BY DEF Cursor
  <2> QED
    BY <1>4, <1>5, <2>1
<1>6. CASE n # 0
  <2>1. PICK m : m = n - 1
    OBVIOUS
  <2>2. m \in 0..Len(MkfsFiles) /\ m \notin Bad /\ m \in Nat
    BY <1>0, <1>3, <1>4, <1>6, <2>1
  <2>3. PICK g : Cursor(m, g)
    BY <1>1, <2>2
  <2>4. PICK v : v = g[m] + OpensRootBlock(n) + BlocksFor(Len(MkfsFiles[n].body))
    OBVIOUS
  <2>5. PICK h : h = [i \in 0..n |-> IF i <= m THEN g[i] ELSE v]
    OBVIOUS
  <2>6. ASSUME NEW i \in 0..n
        PROVE  h[i] = IF i = 0 THEN 1
                      ELSE h[i - 1] + OpensRootBlock(i) + BlocksFor(Len(MkfsFiles[i].body))
    <3>1. CASE i = n
      <4>1. h[i] = v /\ h[i - 1] = g[m]
        <5>1. i - 1 = m /\ m \in 0..n /\ n \in 0..n /\ ~(n <= m) /\ m <= m
          BY <1>0, <1>4, <2>1, <2>2, <3>1
        <5> QED
          BY <2>5, <3>1, <5>1
      <4> QED
        BY <1>6, <2>4, <3>1, <4>1
    <3>2. CASE i # n
      <4>1. i \in 0..m /\ h[i] = g[i]
        BY <1>0, <1>4, <2>1, <2>2, <2>5, <2>6, <3>2
      <4>2. g[i] = IF i = 0 THEN 1
                   ELSE g[i - 1] + OpensRootBlock(i) + BlocksFor(Len(MkfsFiles[i].body))
        BY <2>3, <4>1 DEF Cursor
      <4>3. i # 0 => h[i - 1] = g[i - 1]
        <5>1. i # 0 => i - 1 \in 0..n /\ i - 1 <= m
          BY <1>0, <1>4, <2>1, <2>2, <4>1
        <5> QED
          BY <2>5, <5>1
      <4> QED
        BY <4>1, <4>2, <4>3
    <3> QED
      BY <3>1, <3>2
  <2>7. h = [i \in 0..n |-> IF i = 0 THEN 1
                            ELSE h[i - 1] + OpensRootBlock(i) + BlocksFor(Len(MkfsFiles[i].body))]
    <3>1. h = [i \in 0..n |-> h[i]]
      BY <2>5
    <3> QED
      BY <2>6, <3>1
  <2>8. Cursor(n, h)
    BY <2>7 DEF Cursor
  <2> QED
    BY <1>4, <2>8
<1> QED
  BY <1>5, <1>6

(* A file begins where the one before it ends. *)
LEMMA CursorIs ==
  /\ DataCursor[0] = 1
  /\ \A i \in 1..Len(MkfsFiles) :
       DataCursor[i] = DataCursor[i - 1] + OpensRootBlock(i) + BlocksFor(MkfsLen(i))
<1>0. Len(MkfsFiles) \in Nat
  BY MkfsAssumption
<1>1. PICK g : g = CHOOSE f : Cursor(Len(MkfsFiles), f)
  OBVIOUS
<1>2. Cursor(Len(MkfsFiles), g)
  <2>1. Len(MkfsFiles) \in 0..Len(MkfsFiles)
    BY <1>0
  <2>2. \E f : Cursor(Len(MkfsFiles), f)
    BY <2>1, CursorExists
  <2> QED
    BY <1>1, <2>2, Zenon
<1>3. DataCursor = g
  BY <1>1, Zenon DEF DataCursor, Cursor
<1>4. ASSUME NEW i \in 0..Len(MkfsFiles)
      PROVE  g[i] = IF i = 0 THEN 1
                    ELSE g[i - 1] + OpensRootBlock(i) + BlocksFor(Len(MkfsFiles[i].body))
  BY <1>2 DEF Cursor
<1> QED
  BY <1>0, <1>3, <1>4 DEF MkfsLen

(* The numbers of blocks of a file. *)
LEMMA MkfsIs ==
  ASSUME NEW i \in 1..Len(MkfsFiles)
  PROVE  /\ MkfsLen(i) \in Nat /\ MkfsLen(i) <= MaxSupportFileSize
         /\ MkfsBlocks(i) \in Nat /\ OpensRootBlock(i) \in 0..1
         /\ BlocksFor(MkfsLen(i)) = MkfsBlocks(i) + (IF MkfsBlocks(i) > Direct THEN 1 ELSE 0)
         /\ \A k \in Nat : k < MkfsBlocks(i) <=> k * BlockSize < MkfsLen(i)
<1>0. BlockSize \in Nat \ {0}
  BY SizeAssumption
<1>1. MkfsLen(i) \in Nat /\ MkfsLen(i) <= MaxSupportFileSize
  <2>0. PICK S : S = [name : Names, body : Seq(Cell)]
    OBVIOUS
  <2>1. MkfsFiles[i] \in S
    <3>1. MkfsFiles \in Seq(S)
      BY <2>0, MkfsAssumption
    <3> QED
      BY <3>1
  <2>2. MkfsFiles[i].body \in Seq(Cell)
    BY <2>0, <2>1
  <2> QED
    BY <2>2, MkfsAssumption DEF MkfsLen
<1>2. PICK n : n = [size |-> MkfsLen(i)]
  OBVIOUS
<1>3. n.size = MkfsLen(i) /\ Places(n) = 0..(MkfsBlocks(i) - 1)
  BY <1>2 DEF Places, MkfsBlocks
<1>4. MkfsBlocks(i) \in Nat
  <2>1. MkfsLen(i) + BlockSize - 1 \in Nat
    BY <1>0, <1>1
  <2> QED
    BY <2>1, DivIs DEF MkfsBlocks
<1>5. ASSUME NEW k \in Nat PROVE k < MkfsBlocks(i) <=> k * BlockSize < MkfsLen(i)
  <2>1. k \in Places(n) <=> k \in Nat /\ k * BlockSize < n.size
    BY <1>1, <1>3, InPlaces
  <2> QED
    BY <1>3, <1>4, <2>1
<1>6. BlocksFor(MkfsLen(i)) = MkfsBlocks(i) + (IF MkfsBlocks(i) > Direct THEN 1 ELSE 0)
  BY DEF BlocksFor, MkfsBlocks
<1>7. OpensRootBlock(i) \in 0..1
  BY DEF OpensRootBlock
<1> QED
  BY <1>1, <1>4, <1>5, <1>6, <1>7

(* The positions are blocks. *)
LEMMA CursorNat == \A i \in 0..Len(MkfsFiles) : DataCursor[i] \in Nat \ {0}
<1>0. Len(MkfsFiles) \in Nat /\ Direct \in Nat
  BY MkfsAssumption, SizeAssumption
<1>1. PICK Bad : Bad = {i \in 0..Len(MkfsFiles) : DataCursor[i] \notin Nat \ {0}}
  OBVIOUS
<1>2. SUFFICES ASSUME Bad # {} PROVE FALSE
  BY <1>1
<1>3. PICK n \in Bad : \A m \in Bad : n <= m
  <2>1. Bad \in SUBSET Nat
    BY <1>0, <1>1
  <2> QED
    BY <1>2, <2>1, Least
<1>4. n \in 0..Len(MkfsFiles) /\ DataCursor[n] \notin Nat \ {0}
  BY <1>1, <1>3
<1>5. n # 0
  BY <1>4, CursorIs
<1>6. PICK m : m = n - 1
  OBVIOUS
<1>7. n \in 1..Len(MkfsFiles) /\ m \in 0..Len(MkfsFiles) /\ m \notin Bad
  BY <1>0, <1>3, <1>4, <1>5, <1>6
<1>8. DataCursor[m] \in Nat \ {0}
  BY <1>1, <1>7
<1>9. DataCursor[n] = DataCursor[m] + OpensRootBlock(n) + BlocksFor(MkfsLen(n))
  BY <1>6, <1>7, CursorIs
<1>10. OpensRootBlock(n) \in 0..1 /\ BlocksFor(MkfsLen(n)) \in Nat
  BY <1>0, <1>7, MkfsIs
<1> QED
  BY <1>4, <1>8, <1>9, <1>10

(* They grow. *)
LEMMA CursorGrows ==
  ASSUME NEW i \in 0..Len(MkfsFiles), NEW j \in 0..Len(MkfsFiles), i <= j
  PROVE  DataCursor[i] <= DataCursor[j]
<1>0. Len(MkfsFiles) \in Nat /\ Direct \in Nat
  BY MkfsAssumption, SizeAssumption
<1>1. PICK Bad : Bad = {n \in 0..Len(MkfsFiles) : i <= n /\ ~(DataCursor[i] <= DataCursor[n])}
  OBVIOUS
<1>2. SUFFICES ASSUME Bad # {} PROVE FALSE
  BY <1>1
<1>3. PICK n \in Bad : \A m \in Bad : n <= m
  <2>1. Bad \in SUBSET Nat
    BY <1>0, <1>1
  <2> QED
    BY <1>2, <2>1, Least
<1>4. n \in 0..Len(MkfsFiles) /\ i <= n /\ ~(DataCursor[i] <= DataCursor[n])
  BY <1>1, <1>3
<1>5. DataCursor[i] \in Nat /\ DataCursor[n] \in Nat
  BY <1>4, CursorNat
<1>6. n # i
  BY <1>4, <1>5
<1>7. PICK m : m = n - 1
  OBVIOUS
<1>8. n \in 1..Len(MkfsFiles) /\ m \in 0..Len(MkfsFiles) /\ i <= m /\ m \notin Bad
  BY <1>0, <1>3, <1>4, <1>6, <1>7
<1>9. DataCursor[i] <= DataCursor[m] /\ DataCursor[m] \in Nat
  BY <1>1, <1>8, CursorNat
<1>10. DataCursor[n] = DataCursor[m] + OpensRootBlock(n) + BlocksFor(MkfsLen(n))
  BY <1>7, <1>8, CursorIs
<1>11. OpensRootBlock(n) \in 0..1 /\ BlocksFor(MkfsLen(n)) \in Nat
  BY <1>0, <1>8, MkfsIs
<1> QED
  BY <1>4, <1>5, <1>9, <1>10, <1>11

\* The blocks mkfs takes while it writes file i: from the one it may open for
\* the root directory on, and the file's own.
TakenFor(i) == DataCursor[i - 1]..(DataCursor[i] - 1)
OwnBlocks(i) == FirstBlock(i)..(DataCursor[i] - 1)

(* They are blocks of the image. *)
LEMMA TakenIs ==
  ASSUME NEW i \in 1..Len(MkfsFiles)
  PROVE  /\ FirstBlock(i) \in Nat /\ DataCursor[i - 1] \in Nat /\ DataCursor[i] \in Nat
         /\ FirstBlock(i) = DataCursor[i - 1] + OpensRootBlock(i)
         /\ DataCursor[i] = FirstBlock(i) + BlocksFor(MkfsLen(i))
         /\ OwnBlocks(i) \subseteq TakenFor(i)
         /\ \A b \in TakenFor(i) : ByMkfs(b) /\ b \in Blocks /\ b # 0
<1>0. Len(MkfsFiles) \in Nat /\ BlockNum \in Nat
  BY MkfsAssumption, SizeAssumption
<1>1. /\ i - 1 \in 0..Len(MkfsFiles) /\ i \in 0..Len(MkfsFiles)
      /\ Len(MkfsFiles) \in 0..Len(MkfsFiles) /\ i <= Len(MkfsFiles)
  BY <1>0
<1>2. PICK x, y, z : x = DataCursor[i - 1] /\ y = DataCursor[i] /\ z = DataCursor[Len(MkfsFiles)]
  OBVIOUS
<1>3. x \in Nat \ {0} /\ y \in Nat \ {0} /\ z \in Nat \ {0}
  BY <1>1, <1>2, CursorNat
<1>4. y <= z
  BY <1>1, <1>2, CursorGrows
<1>5. z <= BlockNum + 1
  BY <1>2, MkfsAssumption
<1>6. OpensRootBlock(i) \in 0..1
  BY MkfsIs
<1>7. FirstBlock(i) = x + OpensRootBlock(i)
  BY <1>2 DEF FirstBlock
<1>8. y = x + OpensRootBlock(i) + BlocksFor(MkfsLen(i))
  BY <1>2, CursorIs
<1>9. \A b \in x..(y - 1) : b \in 1..(z - 1) /\ b \in 1..BlockNum /\ b # 0
  BY <1>0, <1>3, <1>4, <1>5
<1>10. \A b \in TakenFor(i) : ByMkfs(b) /\ b \in Blocks /\ b # 0
  BY <1>2, <1>9 DEF TakenFor, ByMkfs, Blocks
<1>11. FirstBlock(i)..(y - 1) \subseteq x..(y - 1)
  BY <1>3, <1>6, <1>7
<1>12. OwnBlocks(i) \subseteq TakenFor(i)
  BY <1>2, <1>11 DEF OwnBlocks, TakenFor
<1> QED
  BY <1>2, <1>3, <1>6, <1>7, <1>8, <1>10, <1>12

(* Blocks taken for different files are different. *)
LEMMA TakenApart ==
  ASSUME NEW i \in 1..Len(MkfsFiles), NEW j \in 1..Len(MkfsFiles), NEW b,
         b \in TakenFor(i), b \in TakenFor(j)
  PROVE  i = j
<1>0. Len(MkfsFiles) \in Nat
  BY MkfsAssumption
<1>1. /\ DataCursor[i - 1] \in Nat /\ DataCursor[i] \in Nat
      /\ DataCursor[j - 1] \in Nat /\ DataCursor[j] \in Nat
  BY TakenIs
<1>2. /\ i - 1 \in 0..Len(MkfsFiles) /\ i \in 0..Len(MkfsFiles)
      /\ j - 1 \in 0..Len(MkfsFiles) /\ j \in 0..Len(MkfsFiles)
  BY <1>0
<1>3. i <= j - 1 => DataCursor[i] <= DataCursor[j - 1]
  BY <1>2, CursorGrows
<1>4. j <= i - 1 => DataCursor[j] <= DataCursor[i - 1]
  BY <1>2, CursorGrows
<1>5. b \in Int /\ DataCursor[i - 1] <= b /\ b < DataCursor[i] /\ DataCursor[j - 1] <= b /\ b < DataCursor[j]
  BY <1>1 DEF TakenFor
<1>6. ~(i <= j - 1) /\ ~(j <= i - 1)
  BY <1>1, <1>3, <1>4, <1>5
<1> QED
  BY <1>2, <1>6

(* The blocks of a file are its own. *)
LEMMA FileBlockIs ==
  ASSUME NEW i \in 1..Len(MkfsFiles)
  PROVE  /\ \A k \in Nat : k < MkfsBlocks(i) => MkfsBlock(i, k) \in OwnBlocks(i)
         /\ MkfsBlocks(i) > Direct => FirstBlock(i) + Direct \in OwnBlocks(i)
<1>0. Direct \in Nat
  BY SizeAssumption
<1>1. FirstBlock(i) \in Nat /\ DataCursor[i] = FirstBlock(i) + BlocksFor(MkfsLen(i))
  BY TakenIs
<1>2. MkfsBlocks(i) \in Nat /\ BlocksFor(MkfsLen(i)) = MkfsBlocks(i) + (IF MkfsBlocks(i) > Direct THEN 1 ELSE 0)
  BY MkfsIs
<1>3. ASSUME NEW k \in Nat, k < MkfsBlocks(i)
      PROVE  MkfsBlock(i, k) \in OwnBlocks(i)
  BY <1>0, <1>1, <1>2, <1>3 DEF MkfsBlock, OwnBlocks
<1>4. MkfsBlocks(i) > Direct => FirstBlock(i) + Direct \in OwnBlocks(i)
  BY <1>0, <1>1, <1>2 DEF OwnBlocks
<1> QED
  BY <1>3, <1>4

\* The file whose entry opens the block of the root directory at place k.
Opener(k) == k * BlockSize + 1

(* A block of the root directory belongs to no file. *)
LEMMA RootBlockIs ==
  ASSUME NEW k \in Nat, k * BlockSize < Len(MkfsFiles)
  PROVE  /\ Opener(k) \in 1..Len(MkfsFiles)
         /\ DataCursor[k * BlockSize] \in TakenFor(Opener(k))
         /\ DataCursor[k * BlockSize] < FirstBlock(Opener(k))
<1>0. BlockSize \in Nat \ {0} /\ Len(MkfsFiles) \in Nat /\ Direct \in Nat
  BY MkfsAssumption, SizeAssumption
<1>1. PICK x : x = k * BlockSize
  OBVIOUS
<1>2. x \in Nat /\ x < Len(MkfsFiles)
  BY <1>0, <1>1
<1>3. x % BlockSize = 0
  <2>1. x \div BlockSize = k
    BY <1>0, <1>1, <1>2, PlaceIs
  <2>2. x = k * BlockSize + (x % BlockSize) /\ x % BlockSize \in Int
    BY <1>2, <2>1, DivIs
  <2> QED
    BY <1>1, <1>2, <2>2
<1>4. Opener(k) = x + 1 /\ Opener(k) \in 1..Len(MkfsFiles) /\ Opener(k) - 1 = x
  BY <1>0, <1>1, <1>2 DEF Opener
<1>5. OpensRootBlock(Opener(k)) = 1
  BY <1>3, <1>4 DEF OpensRootBlock
<1>6. /\ FirstBlock(Opener(k)) \in Nat /\ DataCursor[x] \in Nat /\ DataCursor[Opener(k)] \in Nat
      /\ FirstBlock(Opener(k)) = DataCursor[x] + 1
      /\ DataCursor[Opener(k)] = FirstBlock(Opener(k)) + BlocksFor(MkfsLen(Opener(k)))
  BY <1>4, <1>5, TakenIs
<1>7. BlocksFor(MkfsLen(Opener(k))) \in Nat
  <2>1. PICK o : o = Opener(k)
    OBVIOUS
  <2>2. /\ MkfsBlocks(o) \in Nat
        /\ BlocksFor(MkfsLen(o)) = MkfsBlocks(o) + (IF MkfsBlocks(o) > Direct THEN 1 ELSE 0)
    BY <1>4, <2>1, MkfsIs
  <2> QED
    BY <1>0, <2>1, <2>2
<1>8. DataCursor[x] \in DataCursor[x]..(DataCursor[Opener(k)] - 1)
  BY <1>6, <1>7
<1>9. DataCursor[x] \in TakenFor(Opener(k))
  BY <1>4, <1>8 DEF TakenFor
<1> QED
  BY <1>1, <1>4, <1>6, <1>9

\* The sets of MkfsData: whose entry, whose byte and whose indirect entry the
\* cell c of block b is.
InRoot(b, c) ==
  {i \in 1..Len(MkfsFiles) :
     /\ RootInode.addr[(i - 1) \div BlockSize] = b
     /\ (i - 1) % BlockSize = c}
InFile(b, c) ==
  {x \in (1..Len(MkfsFiles)) \X (0..BlockNum) :
     /\ x[2] < MkfsBlocks(x[1]) /\ MkfsBlock(x[1], x[2]) = b
     /\ x[2] * BlockSize + c < MkfsLen(x[1])}
InIndex(b, c) ==
  {i \in 1..Len(MkfsFiles) :
     /\ MkfsBlocks(i) > Direct + c
     /\ FirstBlock(i) + Direct = b}

(* What a cell holds that is no byte of a file. *)
LEMMA CellIs ==
  ASSUME NEW b, NEW c \in 0..(BlockSize - 1), InFile(b, c) = {}
  PROVE  /\ InRoot(b, c) # {} /\ InIndex(b, c) = {} =>
              \E i \in InRoot(b, c) : MkfsData(b)[c] = DirElement(MkfsFiles[i].name, i)
         /\ InRoot(b, c) = {} /\ InIndex(b, c) # {} => MkfsData(b)[c].val = b + 1 + c
         /\ InRoot(b, c) = {} /\ InIndex(b, c) = {} => MkfsData(b)[c].val = 0
<1>1. MkfsData(b)[c] =
        CASE InRoot(b, c) # {} -> DirElement(MkfsFiles[CHOOSE x \in InRoot(b, c) : TRUE].name,
                                             CHOOSE x \in InRoot(b, c) : TRUE)
          [] InFile(b, c) # {} ->
               MkfsFiles[(CHOOSE x \in InFile(b, c) : TRUE)[1]]
                 .body[(CHOOSE x \in InFile(b, c) : TRUE)[2] * BlockSize + c + 1]
          [] InIndex(b, c) # {} -> Byte(b + 1 + c)
          [] OTHER -> Blank
  BY DEF MkfsData, InRoot, InFile, InIndex
<1>2. PICK i : i = CHOOSE x \in InRoot(b, c) : TRUE
  OBVIOUS
<1>3. InRoot(b, c) # {} => i \in InRoot(b, c)
  BY <1>2
<1>4. InRoot(b, c) # {} /\ InIndex(b, c) = {} => MkfsData(b)[c] = DirElement(MkfsFiles[i].name, i)
  BY <1>1, <1>2
<1>5. InRoot(b, c) = {} /\ InIndex(b, c) # {} => MkfsData(b)[c] = Byte(b + 1 + c)
  BY <1>1
<1>6. InRoot(b, c) = {} /\ InIndex(b, c) = {} => MkfsData(b)[c] = Blank
  BY <1>1
<1> QED
  BY <1>3, <1>4, <1>5, <1>6 DEF DirElement, Byte, Blank

(* The places of the root directory. *)
LEMMA RootAddr ==
  /\ Len(MkfsFiles) \in Nat /\ Len(MkfsFiles) <= Direct * BlockSize /\ Direct * BlockSize \in Nat
  /\ RootInode.addr[Direct] = 0
  /\ \A k \in Nat : k * BlockSize < Len(MkfsFiles) =>
       k < Direct /\ RootInode.addr[k] = DataCursor[k * BlockSize]
  /\ \A k \in 0..Direct : ~(k * BlockSize < Len(MkfsFiles)) => RootInode.addr[k] = 0
<1>0. /\ BlockSize \in Nat \ {0} /\ Direct \in Nat /\ InodeNum \in Nat /\ MaxCrashes \in Nat
      /\ Direct * BlockSize \in Nat /\ Len(MkfsFiles) \in Nat /\ Len(MkfsFiles) < InodeNum
  <2>1. /\ BlockSize \in Nat \ {0} /\ Direct \in Nat /\ InodeNum \in Nat /\ MaxCrashes \in Nat
    BY SizeAssumption
  <2>2. Direct * BlockSize \in Nat
    BY <2>1
  <2> QED
    BY <2>1, <2>2, MkfsAssumption
<1>1. Len(MkfsFiles) <= Direct * BlockSize
  <2>1. InodeNum - 1 + MaxCrashes <= Direct * BlockSize
    BY DirectoryAssumption
  <2> QED
    BY <1>0, <2>1
<1>2. \A k \in 0..Direct : RootInode.addr[k] =
        IF k * BlockSize < Len(MkfsFiles) THEN DataCursor[k * BlockSize] ELSE 0
  BY DEF RootInode
<1>3. ASSUME NEW k \in Nat, k * BlockSize < Len(MkfsFiles) PROVE k < Direct
  <2>1. k > Direct => Direct * BlockSize + BlockSize <= k * BlockSize
    BY <1>0, Steps
  <2>2. k * BlockSize \in Nat
    BY <1>0
  <2> QED
    BY <1>0, <1>1, <1>3, <2>1, <2>2
<1>4. RootInode.addr[Direct] = 0
  <2>1. Direct \in 0..Direct /\ ~(Direct * BlockSize < Len(MkfsFiles))
    BY <1>0, <1>1
  <2> QED
    BY <1>2, <2>1
<1>5. ASSUME NEW k \in Nat, k * BlockSize < Len(MkfsFiles)
      PROVE  k < Direct /\ RootInode.addr[k] = DataCursor[k * BlockSize]
  <2>1. k < Direct
    BY <1>3, <1>5
  <2>2. k \in 0..Direct
    BY <1>0, <2>1
  <2> QED
    BY <1>2, <1>5, <2>1, <2>2
<1> QED
  BY <1>0, <1>1, <1>2, <1>4, <1>5

(* A block of the root directory is not among those of a file. *)
LEMMA RootApart ==
  ASSUME NEW k \in Nat, k * BlockSize < Len(MkfsFiles), NEW j \in 1..Len(MkfsFiles)
  PROVE  DataCursor[k * BlockSize] \notin OwnBlocks(j)
<1>1. PICK o, b : o = Opener(k) /\ b = DataCursor[k * BlockSize]
  OBVIOUS
<1>2. o \in 1..Len(MkfsFiles) /\ b \in TakenFor(o) /\ b < FirstBlock(o)
  BY <1>1, RootBlockIs
<1>3. SUFFICES ASSUME b \in OwnBlocks(j) PROVE FALSE
  BY <1>1
<1>4. b \in TakenFor(j)
  BY <1>3, TakenIs
<1>5. o = j
  BY <1>2, <1>4, TakenApart
<1>6. FirstBlock(j) \in Nat /\ DataCursor[j] \in Nat
  BY TakenIs
<1> QED
  BY <1>2, <1>3, <1>5, <1>6 DEF OwnBlocks

(* The cells of a block of a file are no entries of the root directory. *)
LEMMA NoRoot ==
  ASSUME NEW j \in 1..Len(MkfsFiles), NEW b \in OwnBlocks(j), NEW c
  PROVE  InRoot(b, c) = {}
<1>1. SUFFICES ASSUME NEW i \in InRoot(b, c) PROVE FALSE
  OBVIOUS
<1>2. i \in 1..Len(MkfsFiles) /\ RootInode.addr[(i - 1) \div BlockSize] = b
  BY <1>1 DEF InRoot
<1>3. PICK k : k = (i - 1) \div BlockSize
  OBVIOUS
<1>4. i - 1 \in Nat /\ Len(MkfsFiles) \in Nat /\ i - 1 < Len(MkfsFiles)
  BY <1>2, RootAddr
<1>5. k \in Nat /\ k * BlockSize <= i - 1
  BY <1>3, <1>4, DivIs
<1>6. k * BlockSize < Len(MkfsFiles)
  <2>1. k * BlockSize \in Int
    BY <1>5, SizeAssumption
  <2> QED
    BY <1>4, <1>5, <2>1
<1>7. b = DataCursor[k * BlockSize]
  BY <1>2, <1>3, <1>5, <1>6, RootAddr
<1> QED
  BY <1>5, <1>6, <1>7, RootApart

(* The indirect block of a file lists the blocks behind it. *)
LEMMA IndexCell ==
  ASSUME NEW i \in 1..Len(MkfsFiles), MkfsBlocks(i) > Direct, NEW c \in 0..(BlockSize - 1)
  PROVE  MkfsData(FirstBlock(i) + Direct)[c].val =
           IF Direct + c < MkfsBlocks(i) THEN MkfsBlock(i, Direct + c) ELSE 0
<1>0. BlockSize \in Nat \ {0} /\ Direct \in Nat /\ BlockNum \in Nat
  BY SizeAssumption
<1>1. PICK b : b = FirstBlock(i) + Direct
  OBVIOUS
<1>2. b \in OwnBlocks(i) /\ FirstBlock(i) \in Nat /\ b \in TakenFor(i)
  BY <1>1, FileBlockIs, TakenIs
<1>3. InRoot(b, c) = {}
  BY <1>2, NoRoot
<1>4. InFile(b, c) = {}
  <2>1. SUFFICES ASSUME NEW x \in InFile(b, c) PROVE FALSE
    OBVIOUS
  <2>2. PICK j, k : j = x[1] /\ k = x[2]
    OBVIOUS
  <2>3. j \in 1..Len(MkfsFiles) /\ k \in Nat /\ k < MkfsBlocks(j) /\ MkfsBlock(j, k) = b
    BY <1>0, <2>1, <2>2 DEF InFile
  <2>4. b \in OwnBlocks(j)
    BY <2>3, FileBlockIs
  <2>5. b \in TakenFor(j)
    BY <2>3, <2>4, TakenIs
  <2>6. j = i
    BY <1>2, <2>3, <2>5, TakenApart
  <2> QED
    BY <1>0, <1>1, <1>2, <2>3, <2>6 DEF MkfsBlock
<1>5. ASSUME NEW j \in InIndex(b, c)
      PROVE  j = i /\ MkfsBlocks(i) > Direct + c
  <2>1. j \in 1..Len(MkfsFiles) /\ MkfsBlocks(j) > Direct + c /\ FirstBlock(j) + Direct = b
    BY <1>5 DEF InIndex
  <2>2. MkfsBlocks(j) > Direct
    <3>1. MkfsBlocks(j) \in Nat
      BY <2>1, MkfsIs
    <3> QED
      BY <1>0, <2>1, <3>1
  <2>3. b \in OwnBlocks(j)
    BY <2>1, <2>2, FileBlockIs
  <2>4. b \in TakenFor(j)
    BY <2>1, <2>3, TakenIs
  <2>5. j = i
    BY <1>2, <2>1, <2>4, TakenApart
  <2> QED
    BY <2>1, <2>5
<1>6. MkfsBlocks(i) > Direct + c => i \in InIndex(b, c)
  BY <1>1 DEF InIndex
<1>7. MkfsBlocks(i) \in Nat /\ Direct + c \in Nat /\ (Direct + c < MkfsBlocks(i) <=> MkfsBlocks(i) > Direct + c)
  <2>1. MkfsBlocks(i) \in Nat
    BY MkfsIs
  <2> QED
    BY <1>0, <2>1
<1>8. CASE MkfsBlocks(i) > Direct + c
  <2>1. MkfsData(b)[c].val = b + 1 + c
    BY <1>3, <1>4, <1>6, <1>8, CellIs
  <2>2. MkfsBlock(i, Direct + c) = FirstBlock(i) + (Direct + c) + 1
    BY <1>0 DEF MkfsBlock
  <2>3. b + 1 + c = FirstBlock(i) + (Direct + c) + 1
    BY <1>0, <1>1, <1>2
  <2> QED
    BY <1>1, <1>7, <1>8, <2>1, <2>2, <2>3
<1>9. CASE ~(MkfsBlocks(i) > Direct + c)
  <2>1. MkfsData(b)[c].val = 0
    BY <1>3, <1>4, <1>5, <1>9, CellIs
  <2> QED
    BY <1>1, <1>7, <1>9, <2>1
<1> QED
  BY <1>8, <1>9

(* The entries of the root directory. *)
LEMMA RootCell ==
  ASSUME NEW x \in 0..(Len(MkfsFiles) - 1)
  PROVE  /\ x \div BlockSize \in Nat /\ (x \div BlockSize) * BlockSize < Len(MkfsFiles)
         /\ RootInode.addr[x \div BlockSize] \in Blocks
         /\ MkfsData(RootInode.addr[x \div BlockSize])[x % BlockSize] =
              DirElement(MkfsFiles[x + 1].name, x + 1)
<1>0. BlockSize \in Nat \ {0} /\ Direct \in Nat /\ BlockNum \in Nat /\ Len(MkfsFiles) \in Nat
  BY SizeAssumption, MkfsAssumption
<1>1. PICK k, c : k = x \div BlockSize /\ c = x % BlockSize
  OBVIOUS
<1>2. x \in Nat /\ x < Len(MkfsFiles)
  BY <1>0
<1>3. k \in Nat /\ c \in 0..(BlockSize - 1) /\ k * BlockSize <= x
  BY <1>1, <1>2, DivIs
<1>4. k * BlockSize < Len(MkfsFiles)
  <2>1. k * BlockSize \in Int
    BY <1>0, <1>3
  <2> QED
    BY <1>0, <1>2, <1>3, <2>1
<1>5. PICK b : b = RootInode.addr[k]
  OBVIOUS
<1>6. b = DataCursor[k * BlockSize]
  BY <1>3, <1>4, <1>5, RootAddr
<1>7. \A j \in 1..Len(MkfsFiles) : b \notin OwnBlocks(j)
  BY <1>3, <1>4, <1>6, RootApart
<1>8. InFile(b, c) = {}
  <2>1. SUFFICES ASSUME NEW y \in InFile(b, c) PROVE FALSE
    OBVIOUS
  <2>2. y[1] \in 1..Len(MkfsFiles) /\ y[2] \in Nat /\ y[2] < MkfsBlocks(y[1]) /\ MkfsBlock(y[1], y[2]) = b
    BY <1>0, <2>1 DEF InFile
  <2>3. b \in OwnBlocks(y[1])
    BY <2>2, FileBlockIs
  <2> QED
    BY <1>7, <2>2, <2>3
<1>9. InIndex(b, c) = {}
  <2>1. SUFFICES ASSUME NEW j \in InIndex(b, c) PROVE FALSE
    OBVIOUS
  <2>2. j \in 1..Len(MkfsFiles) /\ MkfsBlocks(j) > Direct + c /\ FirstBlock(j) + Direct = b
    BY <2>1 DEF InIndex
  <2>3. MkfsBlocks(j) > Direct
    <3>1. MkfsBlocks(j) \in Nat
      BY <2>2, MkfsIs
    <3> QED
      BY <1>0, <1>3, <2>2, <3>1
  <2>4. b \in OwnBlocks(j)
    BY <2>2, <2>3, FileBlockIs
  <2> QED
    BY <1>7, <2>2, <2>4
<1>10. x + 1 \in InRoot(b, c)
  <2>1. x + 1 \in 1..Len(MkfsFiles) /\ (x + 1) - 1 = x
    BY <1>0, <1>2
  <2> QED
    BY <1>1, <1>5, <2>1 DEF InRoot
<1>11. PICK i \in InRoot(b, c) : MkfsData(b)[c] = DirElement(MkfsFiles[i].name, i)
  BY <1>3, <1>8, <1>9, <1>10, CellIs
<1>12. i = x + 1
  <2>1. PICK z, m : z = i - 1 /\ m = z \div BlockSize
    OBVIOUS
  <2>2. i \in 1..Len(MkfsFiles) /\ RootInode.addr[m] = b /\ z % BlockSize = c
    BY <1>11, <2>1 DEF InRoot
  <2>3. z \in Nat /\ z < Len(MkfsFiles)
    BY <1>0, <2>1, <2>2
  <2>4. m \in Nat /\ z = m * BlockSize + c /\ m * BlockSize <= z /\ x = k * BlockSize + c
    BY <1>1, <1>2, <2>1, <2>2, <2>3, DivIs
  <2>5. m * BlockSize < Len(MkfsFiles) /\ m * BlockSize \in Nat /\ k * BlockSize \in Nat
    <3>1. m * BlockSize \in Nat /\ k * BlockSize \in Nat
      BY <1>0, <1>3, <2>4
    <3> QED
      BY <1>0, <2>3, <2>4, <3>1
  <2>6. b = DataCursor[m * BlockSize]
    BY <2>2, <2>4, <2>5, RootAddr
  <2>7. Opener(m) = Opener(k)
    <3>1. Opener(m) \in 1..Len(MkfsFiles) /\ b \in TakenFor(Opener(m))
      BY <2>4, <2>5, <2>6, RootBlockIs
    <3>2. Opener(k) \in 1..Len(MkfsFiles) /\ b \in TakenFor(Opener(k))
      BY <1>3, <1>4, <1>6, RootBlockIs
    <3> QED
      BY <3>1, <3>2, TakenApart
  <2>8. m * BlockSize = k * BlockSize
    BY <2>5, <2>7 DEF Opener
  <2>9. i \in Int
    BY <1>0, <2>2
  <2> QED
    BY <2>1, <2>4, <2>8, <2>9
<1>13. b \in Blocks
  <2>1. b \in TakenFor(Opener(k)) /\ Opener(k) \in 1..Len(MkfsFiles)
    BY <1>3, <1>4, <1>6, RootBlockIs
  <2> QED
    BY <2>1, TakenIs
<1> QED
  BY <1>1, <1>3, <1>4, <1>5, <1>11, <1>12, <1>13

-----------------------------------------------------------------------------
(* The initial states *)

\* The inode table and the data of the image.
MkfsTable == [i \in Inums |-> IF i = Root THEN RootInode
                              ELSE IF i <= Len(MkfsFiles) THEN MkfsInode(i) ELSE EmptyInode]
MkfsDisk == [b \in {0} \cup Blocks |-> IF b = 0 THEN BlankBlock ELSE MkfsData(b)]

\* The blocks at the places of the image.
MkfsAt(i, k) ==
  IF i = Root THEN IF k \in Nat /\ k * BlockSize < Len(MkfsFiles) THEN DataCursor[k * BlockSize] ELSE 0
  ELSE IF ~(i \in 1..Len(MkfsFiles)) THEN 0
  ELSE IF k = -1 THEN IF MkfsBlocks(i) > Direct THEN FirstBlock(i) + Direct ELSE 0
  ELSE IF k < MkfsBlocks(i) THEN MkfsBlock(i, k) ELSE 0

(* An inode is that of the root directory, of a file or free. *)
LEMMA MkfsTableIs ==
  ASSUME NEW i \in Inums
  PROVE  /\ i = Root => MkfsTable[i] = RootInode
         /\ i \in 1..Len(MkfsFiles) => i # Root /\ MkfsTable[i] = MkfsInode(i)
         /\ i # Root /\ ~(i \in 1..Len(MkfsFiles)) => MkfsTable[i] = EmptyInode
<1>0. InodeNum \in Nat /\ Len(MkfsFiles) \in Nat
  BY SizeAssumption, MkfsAssumption
<1>1. i \in Nat
  BY <1>0 DEF Inums
<1>2. i # Root => (i <= Len(MkfsFiles) <=> i \in 1..Len(MkfsFiles))
  BY <1>0, <1>1 DEF Root
<1>3. i \in 1..Len(MkfsFiles) => i # Root
  BY <1>0 DEF Root
<1>4. MkfsTable[i] = IF i = Root THEN RootInode
                     ELSE IF i <= Len(MkfsFiles) THEN MkfsInode(i) ELSE EmptyInode
  BY DEF MkfsTable
<1> QED
  BY <1>2, <1>3, <1>4

(* The data of a block. *)
LEMMA MkfsDiskIs ==
  /\ DOMAIN MkfsDisk = 0..BlockNum
  /\ \A b \in 0..BlockNum : DOMAIN MkfsDisk[b] = 0..(BlockSize - 1)
  /\ \A b \in Blocks : MkfsDisk[b] = MkfsData(b)
<1>0. BlockNum \in Nat
  BY SizeAssumption
<1>1. {0} \cup Blocks = 0..BlockNum /\ \A b \in Blocks : b # 0
  BY <1>0 DEF Blocks
<1>2. \A b \in 0..BlockNum : MkfsDisk[b] = IF b = 0 THEN BlankBlock ELSE MkfsData(b)
  BY <1>1 DEF MkfsDisk
<1>3. DOMAIN MkfsDisk = 0..BlockNum
  BY <1>1 DEF MkfsDisk
<1>4. \A b : DOMAIN MkfsData(b) = 0..(BlockSize - 1)
  BY DEF MkfsData
<1>5. DOMAIN BlankBlock = 0..(BlockSize - 1)
  BY DEF BlankBlock
<1> QED
  BY <1>1, <1>2, <1>3, <1>4, <1>5

(* The addresses of a file of the image. *)
LEMMA MkfsAddr ==
  ASSUME NEW i \in 1..Len(MkfsFiles)
  PROVE  /\ MkfsInode(i).addr[Direct] =
              IF MkfsBlocks(i) > Direct THEN FirstBlock(i) + Direct ELSE 0
         /\ \A k \in 0..(Direct - 1) : MkfsInode(i).addr[k] =
              IF k < MkfsBlocks(i) THEN MkfsBlock(i, k) ELSE 0
<1>0. Direct \in Nat
  BY SizeAssumption
<1>1. \A k \in 0..Direct : MkfsInode(i).addr[k] =
        IF k = Direct /\ MkfsBlocks(i) > Direct THEN FirstBlock(i) + Direct
        ELSE IF k < Direct /\ k < MkfsBlocks(i) THEN MkfsBlock(i, k) ELSE 0
  BY DEF MkfsInode
<1>2. Direct \in 0..Direct /\ ~(Direct < Direct)
  BY <1>0
<1>3. \A k \in 0..(Direct - 1) : k \in 0..Direct /\ k # Direct /\ k < Direct
  BY <1>0
<1>4. MkfsInode(i).addr[Direct] = IF MkfsBlocks(i) > Direct THEN FirstBlock(i) + Direct ELSE 0
  BY <1>1, <1>2
<1>5. ASSUME NEW k \in 0..(Direct - 1)
      PROVE  MkfsInode(i).addr[k] = IF k < MkfsBlocks(i) THEN MkfsBlock(i, k) ELSE 0
  BY <1>1, <1>3
<1> QED
  BY <1>4, <1>5

(* The places of the image. *)
LEMMA MkfsPlaces ==
  ASSUME NEW i \in Inums, NEW k \in AllPlaces
  PROVE  At(MkfsTable, MkfsDisk, i, k) = MkfsAt(i, k)
<1>0. BlockSize \in Nat \ {0} /\ Direct \in Nat /\ BlockNum \in Nat /\ Len(MkfsFiles) \in Nat
  BY SizeAssumption, MkfsAssumption
<1>1. k \in Int /\ k >= -1 /\ k < Direct + BlockSize /\ (k # -1 => k \in Nat)
  BY <1>0 DEF AllPlaces
<1>2. CASE i = Root
  <2>1. MkfsTable[i] = RootInode
    BY <1>2, MkfsTableIs
  <2>2. RootInode.addr[Direct] = 0
    BY RootAddr
  <2>3. CASE k = -1
    <3>1. At(MkfsTable, MkfsDisk, i, k) = 0
      BY <2>1, <2>2, <2>3 DEF At
    <3>2. ~(k \in Nat)
      BY <2>3
    <3> QED
      BY <1>2, <3>1, <3>2 DEF MkfsAt
  <2>4. CASE k # -1 /\ k < Direct
    <3>1. At(MkfsTable, MkfsDisk, i, k) = RootInode.addr[k]
      BY <2>1, <2>4 DEF At
    <3>2. k \in Nat /\ k \in 0..Direct
      BY <1>0, <1>1, <2>4
    <3>3. RootInode.addr[k] = IF k * BlockSize < Len(MkfsFiles) THEN DataCursor[k * BlockSize] ELSE 0
      BY <3>2, RootAddr
    <3> QED
      BY <1>2, <3>1, <3>2, <3>3 DEF MkfsAt
  <2>5. CASE k # -1 /\ ~(k < Direct)
    <3>1. At(MkfsTable, MkfsDisk, i, k) = 0
      BY <2>1, <2>2, <2>5 DEF At
    <3>2. k \in Nat /\ ~(k * BlockSize < Len(MkfsFiles))
      BY <1>1, <2>5, RootAddr
    <3> QED
      BY <1>2, <3>1, <3>2 DEF MkfsAt
  <2> QED
    BY <2>3, <2>4, <2>5
<1>3. CASE i \in 1..Len(MkfsFiles)
  <2>1. MkfsTable[i] = MkfsInode(i) /\ i # Root
    BY <1>3, MkfsTableIs
  <2>2. MkfsBlocks(i) \in Nat
    BY <1>3, MkfsIs
  <2>3. MkfsInode(i).addr[Direct] = IF MkfsBlocks(i) > Direct THEN FirstBlock(i) + Direct ELSE 0
    BY <1>3, MkfsAddr
  <2>4. CASE k = -1
    BY <1>3, <2>1, <2>3, <2>4 DEF At, MkfsAt
  <2>5. CASE k # -1 /\ k < Direct
    <3>1. k \in 0..(Direct - 1)
      BY <1>0, <1>1, <2>5
    <3>2. MkfsInode(i).addr[k] = IF k < MkfsBlocks(i) THEN MkfsBlock(i, k) ELSE 0
      BY <1>3, <3>1, MkfsAddr
    <3>3. At(MkfsTable, MkfsDisk, i, k) = MkfsInode(i).addr[k]
      BY <2>1, <2>5 DEF At
    <3> QED
      BY <1>3, <2>1, <2>5, <3>2, <3>3 DEF MkfsAt
  <2>6. CASE k # -1 /\ ~(k < Direct) /\ MkfsBlocks(i) > Direct
    <3>1. PICK b : b = FirstBlock(i) + Direct
      OBVIOUS
    <3>2. b \in OwnBlocks(i)
      BY <1>3, <2>6, <3>1, FileBlockIs
    <3>3. b \in TakenFor(i)
      BY <1>3, <3>2, TakenIs
    <3>4. ByMkfs(b) /\ b \in Blocks /\ b # 0
      BY <1>3, <3>3, TakenIs
    <3>5. MkfsTable[i].addr[Direct] = b
      BY <2>1, <2>3, <2>6, <3>1
    <3>6. At(MkfsTable, MkfsDisk, i, k) = MkfsDisk[b][k - Direct].val
      BY <2>6, <3>4, <3>5 DEF At
    <3>7. PICK c : c = k - Direct
      OBVIOUS
    <3>8. c \in 0..(BlockSize - 1) /\ Direct + c = k
      BY <1>0, <1>1, <2>6, <3>7
    <3>9. MkfsDisk[b] = MkfsData(b)
      BY <3>4, MkfsDiskIs
    <3>10. MkfsData(FirstBlock(i) + Direct)[c].val =
             IF Direct + c < MkfsBlocks(i) THEN MkfsBlock(i, Direct + c) ELSE 0
      BY <1>3, <2>6, <3>8, IndexCell
    <3>11. At(MkfsTable, MkfsDisk, i, k) = IF k < MkfsBlocks(i) THEN MkfsBlock(i, k) ELSE 0
      BY <3>1, <3>6, <3>7, <3>8, <3>9, <3>10
    <3> QED
      BY <1>3, <2>1, <2>6, <3>11 DEF MkfsAt
  <2>7. CASE k # -1 /\ ~(k < Direct) /\ ~(MkfsBlocks(i) > Direct)
    <3>1. At(MkfsTable, MkfsDisk, i, k) = 0
      BY <2>1, <2>3, <2>7 DEF At
    <3>2. ~(k < MkfsBlocks(i))
      BY <1>0, <1>1, <2>2, <2>7
    <3> QED
      BY <1>3, <2>1, <2>7, <3>1, <3>2 DEF MkfsAt
  <2> QED
    BY <2>4, <2>5, <2>6, <2>7
<1>4. CASE i # Root /\ ~(i \in 1..Len(MkfsFiles))
  <2>1. MkfsTable[i] = EmptyInode
    BY <1>4, MkfsTableIs
  <2>2. \A l \in 0..Direct : MkfsTable[i].addr[l] = 0
    BY <2>1 DEF EmptyInode
  <2>3. Direct \in 0..Direct /\ (k # -1 /\ k < Direct => k \in 0..Direct)
    BY <1>0, <1>1
  <2>4. At(MkfsTable, MkfsDisk, i, k) = 0
    BY <2>2, <2>3 DEF At
  <2> QED
    BY <1>4, <2>4 DEF MkfsAt
<1> QED
  BY <1>2, <1>3, <1>4

\* The file that mkfs was writing when it took the block at place k of inode i.
TakenWith(i, k) == IF i = Root THEN Opener(k) ELSE i

(* A block at a place of the image was taken for it. *)
LEMMA MkfsTaken ==
  ASSUME NEW i \in Inums, NEW k \in AllPlaces, MkfsAt(i, k) # 0
  PROVE  /\ TakenWith(i, k) \in 1..Len(MkfsFiles)
         /\ MkfsAt(i, k) \in TakenFor(TakenWith(i, k))
         /\ MkfsAt(i, k) \in Int /\ FirstBlock(TakenWith(i, k)) \in Int
         /\ i = Root <=> MkfsAt(i, k) < FirstBlock(TakenWith(i, k))
         /\ i # Root => /\ i \in 1..Len(MkfsFiles)
                        /\ \/ k = -1 /\ MkfsAt(i, k) = FirstBlock(i) + Direct
                           \/ k \in Nat /\ MkfsAt(i, k) = MkfsBlock(i, k)
<1>0. BlockSize \in Nat \ {0} /\ Direct \in Nat /\ BlockNum \in Nat /\ Len(MkfsFiles) \in Nat
  BY SizeAssumption, MkfsAssumption
<1>1. k \in Int /\ k >= -1 /\ (k # -1 => k \in Nat)
  BY <1>0 DEF AllPlaces
<1>2. PICK b, j : b = MkfsAt(i, k) /\ j = TakenWith(i, k)
  OBVIOUS
<1>3. CASE i = Root
  <2>1. k \in Nat /\ k * BlockSize < Len(MkfsFiles) /\ b = DataCursor[k * BlockSize]
    BY <1>2, <1>3 DEF MkfsAt
  <2>2. j = Opener(k)
    BY <1>2, <1>3 DEF TakenWith
  <2>3. j \in 1..Len(MkfsFiles) /\ b \in TakenFor(j) /\ b < FirstBlock(j)
    BY <2>1, <2>2, RootBlockIs
  <2>4. FirstBlock(j) \in Nat /\ DataCursor[j - 1] \in Nat /\ DataCursor[j] \in Nat
    BY <2>3, TakenIs
  <2>5. b \in Int
    BY <2>3, <2>4 DEF TakenFor
  <2> QED
    BY <1>2, <1>3, <2>3, <2>4, <2>5
<1>4. CASE i # Root
  <2>1. i \in 1..Len(MkfsFiles) /\ j = i
    BY <1>2, <1>4 DEF MkfsAt, TakenWith
  <2>2. \/ k = -1 /\ MkfsBlocks(i) > Direct /\ b = FirstBlock(i) + Direct
        \/ k \in Nat /\ k < MkfsBlocks(i) /\ b = MkfsBlock(i, k)
    BY <1>1, <1>2, <1>4, <2>1 DEF MkfsAt
  <2>3. b \in OwnBlocks(i)
    BY <2>1, <2>2, FileBlockIs
  <2>4. b \in TakenFor(i) /\ FirstBlock(i) \in Nat /\ DataCursor[i] \in Nat
    BY <2>1, <2>3, TakenIs
  <2>5. b \in Int /\ ~(b < FirstBlock(i))
    BY <2>3, <2>4 DEF OwnBlocks
  <2> QED
    BY <1>2, <1>4, <2>1, <2>2, <2>4, <2>5
<1> QED
  BY <1>3, <1>4

(* Each block of the image is at one place. *)
LEMMA MkfsOwned ==
  ASSUME NEW B, B = 1..(DataCursor[Len(MkfsFiles)] - 1)
  PROVE  Owned(B, MkfsTable, MkfsDisk)
<1>0. BlockSize \in Nat \ {0} /\ Direct \in Nat /\ Len(MkfsFiles) \in Nat
  BY SizeAssumption, MkfsAssumption
<1>1. ASSUME NEW i \in Inums, NEW k \in AllPlaces, MkfsAt(i, k) # 0
      PROVE  MkfsAt(i, k) \in B
  <2>1. TakenWith(i, k) \in 1..Len(MkfsFiles) /\ MkfsAt(i, k) \in TakenFor(TakenWith(i, k))
    BY <1>1, MkfsTaken
  <2>2. ByMkfs(MkfsAt(i, k))
    BY <2>1, TakenIs
  <2> QED
    BY <2>2 DEF ByMkfs
<1>2. ASSUME NEW i \in Inums, NEW j \in Inums, NEW k \in AllPlaces, NEW l \in AllPlaces,
             MkfsAt(i, k) # 0, MkfsAt(i, k) = MkfsAt(j, l)
      PROVE  i = j /\ k = l
  <2>1. PICK b, x, y : b = MkfsAt(i, k) /\ x = TakenWith(i, k) /\ y = TakenWith(j, l)
    OBVIOUS
  <2>2. /\ x \in 1..Len(MkfsFiles) /\ b \in TakenFor(x) /\ b \in Int /\ FirstBlock(x) \in Int
        /\ i = Root <=> b < FirstBlock(x)
        /\ i # Root => \/ k = -1 /\ b = FirstBlock(i) + Direct
                       \/ k \in Nat /\ b = MkfsBlock(i, k)
    BY <1>2, <2>1, MkfsTaken
  <2>3. /\ y \in 1..Len(MkfsFiles) /\ b \in TakenFor(y)
        /\ j = Root <=> b < FirstBlock(y)
        /\ j # Root => \/ l = -1 /\ b = FirstBlock(j) + Direct
                       \/ l \in Nat /\ b = MkfsBlock(j, l)
    BY <1>2, <2>1, MkfsTaken
  <2>4. x = y
    BY <2>2, <2>3, TakenApart
  <2>5. i = Root <=> j = Root
    BY <2>2, <2>3, <2>4
  <2>6. CASE i = Root
    <3>1. k \in Nat /\ l \in Nat
      BY <1>2, <2>5, <2>6 DEF MkfsAt
    <3>2. k * BlockSize + 1 = l * BlockSize + 1
      BY <2>1, <2>4, <2>5, <2>6 DEF TakenWith, Opener
    <3>3. k < l => k * BlockSize + BlockSize <= l * BlockSize
      BY <3>1, Steps
    <3>4. l < k => l * BlockSize + BlockSize <= k * BlockSize
      BY <3>1, Steps
    <3>5. k * BlockSize \in Int /\ l * BlockSize \in Int
      BY <1>0, <3>1
    <3>6. k = l
      BY <1>0, <3>1, <3>2, <3>3, <3>4, <3>5
    <3> QED
      BY <2>5, <2>6, <3>6
  <2>7. CASE i # Root
    <3>1. i = j /\ i = x
      BY <2>1, <2>4, <2>5, <2>7 DEF TakenWith
    <3>2. k = l
      BY <1>0, <2>2, <2>3, <2>5, <2>7, <3>1 DEF MkfsBlock
    <3> QED
      BY <3>1, <3>2
  <2> QED
    BY <2>6, <2>7
<1>3. \A i \in Inums, k \in AllPlaces : At(MkfsTable, MkfsDisk, i, k) = MkfsAt(i, k)
  BY MkfsPlaces
<1> QED
  BY <1>1, <1>2, <1>3 DEF Owned

(* The fields of inodes of the image. *)
LEMMA MkfsFields ==
  /\ RootInode.type = "directory" /\ RootInode.size = Len(MkfsFiles)
  /\ RootInode.inode_index = Root
  /\ EmptyInode.type = "none" /\ EmptyInode.size = 0
  /\ \A i : /\ MkfsInode(i).type = "regular_file" /\ MkfsInode(i).size = MkfsLen(i)
            /\ MkfsInode(i).inode_index = i
<1>1. /\ RootInode.type = "directory" /\ RootInode.size = Len(MkfsFiles)
      /\ RootInode.inode_index = Root
  BY DEF RootInode
<1>2. EmptyInode.type = "none" /\ EmptyInode.size = 0
  BY DEF EmptyInode
<1>3. \A i : /\ MkfsInode(i).type = "regular_file" /\ MkfsInode(i).size = MkfsLen(i)
            /\ MkfsInode(i).inode_index = i
  BY DEF MkfsInode
<1> QED
  BY <1>1, <1>2, <1>3

(* A file of the image has all the blocks of its size. *)
LEMMA MkfsCovered == Covered(MkfsTable, MkfsDisk)
<1>0. BlockSize \in Nat \ {0} /\ Direct \in Nat /\ Len(MkfsFiles) \in Nat
  BY SizeAssumption, MkfsAssumption
<1>1. SUFFICES ASSUME NEW i \in Inums, NEW k \in Nat, k * BlockSize < MkfsTable[i].size
               PROVE  k \in AllPlaces /\ MkfsAt(i, k) # 0
  BY MkfsPlaces DEF Covered
<1>2. CASE i = Root
  <2>1. k * BlockSize < Len(MkfsFiles)
    BY <1>1, <1>2, MkfsTableIs, MkfsFields
  <2>2. k < Direct
    BY <2>1, RootAddr
  <2>3. k \in AllPlaces
    BY <1>0, <2>2 DEF AllPlaces
  <2>4. Opener(k) \in 1..Len(MkfsFiles) /\ DataCursor[k * BlockSize] \in TakenFor(Opener(k))
    BY <2>1, RootBlockIs
  <2>5. DataCursor[k * BlockSize] # 0
    BY <2>4, TakenIs
  <2>6. MkfsAt(i, k) = DataCursor[k * BlockSize]
    BY <1>2, <2>1 DEF MkfsAt
  <2> QED
    BY <2>3, <2>5, <2>6
<1>3. CASE i \in 1..Len(MkfsFiles)
  <2>1. MkfsTable[i].size = MkfsLen(i) /\ i # Root
    BY <1>3, MkfsTableIs, MkfsFields
  <2>2. MkfsLen(i) \in Nat /\ MkfsLen(i) <= (Direct + BlockSize) * BlockSize
    BY <1>3, MkfsIs DEF MaxSupportFileSize
  <2>3. k < MkfsBlocks(i)
    BY <1>1, <1>3, <2>1, MkfsIs
  <2>4. k \in AllPlaces
    <3>1. PICK a : a = Direct + BlockSize
      OBVIOUS
    <3>2. a \in Nat /\ a * BlockSize \in Nat /\ k * BlockSize \in Nat
      BY <1>0, <3>1
    <3>3. a < k => a * BlockSize + BlockSize <= k * BlockSize
      BY <3>2, Steps
    <3>4. k * BlockSize < a * BlockSize
      BY <1>1, <2>1, <2>2, <3>1, <3>2
    <3>5. k < a
      BY <1>0, <3>2, <3>3, <3>4
    <3> QED
      BY <1>0, <3>1, <3>5 DEF AllPlaces
  <2>5. MkfsBlock(i, k) \in OwnBlocks(i)
    BY <1>3, <2>3, FileBlockIs
  <2>6. MkfsBlock(i, k) # 0
    BY <1>3, <2>5, TakenIs
  <2>7. MkfsAt(i, k) = MkfsBlock(i, k)
    BY <1>3, <2>1, <2>3 DEF MkfsAt
  <2> QED
    BY <2>4, <2>6, <2>7
<1>4. CASE i # Root /\ ~(i \in 1..Len(MkfsFiles))
  <2>1. MkfsTable[i].size = 0
    BY <1>4, MkfsTableIs, MkfsFields
  <2>2. k * BlockSize \in Nat
    BY <1>0
  <2> QED
    BY <1>1, <2>1, <2>2
<1> QED
  BY <1>2, <1>3, <1>4

(* The inode table of the image. *)
LEMMA MkfsTableOK == TableOK(MkfsTable)
<1>0. /\ BlockSize \in Nat \ {0} /\ Direct \in Nat /\ BlockNum \in Nat /\ InodeNum \in Nat \ {0}
      /\ Len(MkfsFiles) \in Nat /\ Len(MkfsFiles) < InodeNum
  BY SizeAssumption, MkfsAssumption
<1>1. MaxSupportFileSize \in Nat /\ Direct * BlockSize <= MaxSupportFileSize
  <2>1. MaxSupportFileSize = Direct * BlockSize + BlockSize * BlockSize
    BY <1>0 DEF MaxSupportFileSize
  <2>2. Direct * BlockSize \in Nat /\ BlockSize * BlockSize \in Nat
    BY <1>0
  <2> QED
    BY <2>1, <2>2
<1>2. 0 \in Inums /\ 0 \in 0..MaxSupportFileSize /\ 0 \in 0..BlockNum /\ Blocks \subseteq 0..BlockNum
  BY <1>0, <1>1 DEF Inums, Blocks
<1>3. EmptyInode \in InodeDef
  <2>1. [k \in 0..Direct |-> 0] \in [0..Direct -> 0..BlockNum]
    BY <1>2
  <2> QED
    BY <1>2, <2>1 DEF EmptyInode, InodeDef, FileType
<1>4. RootInode \in InodeDef
  <2>1. ASSUME NEW k \in 0..Direct PROVE RootInode.addr[k] \in 0..BlockNum
    <3>0. k \in Nat
      BY <1>0
    <3>1. CASE k * BlockSize < Len(MkfsFiles)
      <4>1. RootInode.addr[k] = DataCursor[k * BlockSize]
        BY <3>0, <3>1, RootAddr
      <4>2. Opener(k) \in 1..Len(MkfsFiles) /\ DataCursor[k * BlockSize] \in TakenFor(Opener(k))
        BY <3>0, <3>1, RootBlockIs
      <4>3. DataCursor[k * BlockSize] \in Blocks
        BY <4>2, TakenIs
      <4> QED
        BY <1>2, <4>1, <4>3
    <3>2. CASE ~(k * BlockSize < Len(MkfsFiles))
      BY <1>2, <3>2, RootAddr
    <3> QED
      BY <3>1, <3>2
  <2>2. RootInode.addr \in [0..Direct -> 0..BlockNum]
    BY <2>1 DEF RootInode
  <2>3. Len(MkfsFiles) \in 0..MaxSupportFileSize
    BY <1>0, <1>1, RootAddr
  <2>4. Root \in Inums /\ "directory" \in FileType
    BY <1>2 DEF Root, FileType
  <2>5. RootInode = [inode_index |-> Root, type |-> "directory", size |-> Len(MkfsFiles),
                     addr |-> RootInode.addr]
    BY DEF RootInode
  <2> QED
    BY <2>2, <2>3, <2>4, <2>5 DEF InodeDef
<1>5. ASSUME NEW i \in 1..Len(MkfsFiles) PROVE MkfsInode(i) \in InodeDef
  <2>1. ASSUME NEW b \in OwnBlocks(i) PROVE b \in 0..BlockNum
    BY <1>2, <1>5, <2>1, TakenIs
  <2>2. ASSUME NEW k \in 0..Direct PROVE MkfsInode(i).addr[k] \in 0..BlockNum
    <3>1. CASE k = Direct
      <4>1. MkfsInode(i).addr[k] = IF MkfsBlocks(i) > Direct THEN FirstBlock(i) + Direct ELSE 0
        BY <1>5, <3>1, MkfsAddr
      <4>2. MkfsBlocks(i) > Direct => FirstBlock(i) + Direct \in OwnBlocks(i)
        BY <1>5, FileBlockIs
      <4> QED
        BY <1>2, <2>1, <4>1, <4>2
    <3>2. CASE k # Direct
      <4>1. k \in 0..(Direct - 1) /\ k \in Nat
        BY <1>0, <3>2
      <4>2. MkfsInode(i).addr[k] = IF k < MkfsBlocks(i) THEN MkfsBlock(i, k) ELSE 0
        BY <1>5, <4>1, MkfsAddr
      <4>3. k < MkfsBlocks(i) => MkfsBlock(i, k) \in OwnBlocks(i)
        BY <1>5, <4>1, FileBlockIs
      <4> QED
        BY <1>2, <2>1, <4>2, <4>3
    <3> QED
      BY <3>1, <3>2
  <2>3. MkfsInode(i).addr \in [0..Direct -> 0..BlockNum]
    BY <2>2 DEF MkfsInode
  <2>4. i \in Inums
    BY <1>0, <1>5 DEF Inums
  <2>5. MkfsLen(i) \in 0..MaxSupportFileSize
    <3>1. MkfsLen(i) \in Nat /\ MkfsLen(i) <= MaxSupportFileSize
      BY <1>5, MkfsIs
    <3> QED
      BY <1>1, <3>1
  <2>6. MkfsInode(i) = [inode_index |-> i, type |-> "regular_file", size |-> MkfsLen(i),
                        addr |-> MkfsInode(i).addr]
    BY DEF MkfsInode
  <2>7. "regular_file" \in FileType
    BY DEF FileType
  <2> QED
    BY <2>3, <2>4, <2>5, <2>6, <2>7 DEF InodeDef
<1>6. ASSUME NEW i \in Inums
      PROVE  /\ MkfsTable[i] \in InodeDef
             /\ MkfsTable[i].type # "none" => MkfsTable[i].inode_index = i
  <2>1. CASE i = Root
    BY <1>4, <2>1, MkfsTableIs, MkfsFields
  <2>2. CASE i \in 1..Len(MkfsFiles)
    <3>1. MkfsTable[i] = MkfsInode(i) /\ MkfsInode(i).inode_index = i
      BY <2>2, MkfsTableIs, MkfsFields
    <3> QED
      BY <1>5, <2>2, <3>1
  <2>3. CASE i # Root /\ ~(i \in 1..Len(MkfsFiles))
    BY <1>3, <2>3, MkfsTableIs, MkfsFields
  <2> QED
    BY <2>1, <2>2, <2>3
<1>7. MkfsTable[Root].type # "none"
  BY <1>2, MkfsTableIs, MkfsFields DEF Root
<1>8. MkfsTable \in [Inums -> InodeDef]
  <2>1. MkfsTable = [i \in Inums |-> MkfsTable[i]]
    BY DEF MkfsTable
  <2> QED
    BY <1>6, <2>1
<1> QED
  BY <1>6, <1>7, <1>8 DEF TableOK

(* Only the root is a directory, and its entries are files of the image. *)
LEMMA MkfsDirs == DirsLead(MkfsTable, MkfsDisk) /\ DirsBounded(MkfsTable, 0)
<1>0. /\ InodeNum \in Nat \ {0} /\ Len(MkfsFiles) \in Nat /\ Len(MkfsFiles) < InodeNum
  BY SizeAssumption, MkfsAssumption
<1>1. ASSUME NEW i \in Inums, MkfsTable[i].type = "directory"
      PROVE  i = Root /\ MkfsTable[i] = RootInode /\ MkfsTable[i].size = Len(MkfsFiles)
  <2>1. i \notin 1..Len(MkfsFiles)
    BY <1>1, MkfsTableIs, MkfsFields
  <2>2. i = Root
    BY <1>1, <2>1, MkfsTableIs, MkfsFields
  <2> QED
    BY <1>1, <2>2, MkfsTableIs, MkfsFields
<1>2. DirsLead(MkfsTable, MkfsDisk)
  <2>1. SUFFICES ASSUME NEW i \in Inums, MkfsTable[i].type = "directory",
                        NEW x \in 0..(MkfsTable[i].size - 1)
                 PROVE  MkfsDisk[MkfsTable[i].addr[x \div BlockSize]][x % BlockSize].val \in Inums
    BY DEF DirsLead
  <2>2. MkfsTable[i] = RootInode /\ x \in 0..(Len(MkfsFiles) - 1)
    BY <1>1, <2>1
  <2>3. PICK b : b = RootInode.addr[x \div BlockSize]
    OBVIOUS
  <2>4. b \in Blocks /\ MkfsData(b)[x % BlockSize].val = x + 1
    <3>1. b \in Blocks /\ MkfsData(b)[x % BlockSize] = DirElement(MkfsFiles[x + 1].name, x + 1)
      BY <2>2, <2>3, RootCell
    <3> QED
      BY <3>1 DEF DirElement
  <2>5. MkfsDisk[b] = MkfsData(b)
    BY <2>4, MkfsDiskIs
  <2>6. x + 1 \in Inums
    BY <1>0, <2>2 DEF Inums
  <2> QED
    BY <2>2, <2>3, <2>4, <2>5, <2>6
<1>3. FreeInums(MkfsTable) = (Len(MkfsFiles) + 1)..(InodeNum - 1)
  <2>1. ASSUME NEW i \in Inums
        PROVE  MkfsTable[i].type = "none" <=> i # Root /\ ~(i \in 1..Len(MkfsFiles))
    BY <2>1, MkfsTableIs, MkfsFields
  <2> QED
    BY <1>0, <2>1 DEF FreeInums, Inums, Root
<1>4. Cardinality(FreeInums(MkfsTable)) = InodeNum - 1 - Len(MkfsFiles)
  <2>1. PICK a, b : a = Len(MkfsFiles) + 1 /\ b = InodeNum - 1
    OBVIOUS
  <2>2. a \in Int /\ b \in Int
    BY <1>0, <2>1
  <2>3. Cardinality(a..b) = IF a > b THEN 0 ELSE b - a + 1
    BY <2>2, FS_Interval
  <2> QED
    BY <1>0, <1>3, <2>1, <2>2, <2>3
<1>5. DirsBounded(MkfsTable, 0)
  <2>1. Len(MkfsFiles) + Cardinality(FreeInums(MkfsTable)) <= InodeNum - 1 + 0
    BY <1>0, <1>4
  <2> QED
    BY <1>1, <2>1 DEF DirsBounded
<1> QED
  BY <1>2, <1>5

(* The image of mkfs is in order. *)
LEMMA InitOK ==
  ASSUME NEW w \in Procs, Init
  PROVE  IInv(w)
<1>0. BlockNum \in Nat /\ Len(MkfsFiles) \in Nat /\ MaxCrashes \in Nat
  BY SizeAssumption, MkfsAssumption
<1>1. /\ bmap = 1..(DataCursor[Len(MkfsFiles)] - 1) /\ itab = MkfsTable /\ data = MkfsDisk
      /\ fds = [p \in Procs |-> [s \in FdSlots |-> EmptyFd]]
      /\ call = [p \in Procs |-> Idle] /\ crashes = 0
  BY DEF Init, MkfsTable, MkfsDisk
<1>2. bmap \in SUBSET Blocks /\ \A b \in 1..BlockNum : ByMkfs(b) => b \in bmap
  <2>1. PICK z : z = DataCursor[Len(MkfsFiles)]
    OBVIOUS
  <2>2. z \in Nat /\ z <= BlockNum + 1
    <3>1. Len(MkfsFiles) \in 0..Len(MkfsFiles)
      BY <1>0
    <3> QED
      BY <2>1, <3>1, CursorNat, MkfsAssumption
  <2>3. 1..(z - 1) \subseteq 1..BlockNum
    BY <1>0, <2>2
  <2> QED
    BY <1>1, <2>1, <2>3 DEF Blocks, ByMkfs
<1>3. DiskOK(bmap, itab, data)
  <2>1. Owned(bmap, itab, data)
    BY <1>1, MkfsOwned
  <2> QED
    BY <1>1, <1>2, <2>1, MkfsCovered, MkfsTableOK, MkfsDirs, MkfsDiskIs DEF DiskOK
<1>4. /\ FdsAgree(fds, itab)
      /\ \A p \in Procs, s \in FdSlots : fds[p][s].file_type = "none"
  BY <1>1, EmptyFds
<1>5. FrameOK(itab, Idle) /\ OnlyReads(Idle) /\ Calm(Idle)
  BY IdleIs DEF FrameOK, OnlyReads, Calm
<1>6. WriterOK(bmap, itab, data, Idle) /\ ~Writing(Idle) /\ Pending(Idle, crashes) = crashes
  <2>1. \A j \in DOMAIN Idle.inodes : j \in Inums => Idle.inodes[j] = itab[j]
    BY IdleIs
  <2>2. crashes \in Nat
    BY <1>1
  <2> QED
    BY <1>5, <2>1, <2>2, CalmWriter
<1>7. FdWriter(fds[w], itab, Idle)
  BY <1>4, <1>6 DEF FdWriter
<1>8. DirsBounded(itab, crashes)
  BY <1>1, MkfsDirs
<1>9. WriterIn(w, bmap, itab, data, call[w], fds[w], crashes)
  BY <1>1, <1>5, <1>6, <1>7, <1>8 DEF WriterIn
<1>10. OthersOK(w, itab, call)
  BY <1>1, <1>5 DEF OthersOK
<1>11. crashes \in Nat /\ crashes <= MaxCrashes
  BY <1>0, <1>1
<1> QED
  BY <1>3, <1>4, <1>9, <1>10, <1>11 DEF IInv, Good

-----------------------------------------------------------------------------
(* With one writer that is careful (CarefulSpec), and for any number of     *)
(* descriptors, the block that a place of a file leads to is marked in      *)
(* the bitmap and is at no other place of any file: at every moment, so     *)
(* between any two disk operations of WriteImpl, AllocDataBlock and Create  *)
(* too, and after a crash there.                                            *)
THEOREM BlocksStayOwned ==
  ASSUME NEW w \in Procs, OneWriter(w)
  PROVE  CarefulSpec => []BlocksOwned
<1>1. Init => IInv(w)
  BY InitOK
<1>2. IInv(w) /\ [CarefulNext]_vars => IInv(w)'
  BY NextOK
<1>3. IInv(w) => BlocksOwned
  BY DiskOwned
<1> QED
  BY <1>1, <1>2, <1>3, PTL DEF CarefulSpec

(* With one careful writer, the inode that a descriptor has copied at       *)
(* sys_open, for any number of descriptors of the writer and the readers,   *)
(* agrees with the table on every block it covers, and the writer's is the  *)
(* inode itself whenever it is not in a call; no directory walk of          *)
(* IteratorDir meets a hole and panics.                                     *)
THEOREM CopiesStayInAgreement ==
  ASSUME NEW w \in Procs, OneWriter(w)
  PROVE  CarefulSpec => []CopiesAgree
<1>1. Init => IInv(w)
  BY InitOK
<1>2. IInv(w) /\ [CarefulNext]_vars => IInv(w)'
  BY NextOK
<1>3. IInv(w) => CopiesAgree
  BY CopiesDo
<1> QED
  BY <1>1, <1>2, <1>3, PTL DEF CarefulSpec
-----------------------------------------------------------------------------
(* Names *)

\* Entry x of the directory i.
IsEntry(T, i, x) == T[i].type = "directory" /\ x < T[i].size
EntryAt(T, D, i, x) == D[T[i].addr[x \div BlockSize]][x % BlockSize]

\* A directory has a name once, and an inode outside R is named once and is not
\* free, unless it is in X.
NamesOnce(T, D, R) ==
  \A i, j \in Inums, x, y \in Nat :
    IsEntry(T, i, x) /\ IsEntry(T, j, y) /\ (i # j \/ x # y) =>
      /\ EntryAt(T, D, i, x).name = EntryAt(T, D, j, y).name => i # j
      /\ EntryAt(T, D, i, x).val = EntryAt(T, D, j, y).val => EntryAt(T, D, i, x).val \in R
NamesTaken(T, D, R, X) ==
  \A i \in Inums, x \in Nat : IsEntry(T, i, x) =>
    \/ T[EntryAt(T, D, i, x).val].type # "none"
    \/ EntryAt(T, D, i, x).val \in R \cup X

\* The directory i has no entry with the name n below x.
HasNotBelow(T, D, i, n, z) ==
  \A x \in Nat : IsEntry(T, i, x) /\ x < z => EntryAt(T, D, i, x).name # n
HasNot(T, D, i, n) == \A x \in Nat : IsEntry(T, i, x) => EntryAt(T, D, i, x).name # n

\* The inode whose entry is on disk already.
Unnamed(c) == IF c.pc = "UpdateNew" THEN {c.new} ELSE {}

Naming(c) == c.pc \in Writes /\ c.op # "write"

\* The name that the writer is about to create is not in the directory.
NameOK(T, D, c) ==
  /\ c.level \in Nat
  /\ c.pc = "IteratorDir" /\ c.level # 0 =>
       /\ c.ino = T[c.cur] /\ \E m \in Nat : c.off = m * BlockSize
       /\ HasNotBelow(T, D, c.cur, c.path[c.level], c.off)
  /\ c.pc \in {"CreateImpl", "AllocInode"} => HasNot(T, D, c.cur, c.path[c.level])
  /\ Naming(c) => /\ HasNot(T, D, c.ino.inode_index, c.path[c.level])
                  /\ c.rest[1].name = c.path[c.level]
  /\ c.pc = "UpdateSize" /\ c.op # "write" => D[c.blk][c.pos % BlockSize] = c.rest[1]

NamesIn(T, D, R, c) ==
  /\ NamesOnce(T, D, R) /\ NamesTaken(T, D, R, Unnamed(c)) /\ NameOK(T, D, c)

NInv(w) == IInv(w) /\ NamesIn(itab, data, torn, call[w])

\* Every entry has been there before.
SameEntries(T, D, T2, D2) ==
  \A i \in Inums, x \in Nat : IsEntry(T2, i, x) =>
    IsEntry(T, i, x) /\ EntryAt(T2, D2, i, x) = EntryAt(T, D, i, x)

\* No inode has become free.
NoneFreed(T, T2) == \A i \in Inums : T[i].type # "none" => T2[i].type # "none"

\* A frame that is about no name.
NameFree(c) ==
  /\ c.level \in Nat
  /\ c.pc = "IteratorDir" => c.level = 0
  /\ c.pc \notin {"CreateImpl", "AllocInode"} /\ ~Naming(c)

(* Nothing is to be said of it. *)
LEMMA FreeName ==
  ASSUME NEW T, NEW D, NEW c, NameFree(c)
  PROVE  NameOK(T, D, c)
BY DEF NameFree, NameOK, Naming, Writes

(* An entry is the number of an inode. *)
LEMMA EntryIs ==
  ASSUME NEW B, NEW T, NEW D, DiskOK(B, T, D), NEW i \in Inums, NEW x \in Nat, IsEntry(T, i, x)
  PROVE  EntryAt(T, D, i, x).val \in Inums
<1>1. T[i].size \in Nat
  BY TableIs, InodeFields DEF DiskOK
<1>2. x \in 0..(T[i].size - 1) /\ T[i].type = "directory"
  BY <1>1 DEF IsEntry
<1> QED
  BY <1>2 DEF EntryAt, DiskOK, DirsLead

(* Names are as before when the entries are. *)
LEMMA NamesSame ==
  ASSUME NEW B, NEW T, NEW D, DiskOK(B, T, D), NEW R, NEW c, NamesIn(T, D, R, c),
         NEW T2, NEW D2, SameEntries(T, D, T2, D2), NoneFreed(T, T2),
         NEW f, Unnamed(c) \subseteq Unnamed(f), NameOK(T2, D2, f)
  PROVE  NamesIn(T2, D2, R, f)
<1>1. NamesOnce(T2, D2, R)
  <2>1. SUFFICES ASSUME NEW i \in Inums, NEW j \in Inums, NEW x \in Nat, NEW y \in Nat,
                        IsEntry(T2, i, x), IsEntry(T2, j, y), i # j \/ x # y
                 PROVE  /\ EntryAt(T2, D2, i, x).name = EntryAt(T2, D2, j, y).name => i # j
                        /\ EntryAt(T2, D2, i, x).val = EntryAt(T2, D2, j, y).val =>
                             EntryAt(T2, D2, i, x).val \in R
    BY DEF NamesOnce
  <2>2. /\ IsEntry(T, i, x) /\ EntryAt(T2, D2, i, x) = EntryAt(T, D, i, x)
        /\ IsEntry(T, j, y) /\ EntryAt(T2, D2, j, y) = EntryAt(T, D, j, y)
    BY <2>1 DEF SameEntries
  <2>3. NamesOnce(T, D, R)
    BY DEF NamesIn
  <2> QED
    BY <2>1, <2>2, <2>3 DEF NamesOnce
<1>2. NamesTaken(T2, D2, R, Unnamed(f))
  <2>1. SUFFICES ASSUME NEW i \in Inums, NEW x \in Nat, IsEntry(T2, i, x)
                 PROVE  \/ T2[EntryAt(T2, D2, i, x).val].type # "none"
                        \/ EntryAt(T2, D2, i, x).val \in R \cup Unnamed(f)
    BY DEF NamesTaken
  <2>2. IsEntry(T, i, x) /\ EntryAt(T2, D2, i, x) = EntryAt(T, D, i, x)
    BY <2>1 DEF SameEntries
  <2>3. EntryAt(T, D, i, x).val \in Inums
    BY <2>2, EntryIs
  <2>4. \/ T[EntryAt(T, D, i, x).val].type # "none"
        \/ EntryAt(T, D, i, x).val \in R \cup Unnamed(c)
    BY <2>2 DEF NamesIn, NamesTaken
  <2> QED
    BY <2>2, <2>3, <2>4 DEF NoneFreed
<1> QED
  BY <1>1, <1>2 DEF NamesIn

(* A directory without a name stays without it. *)
LEMMA HasNotSame ==
  ASSUME NEW T, NEW D, NEW T2, NEW D2, SameEntries(T, D, T2, D2), NEW i \in Inums, NEW n,
         HasNot(T, D, i, n)
  PROVE  HasNot(T2, D2, i, n)
BY DEF SameEntries, HasNot

\* What the invariant says of names after a step.
NamesNext(w) == NamesIn(itab', data', torn', call'[w])

(* A step moves one process. *)
LEMMA StepIs ==
  ASSUME NEW w \in Procs, NEW p \in Procs, IInv(w), NEW f, Step(p, f)
  PROVE  /\ call'[p] = f /\ \A q \in Procs \ {p} : call'[q] = call[q]
BY DEF IInv, Good, OthersOK, Step

(* The writer takes a step that leaves the entries alone. *)
LEMMA NamesStep ==
  ASSUME NEW w \in Procs, NInv(w), NEW f, Step(w, f), torn' = torn,
         SameEntries(itab, data, itab', data'), NoneFreed(itab, itab'),
         Unnamed(call[w]) \subseteq Unnamed(f), NameOK(itab', data', f)
  PROVE  NamesNext(w)
<1>1. IInv(w) /\ NamesIn(itab, data, torn, call[w])
  BY DEF NInv
<1>2. call'[w] = f
  BY <1>1, StepIs
<1>3. DiskOK(bmap, itab, data)
  BY <1>1 DEF IInv, Good
<1>4. NamesIn(itab', data', torn, f)
  BY <1>1, <1>3, NamesSame
<1> QED
  BY <1>2, <1>4 DEF NamesNext

(* A step that leaves the disk alone. *)
LEMMA QuietNames ==
  ASSUME NEW w \in Procs, NInv(w), NEW p \in Procs, NEW f, Step(p, f),
         UNCHANGED <<itab, data, torn>>,
         p = w => Unnamed(call[w]) \subseteq Unnamed(f) /\ NameOK(itab, data, f)
  PROVE  NamesNext(w)
<1>1. IInv(w) /\ NamesIn(itab, data, torn, call[w])
  BY DEF NInv
<1>2. SameEntries(itab, data, itab', data') /\ NoneFreed(itab, itab')
  BY DEF SameEntries, NoneFreed
<1>3. CASE p = w
  <2>1. NameOK(itab', data', f)
    BY <1>3
  <2> QED
    BY <1>2, <1>3, <2>1, NamesStep
<1>4. CASE p # w
  <2>1. call'[w] = call[w]
    BY <1>1, <1>4, StepIs
  <2> QED
    BY <1>1, <2>1 DEF NamesNext
<1> QED
  BY <1>3, <1>4

(* Write returns with a frame that is about no name. *)
LEMMA ReturnsFree ==
  ASSUME NEW p, NEW c, WriteReturns(p, c), DOMAIN c = Fields, c.level \in Nat
  PROVE  \E f : Step(p, f) /\ NameFree(f)
<1>1. CASE c.op # "write"
  <2>1. PICK f : f = [c EXCEPT !.pc = "UpdateNew"]
    OBVIOUS
  <2>2. Step(p, f)
    BY <1>1, <2>1 DEF WriteReturns
  <2>3. f.pc = "UpdateNew" /\ f.level = c.level
    BY <2>1 DEF Fields
  <2>4. NameFree(f)
    BY <2>3 DEF NameFree, Naming, Writes
  <2> QED
    BY <2>2, <2>4
<1>2. CASE c.op = "write"
  <2>1. PICK t : t = c.res + c.done
    OBVIOUS
  <2>2. CASE Step(p, [c EXCEPT !.pc = "WriteImpl", !.rest = Head(c.bufs),
                           !.bufs = Tail(c.bufs), !.pos = c.start, !.res = t, !.done = 0])
    <3>1. PICK f, b, l : /\ b = Head(c.bufs) /\ l = Tail(c.bufs)
                         /\ f = [c EXCEPT !.pc = "WriteImpl", !.rest = b, !.bufs = l,
                                   !.pos = c.start, !.res = t, !.done = 0]
      OBVIOUS
    <3>2. f.pc = "WriteImpl" /\ f.op = c.op /\ f.level = c.level
      BY <3>1 DEF Fields
    <3>3. NameFree(f)
      BY <1>2, <3>2 DEF NameFree, Naming
    <3> QED
      BY <2>2, <3>1, <3>3
  <2>3. CASE Step(p, Returned(c, t))
    <3>1. PICK f : f = Returned(c, t)
      OBVIOUS
    <3>2. f.pc = "ret" /\ f.level = 0
      BY <3>1, IdleIs DEF Returned, Fields
    <3>3. NameFree(f)
      BY <3>2 DEF NameFree, Naming, Writes
    <3> QED
      BY <2>3, <3>1, <3>3
  <2> QED
    BY <1>2, <2>1, <2>2, <2>3 DEF WriteReturns
<1> QED
  BY <1>1, <1>2

(* A call that is over is about no name. *)
LEMMA ReturnedFree ==
  ASSUME NEW c, NEW r
  PROVE  NameFree(Returned(c, r))
<1>1. PICK f : f = Returned(c, r)
  OBVIOUS
<1>2. f.pc = "ret" /\ f.level = 0
  BY <1>1, IdleIs DEF Returned, Fields
<1>3. NameFree(f)
  BY <1>2 DEF NameFree, Naming, Writes
<1> QED
  BY <1>1, <1>3

(* A call begins. *)
LEMMA EnterNames ==
  ASSUME NEW w \in Procs, NInv(w), NEW p \in Procs, Enter(p), NEW f, Step(p, f), NameFree(f)
  PROVE  NamesNext(w)
<1>1. UNCHANGED <<itab, data, torn>> /\ call[p].pc \in {"user", "ret"}
  BY DEF Enter, disk
<1>2. Unnamed(call[p]) = {}
  BY <1>1 DEF Unnamed
<1>3. NameOK(itab, data, f)
  BY FreeName
<1> QED
  BY <1>1, <1>2, <1>3, QuietNames

(* sys_write begins. *)
LEMMA CallWriteNames ==
  ASSUME NEW w \in Procs, NInv(w), NEW p \in Procs, CallWrite(p)
  PROVE  NamesNext(w)
<1>1. PICK s \in FdSlots : \E bufs \in WriteBufs(p, fds[p][s].file_type) :
        LET fd == fds[p][s]
            c == [Idle EXCEPT !.pc = "WriteImpl", !.op = "write", !.fd = s,
                    !.ino = fd.inode, !.start = fd.offset, !.pos = fd.offset,
                    !.rest = Head(bufs), !.bufs = Tail(bufs), !.arg = bufs]
        IN  Step(p, c) \/ WriteReturns(p, c)
  BY Zenon DEF CallWrite
<1>2. PICK bufs : Step(p, [Idle EXCEPT !.pc = "WriteImpl", !.op = "write", !.fd = s,
                    !.ino = fds[p][s].inode, !.start = fds[p][s].offset, !.pos = fds[p][s].offset,
                    !.rest = Head(bufs), !.bufs = Tail(bufs), !.arg = bufs])
               \/ WriteReturns(p, [Idle EXCEPT !.pc = "WriteImpl", !.op = "write", !.fd = s,
                    !.ino = fds[p][s].inode, !.start = fds[p][s].offset, !.pos = fds[p][s].offset,
                    !.rest = Head(bufs), !.bufs = Tail(bufs), !.arg = bufs])
  BY <1>1, Zenon
<1>3. PICK n, x, b, l : /\ n = fds[p][s].inode /\ x = fds[p][s].offset
                        /\ b = Head(bufs) /\ l = Tail(bufs)
  OBVIOUS
<1>4. PICK c : c = [Idle EXCEPT !.pc = "WriteImpl", !.op = "write", !.fd = s, !.ino = n,
                      !.start = x, !.pos = x, !.rest = b, !.bufs = l, !.arg = bufs]
  OBVIOUS
<1>5. Step(p, c) \/ WriteReturns(p, c)
  <2>1. c = [Idle EXCEPT !.pc = "WriteImpl", !.op = "write", !.fd = s,
                    !.ino = fds[p][s].inode, !.start = fds[p][s].offset, !.pos = fds[p][s].offset,
                    !.rest = Head(bufs), !.bufs = Tail(bufs), !.arg = bufs]
    BY <1>3, <1>4
  <2> QED
    BY <1>2, <2>1, Zenon
<1>6. DOMAIN c = Fields /\ c.pc = "WriteImpl" /\ c.op = "write" /\ c.level = 0
  BY <1>4, IdleIs DEF Fields
<1>7. NameFree(c)
  BY <1>6 DEF NameFree, Naming
<1>8. \E f : Step(p, f) /\ NameFree(f)
  BY <1>5, <1>6, <1>7, ReturnsFree
<1>9. Enter(p)
  BY DEF CallWrite
<1> QED
  BY <1>8, <1>9, EnterNames

(* sys_create, sys_mkdir and sys_mknod begin. *)
LEMMA CallCreateNames ==
  ASSUME NEW w \in Procs, NInv(w), NEW p \in Procs, NEW op, NEW type, CallCreate(p, op, type)
  PROVE  NamesNext(w)
<1>1. PICK x, f : /\ f = [Idle EXCEPT !.pc = "GetInode", !.op = op, !.type = type, !.path = x,
                                      !.level = 1, !.left = 1, !.cur = Root]
                  /\ \/ Step(p, f)
                     \/ InstallFd(p, f, type, EmptyInode)
                     \/ Step(p, Returned(f, 0))
  BY Zenon DEF CallCreate
<1>2. Enter(p)
  BY DEF CallCreate
<1>3. CASE Step(p, f)
  <2>1. f.pc = "GetInode" /\ f.level = 1
    BY <1>1, IdleIs DEF Fields
  <2>2. NameFree(f)
    BY <2>1 DEF NameFree, Naming, Writes
  <2> QED
    BY <1>2, <1>3, <2>2, EnterNames
<1>4. CASE \E r : Step(p, Returned(f, r))
  BY <1>2, <1>4, ReturnedFree, EnterNames
<1>5. InstallFd(p, f, type, EmptyInode) => \E r : Step(p, Returned(f, r))
  BY DEF InstallFd
<1> QED
  BY <1>1, <1>3, <1>4, <1>5

(* The calls. *)
LEMMA CallsNames ==
  ASSUME NEW w \in Procs, NInv(w), NEW p \in Procs, Calls(p)
  PROVE  NamesNext(w)
<1>1. ASSUME NEW f, f.pc \in {"user", "GetInode", "Read"}, f.level \in Nat, Step(p, f), Enter(p)
      PROVE  NamesNext(w)
  <2>1. NameFree(f)
    BY <1>1 DEF NameFree, Naming, Writes
  <2> QED
    BY <1>1, <2>1, EnterNames
<1>2. ASSUME NEW op, CallOpen(p, op) PROVE NamesNext(w)
  <2>1. PICK x, l : Step(p, [Idle EXCEPT !.pc = "GetInode", !.op = op, !.path = x,
                            !.left = l, !.cur = Root])
    BY <1>2 DEF CallOpen
  <2>2. PICK f : f = [Idle EXCEPT !.pc = "GetInode", !.op = op, !.path = x, !.left = l, !.cur = Root]
    OBVIOUS
  <2>3. f.pc = "GetInode" /\ f.level = 0
    BY <2>2, IdleIs DEF Fields
  <2>4. Step(p, f) /\ Enter(p)
    BY <1>2, <2>1, <2>2 DEF CallOpen
  <2> QED
    BY <1>1, <2>3, <2>4
<1>3. ASSUME NEW op, NEW type, CallCreate(p, op, type) PROVE NamesNext(w)
  BY <1>3, CallCreateNames
<1>4. CASE CallClose(p)
  BY <1>1, <1>4, IdleIs DEF CallClose
<1>5. CASE CallRead(p)
  <2>1. PICK s, n, x, h, l, r :
          Step(p, [Idle EXCEPT !.pc = "Read", !.op = "read", !.fd = s, !.ino = n, !.start = x,
                     !.pos = x, !.first = h, !.bufs = l, !.left = r])
    BY <1>5 DEF CallRead
  <2>2. PICK f : f = [Idle EXCEPT !.pc = "Read", !.op = "read", !.fd = s, !.ino = n, !.start = x,
                        !.pos = x, !.first = h, !.bufs = l, !.left = r]
    OBVIOUS
  <2>3. f.pc = "Read" /\ f.level = 0
    BY <2>2, IdleIs DEF Fields
  <2>4. Step(p, f) /\ Enter(p)
    BY <1>5, <2>1, <2>2 DEF CallRead
  <2> QED
    BY <1>1, <2>3, <2>4
<1> QED
  BY <1>2, <1>3, <1>4, <1>5 DEF Calls, SysMkdir, SysMknod

(* OpenImpl has found nothing in a directory without the name. *)
LEMMA NotFoundNames ==
  ASSUME NEW p, NEW c, NotFound(p, c), DOMAIN c = Fields, c.level \in Nat,
         c.level # 0 => HasNot(itab, data, c.cur, c.path[c.level])
  PROVE  \E f : Step(p, f) /\ NameOK(itab, data, f)
<1>1. CASE c.level = 0
  <2>1. Step(p, Returned(c, -1))
    BY <1>1 DEF NotFound
  <2> QED
    BY <2>1, ReturnedFree, FreeName
<1>2. CASE c.level # 0
  <2>1. PICK f : f = [c EXCEPT !.pc = "CreateImpl"]
    OBVIOUS
  <2>2. f.pc = "CreateImpl" /\ f.level = c.level /\ f.cur = c.cur /\ f.path = c.path
    BY <2>1 DEF Fields
  <2>3. Step(p, f)
    BY <1>2, <2>1 DEF NotFound
  <2>4. NameOK(itab, data, f)
    BY <1>2, <2>2 DEF NameOK, Naming, Writes
  <2> QED
    BY <2>3, <2>4
<1> QED
  BY <1>1, <1>2

(* OpenImpl returns: the call is over, or goes on with the next name. *)
LEMMA FoundNames ==
  ASSUME NEW p, NEW c, NEW n, Found(p, c, n), DOMAIN c = Fields, c.level \in Nat
  PROVE  \E f : Step(p, f) /\ NameFree(f)
<1>1. ASSUME NEW t, NEW r, r = Returned(c, t), Step(p, r) PROVE \E f : Step(p, f) /\ NameFree(f)
  BY <1>1, ReturnedFree
<1>2. ASSUME NEW t, InstallFd(p, c, t, n) PROVE \E f : Step(p, f) /\ NameFree(f)
  <2>1. PICK r, m : r = Returned(c, m) /\ Step(p, r)
    BY <1>2 DEF InstallFd
  <2> QED
    BY <1>1, <2>1
<1>3. CASE Step(p, NextLevel(c))
  <2>1. PICK f : f = NextLevel(c)
    OBVIOUS
  <2>2. f.pc = "GetInode" /\ f.level = c.level + 1
    BY <2>1 DEF Fields, NextLevel
  <2>3. NameFree(f)
    BY <2>2 DEF NameFree, Naming, Writes
  <2> QED
    BY <1>3, <2>1, <2>3
<1>4. \/ \E t : InstallFd(p, c, t, n)
      \/ \E t : Step(p, Returned(c, t))
      \/ Step(p, NextLevel(c))
  BY Zenon DEF Found, SysChdir, CreateFinds
<1> QED
  BY <1>1, <1>2, <1>3, <1>4

(* OpenImpl reads an inode. *)
LEMMA GetInodeNames ==
  ASSUME NEW w \in Procs, NInv(w), NEW p \in Procs, GetInode(p)
  PROVE  NamesNext(w)
<1>1. PICK c, n : c = call[p] /\ n = itab[c.cur]
  OBVIOUS
<1>2. IInv(w) /\ NamesIn(itab, data, torn, call[w])
  BY DEF NInv
<1>3. DOMAIN c = Fields /\ c.pc = "GetInode" /\ UNCHANGED <<itab, data, torn>>
  BY <1>1, <1>2, CalmIs DEF FrameOK, GetInode, disk
<1>4. p = w => c.level \in Nat /\ Unnamed(call[w]) = {}
  BY <1>1, <1>2, <1>3 DEF NamesIn, NameOK, Unnamed
<1>5. \/ Found(p, c, n)
      \/ n.type # "directory" /\ NotFound(p, c)
      \/ Step(p, [c EXCEPT !.pc = "IteratorDir", !.ino = n, !.off = 0])
  <2>1. \/ Found(p, call[p], itab[call[p].cur])
        \/ itab[call[p].cur].type # "directory" /\ NotFound(p, call[p])
        \/ Step(p, [call[p] EXCEPT !.pc = "IteratorDir", !.ino = itab[call[p].cur], !.off = 0])
    BY Zenon DEF GetInode
  <2>2. CASE Found(p, call[p], itab[call[p].cur])
    BY <1>1, <2>2 DEF Found, SysChdir, CreateFinds, InstallFd
  <2>3. CASE itab[call[p].cur].type # "directory" /\ NotFound(p, call[p])
    BY <1>1, <2>3 DEF NotFound
  <2> QED
    BY <1>1, <2>1, <2>2, <2>3 DEF Step
<1>6. CASE p # w
  <2>1. \E f : Step(p, f)
    <3>1. Found(p, c, n) => \E f : Step(p, f)
      BY Zenon DEF Found, SysChdir, CreateFinds, InstallFd
    <3>2. NotFound(p, c) => \E f : Step(p, f)
      BY Zenon DEF NotFound
    <3> QED
      BY <1>5, <3>1, <3>2
  <2> QED
    BY <1>3, <1>6, <2>1, QuietNames
<1>7. CASE p = w
  <2>1. \E f : Step(p, f) /\ NameOK(itab, data, f)
    <3>1. CASE Found(p, c, n)
      BY <1>3, <1>4, <1>7, <3>1, FoundNames, FreeName
    <3>2. CASE n.type # "directory" /\ NotFound(p, c)
      <4>1. HasNot(itab, data, c.cur, c.path[c.level])
        BY <1>1, <3>2 DEF HasNot, IsEntry
      <4> QED
        BY <1>3, <1>4, <1>7, <3>2, <4>1, NotFoundNames
    <3>3. CASE Step(p, [c EXCEPT !.pc = "IteratorDir", !.ino = n, !.off = 0])
      <4>1. PICK f : f = [c EXCEPT !.pc = "IteratorDir", !.ino = n, !.off = 0]
        OBVIOUS
      <4>2. /\ f.pc = "IteratorDir" /\ f.level = c.level /\ f.cur = c.cur /\ f.ino = n
            /\ f.off = 0 /\ f.path = c.path
        BY <1>3, <4>1 DEF Fields
      <4>3. f.off = 0 * BlockSize /\ HasNotBelow(itab, data, f.cur, f.path[f.level], f.off)
        BY <4>2, SizeAssumption DEF HasNotBelow
      <4>4. NameOK(itab, data, f)
        BY <1>1, <1>4, <1>7, <4>2, <4>3 DEF NameOK, Naming, Writes
      <4> QED
        BY <3>3, <4>1, <4>4
    <3> QED
      BY <1>5, <3>1, <3>2, <3>3
  <2> QED
    BY <1>3, <1>4, <1>7, <2>1, QuietNames
<1> QED
  BY <1>6, <1>7

(* Read. *)
LEMMA ReadNames ==
  ASSUME NEW w \in Procs, NInv(w), NEW p \in Procs, Read(p)
  PROVE  NamesNext(w)
<1>1. PICK c : c = call[p]
  OBVIOUS
<1>2. IInv(w) /\ NamesIn(itab, data, torn, call[w])
  BY DEF NInv
<1>3. DOMAIN c = Fields /\ c.pc \in {"Read", "ReadData"} /\ UNCHANGED <<itab, data, torn>>
  BY <1>1, <1>2, CalmIs DEF FrameOK, Read, disk
<1>4. p = w => c.level \in Nat /\ Unnamed(call[w]) = {}
  BY <1>1, <1>2, <1>3 DEF NamesIn, NameOK, Unnamed
<1>5. \/ \E r : Step(p, Returned(c, r))
      \/ \E h, l, t, d : Step(p, [c EXCEPT !.first = h, !.bufs = l, !.done = 0, !.left = t, !.ind = d])
      \/ \E d : Step(p, [c EXCEPT !.pc = "ReadData", !.ind = d])
      \/ \E n, b : Step(p, [c EXCEPT !.pc = "Read", !.left = @ - n, !.pos = @ + n, !.done = @ + n,
                                     !.arg = @ \o b])
  <2>1. CASE ReadReturns(p, call[p])
    BY <1>1, <2>1 DEF ReadReturns
  <2>2. CASE \E d : Step(p, [call[p] EXCEPT !.pc = "ReadData", !.ind = d])
    BY <1>1, <2>2
  <2>3. CASE \E n, b : Step(p, [call[p] EXCEPT !.pc = "Read", !.left = @ - n, !.pos = @ + n,
                                               !.done = @ + n, !.arg = @ \o b])
    BY <1>1, <2>3
  <2> QED
    BY <2>1, <2>2, <2>3, Zenon DEF Read
<1>6. \E f : Step(p, f) /\ (p = w => NameOK(itab, data, f))
  <2>1. ASSUME NEW f, f.pc \in {"Read", "ReadData"}, f.level = c.level PROVE p = w => NameOK(itab, data, f)
    <3>1. p = w => NameFree(f)
      BY <1>4, <2>1 DEF NameFree, Naming, Writes
    <3> QED
      BY <3>1, FreeName
  <2>2. CASE \E r : Step(p, Returned(c, r))
    BY <2>2, ReturnedFree, FreeName
  <2>3. CASE \E h, l, t, d : Step(p, [c EXCEPT !.first = h, !.bufs = l, !.done = 0, !.left = t,
                                              !.ind = d])
    <3>0. PICK h, l, t, d : Step(p, [c EXCEPT !.first = h, !.bufs = l, !.done = 0, !.left = t,
                                              !.ind = d])
      BY <2>3
    <3>1. PICK f : f = [c EXCEPT !.first = h, !.bufs = l, !.done = 0, !.left = t, !.ind = d]
      OBVIOUS
    <3>2. f.pc = c.pc /\ f.level = c.level
      BY <1>3, <3>1 DEF Fields
    <3>3. p = w => NameOK(itab, data, f)
      BY <1>3, <2>1, <3>2
    <3> QED
      BY <3>0, <3>1, <3>3
  <2>4. CASE \E d : Step(p, [c EXCEPT !.pc = "ReadData", !.ind = d])
    <3>1. PICK f, d : Step(p, f) /\ f = [c EXCEPT !.pc = "ReadData", !.ind = d]
      BY <2>4
    <3>2. f.pc = "ReadData" /\ f.level = c.level
      BY <1>3, <3>1 DEF Fields
    <3>3. p = w => NameOK(itab, data, f)
      BY <1>3, <2>1, <3>2
    <3> QED
      BY <3>1, <3>3
  <2>5. CASE \E n, b : Step(p, [c EXCEPT !.pc = "Read", !.left = @ - n, !.pos = @ + n,
                                       !.done = @ + n, !.arg = @ \o b])
    <3>1. PICK f, n, b : /\ Step(p, f)
            /\ f = [c EXCEPT !.pc = "Read", !.left = @ - n, !.pos = @ + n, !.done = @ + n, !.arg = @ \o b]
      BY <2>5
    <3>2. f.pc = "Read" /\ f.level = c.level
      BY <1>3, <3>1 DEF Fields
    <3>3. p = w => NameOK(itab, data, f)
      BY <1>3, <2>1, <3>2
    <3> QED
      BY <3>1, <3>3
  <2> QED
    BY <1>5, <2>2, <2>3, <2>4, <2>5
<1> QED
  BY <1>3, <1>4, <1>6, QuietNames

(* A block of a directory without the name. *)
LEMMA NoMatch ==
  ASSUME NEW c, c.level \in Nat \ {0}, c.cur \in Inums, TableOK(itab), c.ino = itab[c.cur],
         NEW m \in Nat, c.off = m * BlockSize, Matches(c) = {},
         HasNotBelow(itab, data, c.cur, c.path[c.level], c.off)
  PROVE  /\ HasNotBelow(itab, data, c.cur, c.path[c.level], c.off + BlockSize)
         /\ c.off + BlockSize = (m + 1) * BlockSize
<1>1. BlockSize \in Nat \ {0} /\ itab[c.cur].size \in Nat
  BY SizeAssumption, TableIs, InodeFields
<1>2. c.off \in Nat /\ c.off + BlockSize = (m + 1) * BlockSize
  BY <1>1
<1>3. c.off \div BlockSize = m
  BY <1>1, <1>2, PlaceIs
<1>4. Target(c) = c.path[c.level]
  BY DEF Target
<1>5. ASSUME NEW x \in Nat, IsEntry(itab, c.cur, x), x < c.off + BlockSize
      PROVE  EntryAt(itab, data, c.cur, x).name # c.path[c.level]
  <2>1. CASE x < c.off
    BY <1>5, <2>1 DEF HasNotBelow
  <2>2. CASE x >= c.off
    <3>1. x \div BlockSize = m
      BY <1>1, <1>2, <1>5, <2>2, PlaceIs
    <3>2. x \in c.off..(c.ino.size - 1)
      BY <1>1, <1>2, <1>5, <2>2 DEF IsEntry
    <3>3. data[c.ino.addr[c.off \div BlockSize]][x % BlockSize].name # Target(c)
      BY <1>3, <3>1, <3>2 DEF Matches
    <3> QED
      BY <1>3, <1>4, <3>1, <3>3 DEF EntryAt
  <2> QED
    BY <1>2, <1>5, <2>1, <2>2
<1> QED
  BY <1>2, <1>5 DEF HasNotBelow

(* IteratorDir looks at a block of a directory. *)
LEMMA IteratorDirNames ==
  ASSUME NEW w \in Procs, NInv(w), NEW p \in Procs, IteratorDir(p)
  PROVE  NamesNext(w)
<1>1. PICK c : c = call[p]
  OBVIOUS
<1>2. IInv(w) /\ NamesIn(itab, data, torn, call[w])
  BY DEF NInv
<1>3. /\ DOMAIN c = Fields /\ c.pc = "IteratorDir" /\ UNCHANGED <<itab, data, torn>>
      /\ TableOK(itab) /\ WalkOK(itab, c)
  BY <1>1, <1>2, CalmIs DEF FrameOK, IteratorDir, disk
<1>4. p = w => NameOK(itab, data, c) /\ Unnamed(call[w]) = {}
  BY <1>1, <1>2, <1>3 DEF NamesIn, Unnamed
<1>5. \/ c.off >= c.ino.size /\ NotFound(p, c)
      \/ Step(p, [c EXCEPT !.pc = "panic"])
      \/ Matches(c) = {} /\ Step(p, [c EXCEPT !.off = @ + BlockSize])
      \/ \E v : Step(p, [c EXCEPT !.pc = "GetInode", !.left = @ - 1, !.cur = v])
  <2>1. PICK v : v = data[c.ino.addr[c.off \div BlockSize]][Min(Matches(c)) % BlockSize].val
    OBVIOUS
  <2>2. \/ call[p].off >= call[p].ino.size /\ NotFound(p, call[p])
        \/ Step(p, IF call[p].ino.addr[call[p].off \div BlockSize] = 0 THEN [call[p] EXCEPT !.pc = "panic"]
                   ELSE IF Matches(call[p]) = {} THEN [call[p] EXCEPT !.off = @ + BlockSize]
                   ELSE [call[p] EXCEPT !.pc = "GetInode", !.left = @ - 1,
                       !.cur = data[call[p].ino.addr[call[p].off \div BlockSize]]
                                   [Min(Matches(call[p])) % BlockSize].val])
    BY Zenon DEF IteratorDir
  <2>3. \/ c.off >= c.ino.size /\ NotFound(p, c)
        \/ Step(p, IF c.ino.addr[c.off \div BlockSize] = 0 THEN [c EXCEPT !.pc = "panic"]
                   ELSE IF Matches(c) = {} THEN [c EXCEPT !.off = @ + BlockSize]
                   ELSE [c EXCEPT !.pc = "GetInode", !.left = @ - 1, !.cur = v])
    BY <1>1, <2>1, <2>2, Zenon
  <2> QED
    BY <2>3
<1>6. CASE p # w
  <2>1. \E f : Step(p, f)
    <3>1. NotFound(p, c) => \E f : Step(p, f)
      BY Zenon DEF NotFound
    <3> QED
      BY <1>5, <3>1
  <2> QED
    BY <1>3, <1>6, <2>1, QuietNames
<1>7. CASE p = w
  <2>0. c.level \in Nat /\ c.cur \in Inums
    BY <1>3, <1>4, <1>7 DEF NameOK, WalkOK
  <2>1. c.level # 0 =>
          /\ c.ino = itab[c.cur] /\ \E m \in Nat : c.off = m * BlockSize
          /\ HasNotBelow(itab, data, c.cur, c.path[c.level], c.off)
    BY <1>3, <1>4, <1>7 DEF NameOK
  <2>2. \E f : Step(p, f) /\ NameOK(itab, data, f)
    <3>1. CASE c.off >= c.ino.size /\ NotFound(p, c)
      <4>1. ASSUME c.level # 0 PROVE HasNot(itab, data, c.cur, c.path[c.level])
        <5>1. itab[c.cur].size \in Nat /\ c.off \in Nat
          BY <1>3, <2>0, TableIs, InodeFields DEF WalkOK
        <5> QED
          BY <2>1, <3>1, <4>1, <5>1 DEF HasNot, HasNotBelow, IsEntry
      <4> QED
        BY <1>3, <2>0, <3>1, <4>1, NotFoundNames
    <3>2. CASE Step(p, [c EXCEPT !.pc = "panic"])
      <4>1. PICK f : f = [c EXCEPT !.pc = "panic"]
        OBVIOUS
      <4>2. f.pc = "panic" /\ f.level = c.level
        BY <1>3, <4>1 DEF Fields
      <4>3. NameFree(f)
        BY <2>0, <4>2 DEF NameFree, Naming, Writes
      <4> QED
        BY <3>2, <4>1, <4>3, FreeName
    <3>3. CASE Matches(c) = {} /\ Step(p, [c EXCEPT !.off = @ + BlockSize])
      <4>1. PICK f : f = [c EXCEPT !.off = @ + BlockSize]
        OBVIOUS
      <4>2. /\ f.pc = "IteratorDir" /\ f.level = c.level /\ f.cur = c.cur /\ f.ino = c.ino
            /\ f.path = c.path /\ f.off = c.off + BlockSize
        BY <1>3, <4>1 DEF Fields
      <4>3. c.level # 0 =>
              /\ HasNotBelow(itab, data, c.cur, c.path[c.level], c.off + BlockSize)
              /\ \E m \in Nat : c.off + BlockSize = m * BlockSize
        BY <1>3, <2>0, <2>1, <3>3, NoMatch
      <4>4. NameOK(itab, data, f)
        BY <2>0, <2>1, <4>2, <4>3 DEF NameOK, Naming, Writes
      <4> QED
        BY <3>3, <4>1, <4>4
    <3>4. CASE \E v : Step(p, [c EXCEPT !.pc = "GetInode", !.left = @ - 1, !.cur = v])
      <4>1. PICK v : Step(p, [c EXCEPT !.pc = "GetInode", !.left = @ - 1, !.cur = v])
        BY <3>4
      <4>2. PICK f : f = [c EXCEPT !.pc = "GetInode", !.left = @ - 1, !.cur = v]
        OBVIOUS
      <4>3. f.pc = "GetInode" /\ f.level = c.level
        BY <1>3, <4>2 DEF Fields
      <4>4. NameFree(f)
        BY <2>0, <4>3 DEF NameFree, Naming, Writes
      <4> QED
        BY <4>1, <4>2, <4>4, FreeName
    <3> QED
      BY <1>5, <3>1, <3>2, <3>3, <3>4
  <2> QED
    BY <1>3, <1>4, <1>7, <2>2, QuietNames
<1> QED
  BY <1>6, <1>7

\* The write of an entry goes on.
SameName(c, f) ==
  /\ f.pc \in Writes \ {"UpdateSize"} /\ f.op = c.op /\ f.level = c.level /\ f.path = c.path
  /\ f.rest = c.rest /\ f.ino.inode_index = c.ino.inode_index

(* It is about the same name. *)
LEMMA NameGoesOn ==
  ASSUME NEW T, NEW D, NEW c, NameOK(T, D, c), c.pc \in Writes, NEW f, SameName(c, f)
  PROVE  NameOK(T, D, f)
BY DEF SameName, NameOK, Naming, Writes

(* A step of the writer in a write that leaves inodes and blocks alone. *)
LEMMA WriteNames ==
  ASSUME NEW w \in Procs, NInv(w), call[w].pc \in Writes, UNCHANGED <<itab, data, torn>>,
         NEW f, Step(w, f), NameFree(f) \/ SameName(call[w], f)
  PROVE  NamesNext(w)
<1>1. NameOK(itab, data, call[w])
  BY DEF NInv, NamesIn
<1>2. Unnamed(call[w]) = {}
  BY DEF Unnamed, Writes
<1>3. NameOK(itab, data, f)
  BY <1>1, FreeName, NameGoesOn
<1> QED
  BY <1>2, <1>3, QuietNames

(* CreateImpl reads the directory. *)
LEMMA CreateImplNames ==
  ASSUME NEW w \in Procs, NInv(w), NEW p \in Procs, CreateImpl(p)
  PROVE  NamesNext(w)
<1>1. PICK c : c = call[p]
  OBVIOUS
<1>2. IInv(w) /\ NamesIn(itab, data, torn, call[w])
  BY DEF NInv
<1>3. c.pc = "CreateImpl" /\ UNCHANGED <<itab, data, torn>> /\ ~Calm(call[p])
  BY <1>1 DEF CreateImpl, Calm, disk
<1>4. p = w /\ DOMAIN c = Fields /\ NameOK(itab, data, c) /\ Unnamed(call[w]) = {}
  BY <1>1, <1>2, <1>3, WriterIs DEF NamesIn, Unnamed
<1>5. c.level \in Nat /\ HasNot(itab, data, c.cur, c.path[c.level])
  BY <1>3, <1>4 DEF NameOK
<1>6. CASE itab[c.cur].type = "directory"
  <2>1. PICK f : f = [c EXCEPT !.pc = "AllocInode", !.ino = itab[c.cur], !.off = 0]
    OBVIOUS
  <2>2. f.pc = "AllocInode" /\ f.level = c.level /\ f.cur = c.cur /\ f.path = c.path
    BY <1>4, <2>1 DEF Fields
  <2>3. Step(p, f)
    BY <1>1, <1>6, <2>1 DEF CreateImpl
  <2>4. NameOK(itab, data, f)
    BY <1>5, <2>2 DEF NameOK, Naming, Writes
  <2> QED
    BY <1>3, <1>4, <2>3, <2>4, QuietNames
<1>7. CASE itab[c.cur].type # "directory"
  <2>1. Step(p, Returned(c, -1))
    BY <1>1, <1>7 DEF CreateImpl
  <2>2. NameOK(itab, data, Returned(c, -1))
    BY ReturnedFree, FreeName
  <2> QED
    BY <1>3, <1>4, <2>1, <2>2, QuietNames
<1> QED
  BY <1>6, <1>7

(* AllocInode gives an inode to the name. *)
LEMMA AllocInodeNames ==
  ASSUME NEW w \in Procs, NInv(w), NEW p \in Procs, AllocInode(p)
  PROVE  NamesNext(w)
<1>1. PICK c, S : c = call[p] /\ S = FreeInodes(c.off)
  OBVIOUS
<1>2. IInv(w) /\ NamesIn(itab, data, torn, call[w])
  BY DEF NInv
<1>3. c.pc = "AllocInode" /\ UNCHANGED <<itab, data, torn>> /\ ~Calm(call[p])
  BY <1>1 DEF AllocInode, Calm, disk
<1>4. /\ p = w /\ DOMAIN c = Fields /\ NameOK(itab, data, c) /\ Unnamed(call[w]) = {}
      /\ WriterOK(bmap, itab, data, c) /\ TableOK(itab)
  BY <1>1, <1>2, <1>3, WriterIs DEF NamesIn, Unnamed
<1>5. c.level \in Nat /\ HasNot(itab, data, c.cur, c.path[c.level])
  BY <1>3, <1>4 DEF NameOK
<1>6. /\ c.level # 0 /\ c.cur \in Inums /\ c.ino = itab[c.cur] /\ c.ino.type = "directory"
  BY <1>3, <1>4 DEF WriterOK
<1>7. c.ino.inode_index = c.cur /\ Target(c) = c.path[c.level]
  BY <1>4, <1>5, <1>6, TableIs DEF Target
<1>8. Step(p, IF S # {}
              THEN [c EXCEPT !.pc = "WriteImpl", !.new = Min(S),
                      !.rest = <<DirElement(Target(c), Min(S))>>, !.pos = c.ino.size]
              ELSE IF c.off < InodeBlock(InodeNum - 1) THEN [c EXCEPT !.off = @ + 1]
              ELSE Returned(c, -1))
  <2>1. Step(p, IF FreeInodes(call[p].off) # {}
             THEN [call[p] EXCEPT !.pc = "WriteImpl", !.new = Min(FreeInodes(call[p].off)),
                     !.rest = <<DirElement(Target(call[p]), Min(FreeInodes(call[p].off)))>>,
                     !.pos = call[p].ino.size]
             ELSE IF call[p].off < InodeBlock(InodeNum - 1) THEN [call[p] EXCEPT !.off = @ + 1]
             ELSE Returned(call[p], -1))
    BY Zenon DEF AllocInode
  <2> QED
    BY <1>1, <2>1, Zenon
<1>9. \E f : Step(p, f) /\ NameOK(itab, data, f)
  <2>1. CASE S # {}
    <3>1. PICK m, t : m = Min(S) /\ t = <<DirElement(Target(c), m)>>
      OBVIOUS
    <3>2. PICK f : f = [c EXCEPT !.pc = "WriteImpl", !.new = m, !.rest = t, !.pos = c.ino.size]
      OBVIOUS
    <3>3. /\ f.pc = "WriteImpl" /\ f.rest = t /\ f.ino = c.ino /\ f.level = c.level
          /\ f.path = c.path
      BY <1>4, <3>2 DEF Fields
    <3>4. t[1] = DirElement(Target(c), m)
      BY <3>1
    <3>5. t[1].name = c.path[c.level]
      BY <1>7, <3>4 DEF DirElement
    <3>6. NameOK(itab, data, f)
      BY <1>5, <1>7, <3>3, <3>5 DEF NameOK
    <3> QED
      BY <1>8, <2>1, <3>1, <3>2, <3>6
  <2>2. CASE S = {} /\ c.off < InodeBlock(InodeNum - 1)
    <3>1. PICK f : f = [c EXCEPT !.off = @ + 1]
      OBVIOUS
    <3>2. f.pc = "AllocInode" /\ f.level = c.level /\ f.cur = c.cur /\ f.path = c.path
      BY <1>3, <1>4, <3>1 DEF Fields
    <3>3. NameOK(itab, data, f)
      BY <1>5, <3>2 DEF NameOK, Naming, Writes
    <3> QED
      BY <1>8, <2>2, <3>1, <3>3
  <2>3. CASE S = {} /\ ~(c.off < InodeBlock(InodeNum - 1))
    BY <1>8, <2>3, ReturnedFree, FreeName
  <2> QED
    BY <2>1, <2>2, <2>3
<1> QED
  BY <1>3, <1>4, <1>9, QuietNames

(* UpdateInode reads a block of the inode table. *)
LEMMA UpdateInodeReadNames ==
  ASSUME NEW w \in Procs, NInv(w), NEW p \in Procs, UpdateInodeRead(p)
  PROVE  NamesNext(w)
<1>1. PICK c : c = call[p]
  OBVIOUS
<1>2. IInv(w) /\ NamesIn(itab, data, torn, call[w])
  BY DEF NInv
<1>3. /\ c.pc \in {"UpdateSize", "UpdateNew"} /\ UNCHANGED <<itab, data, torn>>
      /\ ~Calm(call[p])
  BY <1>1 DEF UpdateInodeRead, Calm, disk
<1>4. p = w /\ DOMAIN c = Fields /\ NameOK(itab, data, c)
  BY <1>1, <1>2, <1>3, WriterIs DEF NamesIn
<1>5. PICK i : Step(p, [call[p] EXCEPT !.inodes = [j \in InodesOf(InodeBlock(i)) |-> itab[j]]])
  BY Zenon DEF UpdateInodeRead
<1>6. PICK g, f : /\ g = [j \in InodesOf(InodeBlock(i)) |-> itab[j]]
                  /\ f = [c EXCEPT !.inodes = g]
  OBVIOUS
<1>7. Step(p, f)
  BY <1>1, <1>5, <1>6 DEF Step
<1>8. /\ f.pc = c.pc /\ f.op = c.op /\ f.level = c.level /\ f.path = c.path /\ f.new = c.new
      /\ f.ino = c.ino /\ f.rest = c.rest /\ f.blk = c.blk /\ f.pos = c.pos
  BY <1>4, <1>6 DEF Fields
<1>9. NameOK(itab, data, f) /\ Unnamed(f) = Unnamed(c)
  BY <1>3, <1>4, <1>8 DEF NameOK, Naming, Unnamed
<1> QED
  BY <1>1, <1>3, <1>4, <1>7, <1>9, QuietNames

(* WriteImpl and the read of a block. *)
LEMMA WriteImplNames ==
  ASSUME NEW w \in Procs, NInv(w), NEW p \in Procs, WriteImpl(p) \/ ReadForWrite(p)
  PROVE  NamesNext(w)
<1>1. PICK c : c = call[p]
  OBVIOUS
<1>2. IInv(w) /\ NamesIn(itab, data, torn, call[w])
  BY DEF NInv
<1>3. /\ c.pc \in {"WriteImpl", "WriteData"} /\ UNCHANGED <<itab, data, torn>>
      /\ ~Calm(call[p])
  BY <1>1 DEF WriteImpl, ReadForWrite, Calm, disk
<1>4. p = w /\ DOMAIN c = Fields /\ c.pc \in Writes
  BY <1>1, <1>2, <1>3, WriterIs DEF Writes
<1>5. \/ \E b : Step(p, [c EXCEPT !.pc = "WriteData", !.blk = b])
      \/ \E y : Step(p, [c EXCEPT !.pc = "AllocDataBlock", !.why = y])
      \/ \E y, d : Step(p, [c EXCEPT !.pc = "AllocDataBlock", !.why = y, !.ind = d])
      \/ \E v : Step(p, [c EXCEPT !.pc = "WriteMerged", !.buf = v])
  BY <1>1, Zenon DEF WriteImpl, ReadForWrite
<1>6. ASSUME NEW f, f.pc \in {"WriteData", "AllocDataBlock", "WriteMerged"}, Step(p, f),
             f.op = c.op, f.level = c.level, f.path = c.path, f.rest = c.rest, f.ino = c.ino
      PROVE  NamesNext(w)
  <2>1. SameName(c, f)
    BY <1>6 DEF SameName, Writes
  <2> QED
    BY <1>1, <1>3, <1>4, <1>6, <2>1, WriteNames
<1>7. ASSUME NEW b, Step(p, [c EXCEPT !.pc = "WriteData", !.blk = b])
      PROVE  NamesNext(w)
  <2>1. PICK f : f = [c EXCEPT !.pc = "WriteData", !.blk = b]
    OBVIOUS
  <2>2. /\ f.pc = "WriteData" /\ f.op = c.op /\ f.level = c.level /\ f.path = c.path
        /\ f.rest = c.rest /\ f.ino = c.ino
    BY <1>4, <2>1 DEF Fields
  <2>3. Step(p, f)
    BY <1>7, <2>1
  <2> QED
    BY <1>6, <2>2, <2>3
<1>8. ASSUME NEW y, Step(p, [c EXCEPT !.pc = "AllocDataBlock", !.why = y])
      PROVE  NamesNext(w)
  <2>1. PICK f : f = [c EXCEPT !.pc = "AllocDataBlock", !.why = y]
    OBVIOUS
  <2>2. /\ f.pc = "AllocDataBlock" /\ f.op = c.op /\ f.level = c.level /\ f.path = c.path
        /\ f.rest = c.rest /\ f.ino = c.ino
    BY <1>4, <2>1 DEF Fields
  <2>3. Step(p, f)
    BY <1>8, <2>1
  <2> QED
    BY <1>6, <2>2, <2>3
<1>9. ASSUME NEW y, NEW d, Step(p, [c EXCEPT !.pc = "AllocDataBlock", !.why = y, !.ind = d])
      PROVE  NamesNext(w)
  <2>1. PICK f : f = [c EXCEPT !.pc = "AllocDataBlock", !.why = y, !.ind = d]
    OBVIOUS
  <2>2. /\ f.pc = "AllocDataBlock" /\ f.op = c.op /\ f.level = c.level /\ f.path = c.path
        /\ f.rest = c.rest /\ f.ino = c.ino
    BY <1>4, <2>1 DEF Fields
  <2>3. Step(p, f)
    BY <1>9, <2>1
  <2> QED
    BY <1>6, <2>2, <2>3
<1>10. ASSUME NEW v, Step(p, [c EXCEPT !.pc = "WriteMerged", !.buf = v])
      PROVE  NamesNext(w)
  <2>1. PICK f : f = [c EXCEPT !.pc = "WriteMerged", !.buf = v]
    OBVIOUS
  <2>2. /\ f.pc = "WriteMerged" /\ f.op = c.op /\ f.level = c.level /\ f.path = c.path
        /\ f.rest = c.rest /\ f.ino = c.ino
    BY <1>4, <2>1 DEF Fields
  <2>3. Step(p, f)
    BY <1>10, <2>1
  <2> QED
    BY <1>6, <2>2, <2>3
<1> QED
  BY <1>5, <1>7, <1>8, <1>9, <1>10

(* AllocDataBlock has returned. *)
LEMMA AllocatedNames ==
  ASSUME NEW p, NEW d, NEW b, Allocated(p, d, b), DOMAIN d = Fields, d.level \in Nat,
         d.ino \in InodeDef
  PROVE  \E f : Step(p, f) /\ (NameFree(f) \/ SameName(d, f))
<1>1. PICK k, x : k = Place(d) /\ x = d.first
  OBVIOUS
<1>2. \/ Step(p, [d EXCEPT !.pc = "WriteData", !.blk = b, !.ino.addr[k] = b])
      \/ Step(p, [d EXCEPT !.pc = "AllocDataBlock", !.why = "first", !.first = b])
      \/ \E g : Step(p, [d EXCEPT !.pc = "WriteIndirect", !.blk = b, !.ino.addr[Direct] = x, !.ind = g])
      \/ Step(p, [d EXCEPT !.pc = "WriteIndirect", !.blk = b, !.ind[k - Direct] = Byte(b)])
      \/ WriteReturns(p, d)
  BY <1>1, Zenon DEF Allocated
<1>3. ASSUME NEW f, f.pc \in {"WriteData", "AllocDataBlock", "WriteIndirect"}, Step(p, f),
             f.op = d.op, f.level = d.level, f.path = d.path, f.rest = d.rest,
             f.ino.inode_index = d.ino.inode_index
      PROVE  \E g : Step(p, g) /\ (NameFree(g) \/ SameName(d, g))
  BY <1>3 DEF SameName, Writes
<1>4. ASSUME NEW j, NEW y, NEW n, n = [d.ino EXCEPT !.addr[j] = y]
      PROVE  n.inode_index = d.ino.inode_index
  BY <1>4 DEF InodeDef
<1>5. CASE Step(p, [d EXCEPT !.pc = "WriteData", !.blk = b, !.ino.addr[k] = b])
  <2>1. PICK f, n : /\ f = [d EXCEPT !.pc = "WriteData", !.blk = b, !.ino = n]
                    /\ n = [d.ino EXCEPT !.addr[k] = b]
    OBVIOUS
  <2>2. f = [d EXCEPT !.pc = "WriteData", !.blk = b, !.ino.addr[k] = b]
    BY <2>1 DEF Fields
  <2>3. /\ f.pc = "WriteData" /\ f.op = d.op /\ f.level = d.level /\ f.path = d.path
        /\ f.rest = d.rest /\ f.ino = n
    BY <2>1 DEF Fields
  <2>4. Step(p, f) /\ n.inode_index = d.ino.inode_index
    BY <1>4, <1>5, <2>1, <2>2
  <2> QED
    BY <1>3, <2>3, <2>4
<1>6. CASE Step(p, [d EXCEPT !.pc = "AllocDataBlock", !.why = "first", !.first = b])
  <2>1. PICK f : f = [d EXCEPT !.pc = "AllocDataBlock", !.why = "first", !.first = b]
    OBVIOUS
  <2>2. /\ f.pc = "AllocDataBlock" /\ f.op = d.op /\ f.level = d.level /\ f.path = d.path
        /\ f.rest = d.rest /\ f.ino = d.ino
    BY <2>1 DEF Fields
  <2>3. Step(p, f)
    BY <1>6, <2>1
  <2> QED
    BY <1>3, <2>2, <2>3
<1>7. ASSUME NEW g,
             Step(p, [d EXCEPT !.pc = "WriteIndirect", !.blk = b, !.ino.addr[Direct] = x, !.ind = g])
      PROVE  \E f : Step(p, f) /\ (NameFree(f) \/ SameName(d, f))
  <2>1. PICK f, n : /\ f = [d EXCEPT !.pc = "WriteIndirect", !.blk = b, !.ino = n, !.ind = g]
                    /\ n = [d.ino EXCEPT !.addr[Direct] = x]
    OBVIOUS
  <2>2. f = [d EXCEPT !.pc = "WriteIndirect", !.blk = b, !.ino.addr[Direct] = x, !.ind = g]
    BY <2>1 DEF Fields
  <2>3. /\ f.pc = "WriteIndirect" /\ f.op = d.op /\ f.level = d.level /\ f.path = d.path
        /\ f.rest = d.rest /\ f.ino = n
    BY <2>1 DEF Fields
  <2>4. Step(p, f) /\ n.inode_index = d.ino.inode_index
    BY <1>4, <1>7, <2>1, <2>2
  <2> QED
    BY <1>3, <2>3, <2>4
<1>8. CASE Step(p, [d EXCEPT !.pc = "WriteIndirect", !.blk = b, !.ind[k - Direct] = Byte(b)])
  <2>1. PICK f : f = [d EXCEPT !.pc = "WriteIndirect", !.blk = b, !.ind[k - Direct] = Byte(b)]
    OBVIOUS
  <2>2. /\ f.pc = "WriteIndirect" /\ f.op = d.op /\ f.level = d.level /\ f.path = d.path
        /\ f.rest = d.rest /\ f.ino = d.ino
    BY <2>1 DEF Fields
  <2>3. Step(p, f)
    BY <1>8, <2>1
  <2> QED
    BY <1>3, <2>2, <2>3
<1>9. CASE WriteReturns(p, d)
  BY <1>9, ReturnsFree
<1> QED
  BY <1>2, <1>5, <1>6, <1>7, <1>8, <1>9

(* AllocDataBlock. *)
LEMMA AllocNames ==
  ASSUME NEW w \in Procs, NInv(w), NEW p \in Procs,
         AllocDataBlockRead(p) \/ AllocDataBlockWrite(p)
  PROVE  NamesNext(w)
<1>1. PICK c, d, b : /\ c = call[p] /\ d = [c EXCEPT !.bits = {}, !.blk = 0] /\ b = FreeBlock(bmap)
  OBVIOUS
<1>2. IInv(w) /\ NamesIn(itab, data, torn, call[w])
  BY DEF NInv
<1>3. /\ c.pc \in {"AllocDataBlock", "WriteBitmap"} /\ UNCHANGED <<itab, data, torn>>
      /\ ~Calm(call[p])
  BY <1>1 DEF AllocDataBlockRead, AllocDataBlockWrite, Calm, disk
<1>4. /\ p = w /\ DOMAIN c = Fields /\ c.pc \in Writes /\ c.level \in Nat
      /\ WriterOK(bmap, itab, data, c)
  BY <1>1, <1>2, <1>3, WriterIs DEF Writes, NamesIn, NameOK
<1>5. c.ino \in InodeDef
  BY <1>4, PieceIs DEF WriterOK, WriteOK
<1>6. /\ DOMAIN d = Fields /\ d.op = c.op /\ d.level = c.level /\ d.path = c.path
      /\ d.rest = c.rest /\ d.ino = c.ino
  BY <1>1, <1>4 DEF Fields
<1>7. \/ Allocated(p, c, 0) \/ Allocated(p, d, c.blk)
      \/ Step(p, [c EXCEPT !.pc = "WriteBitmap", !.blk = b, !.bits = bmap \cup {b}])
  <2>1. \/ Allocated(p, call[p], 0)
        \/ Allocated(p, [call[p] EXCEPT !.bits = {}, !.blk = 0], call[p].blk)
        \/ Step(p, [call[p] EXCEPT !.pc = "WriteBitmap", !.blk = FreeBlock(bmap),
                                   !.bits = bmap \cup {FreeBlock(bmap)}])
    BY Zenon DEF AllocDataBlockRead, AllocDataBlockWrite
  <2> QED
    BY <1>1, <2>1, Zenon
<1>8. \E f : Step(p, f) /\ (NameFree(f) \/ SameName(c, f))
  <2>1. CASE Allocated(p, c, 0)
    BY <1>4, <1>5, <2>1, AllocatedNames
  <2>2. CASE Allocated(p, d, c.blk)
    <3>1. PICK f : Step(p, f) /\ (NameFree(f) \/ SameName(d, f))
      BY <1>4, <1>5, <1>6, <2>2, AllocatedNames
    <3>2. SameName(d, f) => SameName(c, f)
      BY <1>6 DEF SameName
    <3> QED
      BY <3>1, <3>2
  <2>3. CASE Step(p, [c EXCEPT !.pc = "WriteBitmap", !.blk = b, !.bits = bmap \cup {b}])
    <3>1. PICK f : f = [c EXCEPT !.pc = "WriteBitmap", !.blk = b, !.bits = bmap \cup {b}]
      OBVIOUS
    <3>2. /\ f.pc = "WriteBitmap" /\ f.op = c.op /\ f.level = c.level /\ f.path = c.path
          /\ f.rest = c.rest /\ f.ino = c.ino
      BY <1>4, <3>1 DEF Fields
    <3>3. SameName(c, f) /\ Step(p, f)
      BY <2>3, <3>1, <3>2 DEF SameName, Writes
    <3> QED
      BY <3>3
  <2> QED
    BY <1>7, <2>1, <2>2, <2>3
<1> QED
  BY <1>1, <1>3, <1>4, <1>8, WriteNames

(* An entry is in a block at a place of its directory. *)
LEMMA EntryPlace ==
  ASSUME NEW B, NEW T, NEW D, DiskOK(B, T, D), DirsSmall(T), NEW j \in Inums, NEW y \in Nat,
         IsEntry(T, j, y), NEW l, l = y \div BlockSize
  PROVE  /\ l \in 0..(Direct - 1) /\ l \in AllPlaces
         /\ T[j].addr[l] = At(T, D, j, l) /\ T[j].addr[l] # 0 /\ T[j].addr[l] \in 0..BlockNum
<1>1. T[j].type = "directory" /\ y < T[j].size
  BY DEF IsEntry
<1>2. /\ l \in 0..(Direct - 1) /\ l \in AllPlaces
      /\ T[j].addr[l] = At(T, D, j, l) /\ T[j].addr[l] # 0
  BY <1>1, DirPlace
<1>3. T[j] \in InodeDef
  BY DEF DiskOK, TableOK
<1> QED
  BY <1>2, <1>3, InodeFields, SizeAssumption

\* The cells v have what directories hold in the block x.
EntriesKeep(T, D, x, v) ==
  \A j \in Inums, y \in Nat :
    IsEntry(T, j, y) /\ T[j].addr[y \div BlockSize] = x => v[y % BlockSize] = D[x][y % BlockSize]

(* Entries stay when such a block is written. *)
LEMMA WrittenSame ==
  ASSUME NEW B, NEW T, NEW D, DiskOK(B, T, D), DirsSmall(T), NEW D2, NEW x, NEW v,
         DataWritten(D, D2, x, v), EntriesKeep(T, D, x, v)
  PROVE  SameEntries(T, D, T, D2)
<1>1. SUFFICES ASSUME NEW j \in Inums, NEW y \in Nat, IsEntry(T, j, y)
               PROVE  EntryAt(T, D2, j, y) = EntryAt(T, D, j, y)
  BY DEF SameEntries
<1>2. PICK a : a = T[j].addr[y \div BlockSize]
  OBVIOUS
<1>3. a \in 0..BlockNum
  BY <1>1, <1>2, EntryPlace
<1>4. CASE a = x
  BY <1>1, <1>2, <1>4 DEF EntriesKeep, DataWritten, EntryAt
<1>5. CASE a # x
  BY <1>2, <1>3, <1>5 DEF DataWritten, EntryAt
<1> QED
  BY <1>4, <1>5

(* A block that is at no place holds no entries. *)
LEMMA ExtraKeeps ==
  ASSUME NEW B, NEW T, NEW D, DiskOK(B, T, D), DirsSmall(T), NEW b, Extra(B, T, D, b), NEW v
  PROVE  EntriesKeep(T, D, b, v)
<1>1. ASSUME NEW j \in Inums, NEW y \in Nat, IsEntry(T, j, y)
      PROVE  T[j].addr[y \div BlockSize] # b
  <2>1. PICK l : l = y \div BlockSize
    OBVIOUS
  <2>2. l \in AllPlaces /\ T[j].addr[l] = At(T, D, j, l)
    BY <1>1, <2>1, EntryPlace
  <2> QED
    BY <2>1, <2>2 DEF Extra
<1> QED
  BY <1>1 DEF EntriesKeep

(* An indirect block holds no entries. *)
LEMMA IndirectKeeps ==
  ASSUME NEW B, NEW T, NEW D, DiskOK(B, T, D), DirsSmall(T), NEW i \in Inums, NEW v
  PROVE  EntriesKeep(T, D, T[i].addr[Direct], v)
<1>1. ASSUME NEW j \in Inums, NEW y \in Nat, IsEntry(T, j, y)
      PROVE  T[j].addr[y \div BlockSize] # T[i].addr[Direct]
  <2>1. PICK l : l = y \div BlockSize
    OBVIOUS
  <2>2. l \in 0..(Direct - 1) /\ l \in AllPlaces /\ T[j].addr[l] = At(T, D, j, l) /\ T[j].addr[l] # 0
    BY <1>1, <2>1, EntryPlace
  <2>3. At(T, D, i, -1) = T[i].addr[Direct] /\ -1 \in AllPlaces /\ l # -1
    BY <2>2, SizeAssumption DEF At, AllPlaces
  <2>4. Owned(B, T, D)
    BY DEF DiskOK
  <2>5. At(T, D, j, l) # At(T, D, i, -1)
    BY <2>2, <2>3, <2>4 DEF Owned
  <2> QED
    BY <2>1, <2>2, <2>3, <2>5
<1> QED
  BY <1>1 DEF EntriesKeep

(* The entries of a directory stay when an entry is written behind them. *)
LEMMA PieceKeeps ==
  ASSUME NEW B, NEW T, NEW D, DiskOK(B, T, D), DirsSmall(T), NEW c, PieceOK(T, c),
         TargetOK(B, T, D, c), PieceLen(c) = BlockSize \/ c.buf = D[c.blk],
         NEW v, v = Merged(c, c.buf)
  PROVE  EntriesKeep(T, D, c.blk, v)
<1>1. PICK i, k, b : i = c.ino.inode_index /\ k = Place(c) /\ b = c.blk
  OBVIOUS
<1>2. TableOK(T) /\ Owned(B, T, D)
  BY DEF DiskOK
<1>3. i \in Inums /\ k \in Nat /\ k \in AllPlaces /\ c.pos \in Nat /\ k = c.pos \div BlockSize
  BY <1>1, <1>2, PieceIs, PlaceOf DEF Place
<1>4. CASE Extra(B, T, D, b)
  BY <1>1, <1>4, ExtraKeeps
<1>5. CASE ~Extra(B, T, D, b)
  <2>1. At(T, D, i, k) = b
    BY <1>1, <1>5 DEF TargetOK, NewIndirect
  <2>2. SUFFICES ASSUME NEW j \in Inums, NEW y \in Nat, IsEntry(T, j, y),
                        T[j].addr[y \div BlockSize] = b
                 PROVE  v[y % BlockSize] = D[b][y % BlockSize]
    BY <1>1 DEF EntriesKeep
  <2>3. PICK l, m, z : l = y \div BlockSize /\ m = c.pos % BlockSize /\ z = y % BlockSize
    OBVIOUS
  <2>4. l \in AllPlaces /\ At(T, D, j, l) = b /\ b # 0
    BY <2>2, <2>3, EntryPlace
  <2>5. j = i /\ l = k
    BY <1>2, <1>3, <2>1, <2>4 DEF Owned
  <2>6. c.pos = T[i].size
    BY <1>1, <2>2, <2>5 DEF PieceOK, IsEntry
  <2>7. /\ c.pos = k * BlockSize + m /\ y = k * BlockSize + z /\ k * BlockSize \in Int
        /\ m \in 0..(BlockSize - 1) /\ z \in 0..(BlockSize - 1)
    <3>1. PICK x : x = c.pos
      OBVIOUS
    <3>2. /\ x \in Nat /\ x \div BlockSize = k /\ y \div BlockSize = k
          /\ x % BlockSize = m /\ y % BlockSize = z
      BY <1>3, <2>3, <2>5, <3>1
    <3>3. x = k * BlockSize + m /\ m \in 0..(BlockSize - 1)
      BY <3>2, DivIs
    <3>4. y = k * BlockSize + z /\ z \in 0..(BlockSize - 1)
      BY <3>2, DivIs
    <3>5. k * BlockSize \in Int
      BY <1>3, SizeAssumption
    <3> QED
      BY <3>1, <3>3, <3>4, <3>5
  <2>8. z < m /\ BlockSize \in Nat
    BY <1>3, <2>2, <2>5, <2>6, <2>7, SizeAssumption DEF IsEntry
  <2>9. PieceLen(c) <= BlockSize - m /\ PieceLen(c) \in Nat
    BY <2>3, PieceIs
  <2>10. c.buf = D[b]
    BY <1>1, <2>7, <2>8, <2>9
  <2>11. v[z] = c.buf[z]
    <3>1. \A x \in 0..(BlockSize - 1) : x < c.pos % BlockSize => v[x] = c.buf[x]
      BY MergedIs
    <3> QED
      BY <2>3, <2>7, <2>8, <3>1
  <2> QED
    BY <2>3, <2>10, <2>11
<1> QED
  BY <1>4, <1>5

(* An indirect block is written. *)
LEMMA WriteIndirectNames ==
  ASSUME NEW w \in Procs, NInv(w), NEW p \in Procs, WriteIndirect(p)
  PROVE  NamesNext(w)
<1>1. PICK c, a, v, i : /\ c = call[p] /\ a = c.ino.addr[Direct] /\ v = c.ind
                        /\ i = c.ino.inode_index
  OBVIOUS
<1>0. IInv(w) /\ NamesIn(itab, data, torn, call[w])
  BY DEF NInv
<1>2. /\ c.pc = "WriteIndirect" /\ UNCHANGED <<itab, torn>> /\ ~Calm(call[p])
      /\ c.pc \in Writes /\ data' = [data EXCEPT ![a] = v]
  BY <1>1 DEF WriteIndirect, Calm, Writes
<1>3. /\ p = w /\ TableOK(itab) /\ DOMAIN c = Fields /\ WriterOK(bmap, itab, data, c)
      /\ DiskOK(bmap, itab, data) /\ c = call[w] /\ DirsSmall(itab)
  BY <1>0, <1>1, <1>2, WriterIs
<1>4. PieceOK(itab, c) /\ IndirectOK(bmap, itab, data, c)
  BY <1>2, <1>3 DEF WriterOK, WriteOK
<1>5. c.ino \in InodeDef /\ i \in Inums /\ a \in 0..BlockNum
  BY <1>1, <1>4, PieceIs, InodeFields
<1>6. DataWritten(data, data', a, v)
  <2>1. DOMAIN data = 0..BlockNum
    BY <1>3 DEF DiskOK
  <2> QED
    BY <1>2, <1>5, <2>1 DEF DataWritten
<1>7. PICK f : f = [c EXCEPT !.pc = "WriteData", !.ind = BlankBlock]
  OBVIOUS
<1>8. /\ f.pc = "WriteData" /\ f.op = c.op /\ f.level = c.level /\ f.path = c.path
      /\ f.rest = c.rest /\ f.ino = c.ino
  BY <1>3, <1>7 DEF Fields
<1>9. Step(w, f)
  <2>1. Step(p, [call[p] EXCEPT !.pc = "WriteData", !.ind = BlankBlock])
    BY Zenon DEF WriteIndirect
  <2> QED
    BY <1>1, <1>3, <1>7, <2>1, Zenon
<1>10. EntriesKeep(itab, data, a, v)
  <2>1. CASE Extra(bmap, itab, data, a)
    BY <1>3, <2>1, ExtraKeeps
  <2>2. CASE a = itab[i].addr[Direct]
    BY <1>3, <1>5, <2>2, IndirectKeeps
  <2> QED
    BY <1>1, <1>4, <2>1, <2>2 DEF IndirectOK, NewIndirect
<1>11. SameEntries(itab, data, itab, data')
  BY <1>3, <1>6, <1>10, WrittenSame
<1>12. SameEntries(itab, data, itab', data') /\ NoneFreed(itab, itab')
  BY <1>2, <1>11 DEF NoneFreed
<1>13. c.level \in Nat /\ (Naming(c) => /\ HasNot(itab, data, i, c.path[c.level])
                                        /\ c.rest[1].name = c.path[c.level])
  BY <1>0, <1>1, <1>3 DEF NamesIn, NameOK
<1>14. Naming(c) => HasNot(itab', data', i, c.path[c.level])
  BY <1>5, <1>12, <1>13, HasNotSame
<1>15. NameOK(itab', data', f) /\ Unnamed(call[w]) = {}
  BY <1>1, <1>2, <1>3, <1>8, <1>13, <1>14 DEF NameOK, Naming, Writes, Unnamed
<1> QED
  BY <1>2, <1>9, <1>12, <1>15, NamesStep

(* Write's loop goes on or Write returns: an entry is one piece. *)
LEMMA AdvanceNames ==
  ASSUME NEW p, NEW T, NEW c, PieceOK(T, c), DOMAIN c = Fields, c.level \in Nat, Advance(p, c)
  PROVE  /\ \E f : Step(p, f) /\ NameFree(f)
         /\ c.op # "write" =>
              \E f : Step(p, f) /\ NameFree(f) /\ f.pc = "UpdateNew" /\ f.new = c.new
<1>1. PICK n, d : n = PieceLen(c) /\ d = Advanced(c, n)
  OBVIOUS
<1>2. Behind(c, n, d)
  BY <1>1, AdvanceIs
<1>3. /\ DOMAIN d = Fields /\ d.pc = "WriteImpl" /\ d.op = c.op /\ d.level = c.level
      /\ d.new = c.new /\ (Len(c.rest) = 1 => d.rest = <<>>)
  BY <1>2 DEF Behind
<1>4. IF d.rest = <<>> THEN WriteReturns(p, d) ELSE Step(p, d)
  <2>1. d = [c EXCEPT !.pc = "WriteImpl", !.rest = SubSeq(c.rest, PieceLen(c) + 1, Len(c.rest)),
              !.pos = @ + PieceLen(c), !.done = @ + PieceLen(c), !.blk = 0, !.buf = BlankBlock,
              !.inodes = <<>>, !.why = "none", !.first = 0]
    BY <1>1, Zenon DEF Advanced
  <2> QED
    BY <2>1, Zenon DEF Advance
<1>5. CASE c.op # "write"
  <2>1. d.rest = <<>>
    BY <1>3, <1>5 DEF PieceOK
  <2>2. WriteReturns(p, d)
    BY <1>4, <2>1
  <2>3. PICK f : f = [d EXCEPT !.pc = "UpdateNew"]
    OBVIOUS
  <2>4. f.pc = "UpdateNew" /\ f.level = c.level /\ f.new = c.new
    BY <1>3, <2>3 DEF Fields
  <2>5. Step(p, f)
    BY <1>3, <1>5, <2>2, <2>3 DEF WriteReturns
  <2>6. NameFree(f)
    BY <2>4 DEF NameFree, Naming, Writes
  <2> QED
    BY <2>4, <2>5, <2>6
<1>6. CASE c.op = "write"
  <2>1. NameFree(d)
    BY <1>3, <1>6 DEF NameFree, Naming
  <2>2. CASE WriteReturns(p, d)
    BY <1>3, <1>6, <2>2, ReturnsFree
  <2> QED
    BY <1>4, <1>6, <2>1, <2>2
<1> QED
  BY <1>5, <1>6

(* The block of a piece is written. *)
LEMMA WriteDataNames ==
  ASSUME NEW w \in Procs, NInv(w), NEW p \in Procs, WriteData(p)
  PROVE  NamesNext(w)
<1>1. PICK c, b, v, i, e : /\ c = call[p] /\ b = c.blk /\ v = Merged(c, c.buf)
                           /\ i = c.ino.inode_index /\ e = c.pos + PieceLen(c)
  OBVIOUS
<1>0. IInv(w) /\ NamesIn(itab, data, torn, call[w])
  BY DEF NInv
<1>2. /\ c.pc = "WriteMerged" \/ (c.pc = "WriteData" /\ PieceLen(c) = BlockSize)
      /\ UNCHANGED <<itab, torn>> /\ ~Calm(call[p])
      /\ c.pc \in Writes /\ data' = [data EXCEPT ![b] = v]
  <2>1. /\ \/ call[p].pc = "WriteMerged"
           \/ call[p].pc = "WriteData" /\ PieceLen(call[p]) = BlockSize
        /\ UNCHANGED <<bmap, itab, cwd, calls, torn, crashes>>
        /\ data' = [data EXCEPT ![call[p].blk] = Merged(call[p], call[p].buf)]
    BY Zenon DEF WriteData
  <2>2. data' = [data EXCEPT ![b] = v]
    BY <1>1, <2>1
  <2> QED
    BY <1>1, <2>1, <2>2 DEF Calm, Writes
<1>3. /\ p = w /\ TableOK(itab) /\ DOMAIN c = Fields /\ WriterOK(bmap, itab, data, c)
      /\ DiskOK(bmap, itab, data) /\ c = call[w] /\ DirsSmall(itab)
  BY <1>0, <1>1, <1>2, WriterIs
<1>4. /\ PieceOK(itab, c) /\ TargetOK(bmap, itab, data, c)
      /\ PieceLen(c) = BlockSize \/ c.buf = data[c.blk]
  BY <1>1, <1>2, <1>3 DEF WriterOK, WriteOK
<1>5. c.ino \in InodeDef /\ i \in Inums
  BY <1>1, <1>4, PieceIs
<1>6. b \in 1..BlockNum
  BY <1>1, <1>3, <1>4, TargetBlock
<1>7. EntriesKeep(itab, data, b, v)
  BY <1>1, <1>3, <1>4, PieceKeeps
<1>8. DOMAIN v = 0..(BlockSize - 1) /\ v[c.pos % BlockSize] = c.rest[1]
  BY <1>1, <1>4, MergedIs
<1>9. DataWritten(data, data', b, v)
  <2>1. DOMAIN data = 0..BlockNum
    BY <1>3 DEF DiskOK
  <2> QED
    BY <1>2, <1>6, <2>1 DEF DataWritten
<1>10. SameEntries(itab, data, itab, data')
  BY <1>3, <1>7, <1>9, WrittenSame
<1>11. SameEntries(itab, data, itab', data') /\ NoneFreed(itab, itab')
  BY <1>2, <1>10 DEF NoneFreed
<1>12. /\ c.level \in Nat /\ Unnamed(call[w]) = {}
       /\ Naming(c) => /\ HasNot(itab, data, i, c.path[c.level])
                       /\ c.rest[1].name = c.path[c.level]
  BY <1>0, <1>1, <1>2, <1>3 DEF NamesIn, NameOK, Unnamed, Writes
<1>13. Naming(c) => HasNot(itab', data', i, c.path[c.level])
  BY <1>5, <1>11, <1>12, HasNotSame
<1>14. CASE Step(w, [c EXCEPT !.pc = "UpdateSize", !.ino.size = e])
  <2>1. PICK n : n = [c.ino EXCEPT !.size = e]
    OBVIOUS
  <2>2. n.inode_index = i
    BY <1>1, <1>5, <2>1 DEF InodeDef
  <2>3. PICK f : f = [c EXCEPT !.pc = "UpdateSize", !.ino = n]
    OBVIOUS
  <2>4. /\ f.pc = "UpdateSize" /\ f.op = c.op /\ f.level = c.level /\ f.path = c.path
        /\ f.rest = c.rest /\ f.ino = n /\ f.blk = b /\ f.pos = c.pos
    BY <1>1, <1>3, <2>3 DEF Fields
  <2>5. Step(w, f)
    <3>1. [c EXCEPT !.pc = "UpdateSize", !.ino.size = e] = f
      BY <1>3, <2>1, <2>3 DEF Fields
    <3> QED
      BY <1>14, <3>1
  <2>6. data'[f.blk][f.pos % BlockSize] = f.rest[1]
    BY <1>8, <1>9, <2>4 DEF DataWritten
  <2>7. Naming(f) => Naming(c)
    BY <1>2, <2>4 DEF Naming
  <2>8. NameOK(itab', data', f)
    BY <1>12, <1>13, <2>2, <2>4, <2>6, <2>7 DEF NameOK
  <2> QED
    BY <1>2, <1>11, <1>12, <2>5, <2>8, NamesStep
<1>15. CASE Advance(w, c)
  <2>1. PICK f : Step(w, f) /\ NameFree(f)
    BY <1>3, <1>4, <1>12, <1>15, AdvanceNames
  <2>2. NameOK(itab', data', f)
    BY <2>1, FreeName
  <2> QED
    BY <1>2, <1>11, <1>12, <2>1, <2>2, NamesStep
<1>16. \/ Step(w, [c EXCEPT !.pc = "UpdateSize", !.ino.size = e])
       \/ Advance(w, c)
  <2>1. \/ Step(p, [call[p] EXCEPT !.pc = "UpdateSize",
                                   !.ino.size = call[p].pos + PieceLen(call[p])])
        \/ Advance(p, call[p])
    BY Zenon DEF WriteData
  <2>2. CASE Step(p, [call[p] EXCEPT !.pc = "UpdateSize",
                                     !.ino.size = call[p].pos + PieceLen(call[p])])
    BY <1>1, <1>3, <2>2, Zenon DEF Step
  <2>3. CASE Advance(p, call[p])
    <3>1. Advance(w, c)
      BY <1>1, <1>3, <2>3, Zenon DEF Advance, WriteReturns, Step, Returned, WrittenInode, PieceLen
    <3> QED
      BY <3>1
  <2> QED
    BY <2>1, <2>2, <2>3
<1> QED
  BY <1>14, <1>15, <1>16

\* Entries are as before, but for e, which is new at x in the directory i.
EntryMore(T, D, T2, D2, i, x, e) ==
  \A j \in Inums, y \in Nat : IsEntry(T2, j, y) =>
    \/ IsEntry(T, j, y) /\ EntryAt(T2, D2, j, y) = EntryAt(T, D, j, y)
    \/ j = i /\ y = x /\ EntryAt(T2, D2, j, y) = e

(* An entry with a new name and a free inode. *)
LEMMA NamesMore ==
  ASSUME NEW B, NEW T, NEW D, DiskOK(B, T, D), NEW R, NamesOnce(T, D, R), NamesTaken(T, D, R, {}),
         NEW T2, NEW D2, NoneFreed(T, T2), NEW i \in Inums, NEW x \in Nat, NEW e,
         EntryMore(T, D, T2, D2, i, x, e), HasNot(T, D, i, e.name), T[e.val].type = "none"
  PROVE  NamesOnce(T2, D2, R) /\ NamesTaken(T2, D2, R, {e.val})
<1>1. ASSUME NEW j \in Inums, NEW y \in Nat, IsEntry(T, j, y)
      PROVE  /\ EntryAt(T, D, j, y).name = e.name => j # i
             /\ EntryAt(T, D, j, y).val = e.val => e.val \in R
  BY <1>1 DEF HasNot, NamesTaken
<1>2. NamesOnce(T2, D2, R)
  <2>1. SUFFICES ASSUME NEW j \in Inums, NEW k \in Inums, NEW y \in Nat, NEW z \in Nat,
                        IsEntry(T2, j, y), IsEntry(T2, k, z), j # k \/ y # z
                 PROVE  /\ EntryAt(T2, D2, j, y).name = EntryAt(T2, D2, k, z).name => j # k
                        /\ EntryAt(T2, D2, j, y).val = EntryAt(T2, D2, k, z).val =>
                             EntryAt(T2, D2, j, y).val \in R
    BY DEF NamesOnce
  <2>2. \/ IsEntry(T, j, y) /\ EntryAt(T2, D2, j, y) = EntryAt(T, D, j, y)
        \/ j = i /\ y = x /\ EntryAt(T2, D2, j, y) = e
    BY <2>1 DEF EntryMore
  <2>3. \/ IsEntry(T, k, z) /\ EntryAt(T2, D2, k, z) = EntryAt(T, D, k, z)
        \/ k = i /\ z = x /\ EntryAt(T2, D2, k, z) = e
    BY <2>1 DEF EntryMore
  <2>4. CASE /\ IsEntry(T, j, y) /\ EntryAt(T2, D2, j, y) = EntryAt(T, D, j, y)
             /\ IsEntry(T, k, z) /\ EntryAt(T2, D2, k, z) = EntryAt(T, D, k, z)
    BY <2>1, <2>4 DEF NamesOnce
  <2>5. CASE /\ IsEntry(T, j, y) /\ EntryAt(T2, D2, j, y) = EntryAt(T, D, j, y)
             /\ k = i /\ z = x /\ EntryAt(T2, D2, k, z) = e
    BY <1>1, <2>5
  <2>6. CASE /\ IsEntry(T, k, z) /\ EntryAt(T2, D2, k, z) = EntryAt(T, D, k, z)
             /\ j = i /\ y = x /\ EntryAt(T2, D2, j, y) = e
    BY <1>1, <2>6
  <2> QED
    BY <2>1, <2>2, <2>3, <2>4, <2>5, <2>6
<1>3. NamesTaken(T2, D2, R, {e.val})
  <2>1. SUFFICES ASSUME NEW j \in Inums, NEW y \in Nat, IsEntry(T2, j, y)
                 PROVE  \/ T2[EntryAt(T2, D2, j, y).val].type # "none"
                        \/ EntryAt(T2, D2, j, y).val \in R \cup {e.val}
    BY DEF NamesTaken
  <2>2. CASE IsEntry(T, j, y) /\ EntryAt(T2, D2, j, y) = EntryAt(T, D, j, y)
    <3>1. EntryAt(T, D, j, y).val \in Inums
      BY <2>2, EntryIs
    <3>2. \/ T[EntryAt(T, D, j, y).val].type # "none"
          \/ EntryAt(T, D, j, y).val \in R
      BY <2>2 DEF NamesTaken
    <3> QED
      BY <2>2, <3>1, <3>2 DEF NoneFreed
  <2> QED
    BY <2>1, <2>2 DEF EntryMore
<1> QED
  BY <1>2, <1>3

(* The inode of a directory gets its new entry. *)
LEMMA DirMore ==
  ASSUME NEW B, NEW T, NEW D, DiskOK(B, T, D), DirsSmall(T), NEW c, PieceOK(T, c),
         TargetOK(B, T, D, c), c.op # "write", c.ino.size = c.pos + PieceLen(c),
         NEW i, i = c.ino.inode_index, NEW T2, TableSet(T, T2, i, c.ino),
         NEW e, e = D[c.blk][c.pos % BlockSize]
  PROVE  EntryMore(T, D, T2, D, i, c.pos, e)
<1>1. PICK k, x, b, n : k = Place(c) /\ x = c.pos /\ b = c.blk /\ n = c.ino
  OBVIOUS
<1>2. TableOK(T) /\ Direct \in Nat /\ BlockSize \in Nat \ {0}
  BY SizeAssumption DEF DiskOK
<1>3. /\ i \in Inums /\ k \in Nat /\ k * BlockSize <= x /\ x \in Nat /\ n \in InodeDef
      /\ k = x \div BlockSize
  BY <1>1, <1>2, PieceIs, PlaceOf DEF Place
<1>4. /\ n.type = "directory" /\ T[i].type = "directory" /\ x = T[i].size
      /\ Len(c.rest) = 1 /\ x + 1 <= Direct * BlockSize
  BY <1>1 DEF PieceOK
<1>5. n.size = x + 1
  <2>1. PieceLen(c) \in Nat /\ PieceLen(c) >= 1 /\ PieceLen(c) <= Len(c.rest)
    BY PieceIs
  <2>2. PieceLen(c) = 1
    BY <1>4, <2>1
  <2> QED
    BY <1>1, <2>2
<1>6. k < Direct
  <2>1. Direct < k => Direct * BlockSize + BlockSize <= k * BlockSize
    BY <1>2, <1>3, Steps
  <2>2. k * BlockSize \in Int /\ Direct * BlockSize \in Int
    BY <1>2, <1>3
  <2>3. k # Direct
    BY <1>2, <1>3, <1>4, <2>2
  <2> QED
    BY <1>2, <1>3, <1>4, <2>1, <2>2, <2>3
<1>7. T[i] \in InodeDef /\ T[i].addr \in [0..Direct -> 0..BlockNum] /\ k \in 0..Direct
  BY <1>2, <1>3, <1>6, TableIs, InodeFields
<1>8. n.addr[k] = b /\ \A l \in 0..Direct : n.addr[l] = T[i].addr[l] \/ T[i].addr[l] = 0
  <2>1. CASE n.addr = T[i].addr /\ At(T, D, i, k) = b
    BY <1>3, <1>6, <2>1 DEF At
  <2>2. CASE T[i].addr[k] = 0 /\ n.addr = [T[i].addr EXCEPT ![k] = b]
    BY <1>7, <2>2
  <2>3. ~NewIndirect(B, T, D, c, c.blk)
    BY <1>1, <1>2, <1>6 DEF NewIndirect
  <2> QED
    BY <1>1, <2>1, <2>2, <2>3 DEF TargetOK
<1>9. SUFFICES ASSUME NEW j \in Inums, NEW y \in Nat, IsEntry(T2, j, y)
               PROVE  \/ IsEntry(T, j, y) /\ EntryAt(T2, D, j, y) = EntryAt(T, D, j, y)
                      \/ j = i /\ y = c.pos /\ EntryAt(T2, D, j, y) = e
  BY DEF EntryMore
<1>10. CASE j # i
  BY <1>9, <1>10 DEF TableSet, IsEntry, EntryAt
<1>11. CASE j = i
  <2>1. T2[i] = n
    BY <1>1 DEF TableSet
  <2>2. y < x + 1
    BY <1>5, <1>9, <1>11, <2>1 DEF IsEntry
  <2>3. CASE y = x
    BY <1>1, <1>3, <1>8, <1>11, <2>1, <2>3 DEF EntryAt
  <2>4. CASE y < x
    <3>1. IsEntry(T, i, y)
      BY <1>4, <2>4 DEF IsEntry
    <3>2. PICK l : l = y \div BlockSize
      OBVIOUS
    <3>3. l \in 0..Direct /\ T[i].addr[l] # 0
      BY <1>2, <1>3, <3>1, <3>2, EntryPlace
    <3>4. n.addr[l] = T[i].addr[l]
      BY <1>8, <3>3
    <3> QED
      BY <1>11, <2>1, <3>1, <3>2, <3>4 DEF EntryAt
  <2> QED
    BY <1>3, <1>9, <2>2, <2>3, <2>4
<1> QED
  BY <1>10, <1>11

(* The inode that has grown is written. *)
LEMMA UpdateSizeNames ==
  ASSUME NEW w \in Procs, NInv(w), NEW p \in Procs, UpdateSize(p)
  PROVE  NamesNext(w)
<1>1. PICK c, i : c = call[p] /\ i = c.ino.inode_index
  OBVIOUS
<1>0. IInv(w) /\ NamesIn(itab, data, torn, call[w])
  BY DEF NInv
<1>2. /\ c.pc = "UpdateSize" /\ UNCHANGED <<data, torn>> /\ ~Calm(call[p]) /\ c.pc \in Writes
  BY <1>1 DEF UpdateSize, Calm, Writes
<1>3. /\ p = w /\ TableOK(itab) /\ DOMAIN c = Fields /\ WriterOK(bmap, itab, data, c)
      /\ DiskOK(bmap, itab, data) /\ c = call[w] /\ DirsSmall(itab)
  BY <1>0, <1>1, <1>2, WriterIs
<1>4. /\ PieceOK(itab, c) /\ TargetOK(bmap, itab, data, c)
      /\ c.ino.size = c.pos + PieceLen(c)
  BY <1>1, <1>2, <1>3 DEF WriterOK, WriteOK
<1>5. c.ino \in InodeDef /\ i \in Inums /\ c.pos \in Nat
  BY <1>1, <1>4, PieceIs
<1>6. StoreInode(c, c.ino) /\ Advance(w, c)
  <2>1. StoreInode(call[p], call[p].ino) /\ Advance(p, call[p])
    BY Zenon DEF UpdateSize
  <2>2. StoreInode(c, c.ino)
    BY <1>1, <2>1, Zenon DEF StoreInode
  <2>3. Advance(w, c)
    BY <1>1, <1>3, <2>1, Zenon DEF Advance, WriteReturns, Step, Returned, WrittenInode, PieceLen
  <2> QED
    BY <2>2, <2>3
<1>7. TableSet(itab, itab', i, c.ino)
  <2>1. \A j \in DOMAIN c.inodes : j \in Inums => c.inodes[j] = itab[j]
    BY <1>3 DEF WriterOK
  <2> QED
    BY <1>1, <1>5, <1>6, <2>1, Stored
<1>8. NoneFreed(itab, itab') /\ c.ino.type = itab[i].type
  BY <1>1, <1>4, <1>7 DEF NoneFreed, TableSet, PieceOK
<1>9. c.level \in Nat /\ Unnamed(c) = {} /\ Unnamed(call[w]) = {}
  BY <1>0, <1>2, <1>3 DEF NamesIn, NameOK, Unnamed
<1>10. CASE c.op = "write"
  <2>1. c.ino.type = "regular_file"
    BY <1>4, <1>10 DEF PieceOK
  <2>2. SameEntries(itab, data, itab', data')
    <3>1. SameEntries(itab, data, itab', data)
      BY <1>5, <1>7, <2>1 DEF SameEntries, IsEntry, EntryAt, TableSet
    <3> QED
      BY <1>2, <3>1
  <2>3. PICK f : Step(w, f) /\ NameFree(f)
    BY <1>3, <1>4, <1>6, <1>9, AdvanceNames
  <2>4. NameOK(itab', data', f)
    BY <2>3, FreeName
  <2> QED
    BY <1>2, <1>8, <1>9, <2>2, <2>3, <2>4, NamesStep
<1>11. CASE c.op # "write"
  <2>1. PICK e : e = data[c.blk][c.pos % BlockSize]
    OBVIOUS
  <2>2. EntryMore(itab, data, itab', data, i, c.pos, e)
    BY <1>1, <1>3, <1>4, <1>7, <1>11, <2>1, DirMore
  <2>3. /\ HasNot(itab, data, i, c.path[c.level]) /\ c.rest[1].name = c.path[c.level]
        /\ data[c.blk][c.pos % BlockSize] = c.rest[1]
    BY <1>0, <1>1, <1>2, <1>3, <1>11 DEF NamesIn, NameOK, Naming
  <2>4. c.rest[1].val = c.new /\ c.new \in Inums /\ itab[c.new].type = "none"
    BY <1>4, <1>11 DEF PieceOK, CreateOK
  <2>5. e.name = c.path[c.level] /\ e.val = c.new
    BY <2>1, <2>3, <2>4
  <2>6. NamesOnce(itab, data, torn) /\ NamesTaken(itab, data, torn, {})
    BY <1>0, <1>9 DEF NamesIn
  <2>7. HasNot(itab, data, i, e.name) /\ itab[e.val].type = "none"
    BY <2>3, <2>4, <2>5
  <2>8. NamesOnce(itab', data, torn) /\ NamesTaken(itab', data, torn, {e.val})
    BY <1>3, <1>5, <1>8, <2>2, <2>6, <2>7, NamesMore
  <2>9. PICK f : Step(w, f) /\ NameFree(f) /\ f.pc = "UpdateNew" /\ f.new = c.new
    BY <1>3, <1>4, <1>6, <1>9, <1>11, AdvanceNames
  <2>10. Unnamed(f) = {e.val} /\ NameOK(itab', data, f) /\ call'[w] = f
    BY <1>0, <2>5, <2>9, FreeName, StepIs DEF Unnamed
  <2>11. NamesIn(itab', data, torn, f)
    BY <2>8, <2>10 DEF NamesIn
  <2> QED
    BY <1>2, <2>10, <2>11 DEF NamesNext
<1> QED
  BY <1>10, <1>11

(* The inode of the name is written, and nothing is unnamed any more. *)
LEMMA UpdateNewInodeNames ==
  ASSUME NEW w \in Procs, NInv(w), NEW p \in Procs, UpdateNewInode(p)
  PROVE  NamesNext(w)
<1>1. PICK c, d, i, n : /\ c = call[p] /\ d = [c EXCEPT !.inodes = <<>>] /\ i = c.new
                        /\ n = TargetInode(c)
  OBVIOUS
<1>0. IInv(w) /\ NamesIn(itab, data, torn, call[w])
  BY DEF NInv
<1>2. /\ c.pc = "UpdateNew" /\ UNCHANGED <<data, torn>> /\ ~Calm(call[p])
  BY <1>1 DEF UpdateNewInode, Calm
<1>3. /\ p = w /\ DOMAIN c = Fields /\ WriterOK(bmap, itab, data, c)
      /\ DiskOK(bmap, itab, data) /\ c = call[w]
  BY <1>0, <1>1, <1>2, WriterIs
<1>4. CreateOK(itab, c) /\ i \in Inums /\ c.type # "none"
  BY <1>1, <1>2, <1>3 DEF WriterOK, CreateOK
<1>5. n.inode_index = i /\ n.type # "none" /\ n.size = 0
  <2>1. PICK t : t = IF LastLevel(c) THEN c.type ELSE "directory"
    OBVIOUS
  <2>2. t # "none"
    BY <1>4, <2>1
  <2>3. n = [inode_index |-> i, type |-> t, size |-> 0, addr |-> [k \in 0..Direct |-> 0]]
    BY <1>1, <2>1 DEF TargetInode, EmptyInode
  <2> QED
    BY <2>2, <2>3
<1>6. StoreInode(c, n)
  <2>1. StoreInode(call[p], TargetInode(call[p]))
    BY Zenon DEF UpdateNewInode
  <2> QED
    BY <1>1, <2>1, Zenon DEF StoreInode
<1>7. TableSet(itab, itab', i, n)
  <2>1. \A j \in DOMAIN c.inodes : j \in Inums => c.inodes[j] = itab[j]
    BY <1>3 DEF WriterOK
  <2> QED
    BY <1>4, <1>5, <1>6, <2>1, Stored
<1>8. NoneFreed(itab, itab') /\ SameEntries(itab, data, itab', data) /\ itab'[i].type # "none"
  <2>1. NoneFreed(itab, itab') /\ itab'[i].type # "none"
    BY <1>5, <1>7 DEF NoneFreed, TableSet
  <2>2. ASSUME NEW j \in Inums, NEW x \in Nat, IsEntry(itab', j, x) PROVE itab'[j] = itab[j]
    <3>1. j # i
      BY <1>5, <1>7, <2>2 DEF TableSet, IsEntry
    <3> QED
      BY <1>7, <3>1 DEF TableSet
  <2>3. SameEntries(itab, data, itab', data)
    BY <2>2 DEF SameEntries, IsEntry, EntryAt
  <2> QED
    BY <2>1, <2>3
<1>9. c.level \in Nat /\ NameFree(c) /\ Unnamed(c) = {i}
  BY <1>0, <1>1, <1>2, <1>3 DEF NamesIn, NameOK, NameFree, Naming, Writes, Unnamed
<1>10. NamesIn(itab', data, torn, c)
  <2>1. NameOK(itab', data, c)
    BY <1>9, FreeName
  <2> QED
    BY <1>0, <1>3, <1>8, <2>1, NamesSame
<1>11. NamesOnce(itab', data, torn) /\ NamesTaken(itab', data, torn, {})
  BY <1>8, <1>9, <1>10 DEF NamesIn, NamesTaken
<1>12. \E f : Step(p, f) /\ NameFree(f)
  <2>1. DOMAIN d = Fields /\ d.level = c.level
    BY <1>1, <1>3 DEF Fields
  <2>2. \/ Step(p, [NextLevel(d) EXCEPT !.cur = d.new])
        \/ \E r : Step(p, Returned(d, r))
    <3>1. Created(p, [call[p] EXCEPT !.inodes = <<>>])
      BY Zenon DEF UpdateNewInode
    <3>2. \/ Step(p, [NextLevel([call[p] EXCEPT !.inodes = <<>>])
                        EXCEPT !.cur = [call[p] EXCEPT !.inodes = <<>>].new])
          \/ \E r : Step(p, Returned([call[p] EXCEPT !.inodes = <<>>], r))
      BY <3>1, Zenon DEF Created, InstallFd
    <3>3. d = [call[p] EXCEPT !.inodes = <<>>]
      BY <1>1
    <3> QED
      BY <3>2, <3>3, Zenon
  <2>3. CASE Step(p, [NextLevel(d) EXCEPT !.cur = d.new])
    <3>1. PICK f, x, l : /\ x = d.new /\ l = d.level + 1
                         /\ f = [d EXCEPT !.pc = "GetInode", !.level = l, !.left = 1, !.cur = x]
      OBVIOUS
    <3>2. f = [NextLevel(d) EXCEPT !.cur = d.new]
      BY <2>1, <3>1 DEF NextLevel, Fields
    <3>3. f.pc = "GetInode" /\ f.level = c.level + 1
      BY <2>1, <3>1 DEF Fields
    <3>4. NameFree(f)
      BY <1>9, <3>3 DEF NameFree, Naming, Writes
    <3> QED
      BY <2>3, <3>2, <3>4
  <2> QED
    BY <2>2, <2>3, ReturnedFree
<1>13. PICK f : Step(w, f) /\ NameFree(f)
  BY <1>3, <1>12
<1>14. NameOK(itab', data, f) /\ call'[w] = f
  BY <1>0, <1>13, FreeName, StepIs
<1>15. NamesTaken(itab', data, torn, Unnamed(f))
  BY <1>11 DEF NamesTaken
<1>16. NamesIn(itab', data, torn, f)
  BY <1>11, <1>14, <1>15 DEF NamesIn
<1> QED
  BY <1>2, <1>14, <1>16 DEF NamesNext

(* A crash: what was unnamed is torn. *)
LEMMA CrashNames ==
  ASSUME NEW w \in Procs, NInv(w), Crash
  PROVE  NamesNext(w)
<1>1. NamesIn(itab, data, torn, call[w])
  BY DEF NInv
<1>2. /\ torn' = torn \cup {call[p].new : p \in {q \in Procs : call[q].pc = "UpdateNew"}}
      /\ call' = [p \in Procs |-> Idle] /\ itab' = itab /\ data' = data
  BY DEF Crash, disk
<1>3. torn \subseteq torn' /\ Unnamed(call[w]) \subseteq torn'
  BY <1>2 DEF Unnamed
<1>4. NamesOnce(itab, data, torn')
  BY <1>1, <1>3 DEF NamesIn, NamesOnce
<1>5. NamesTaken(itab, data, torn', Unnamed(Idle))
  BY <1>1, <1>3 DEF NamesIn, NamesTaken
<1>6. NameFree(Idle)
  BY IdleIs DEF NameFree, Naming, Writes
<1>7. NameOK(itab, data, Idle)
  BY <1>6, FreeName
<1>8. NamesIn(itab, data, torn', Idle) /\ call'[w] = Idle
  BY <1>2, <1>4, <1>5, <1>7 DEF NamesIn
<1> QED
  BY <1>2, <1>8 DEF NamesNext

(* Every step keeps the names in order. *)
LEMMA NextNames ==
  ASSUME NEW w \in Procs, OneWriter(w), NInv(w), [CarefulNext]_vars
  PROVE  NInv(w)'
<1>1. IInv(w)'
  BY NextOK DEF NInv
<1>2. NamesNext(w)
  <2>1. CASE UNCHANGED vars
    BY <2>1 DEF vars, NInv, NamesNext
  <2>2. CASE Crash
    BY <2>2, CrashNames
  <2>3. ASSUME NEW p \in Procs, Calls(p) PROVE NamesNext(w)
    BY <2>3, CallsNames
  <2>4. ASSUME NEW p \in Procs, Runs(p) PROVE NamesNext(w)
    <3>1. CASE GetInode(p) \/ IteratorDir(p) \/ Read(p)
      BY <3>1, GetInodeNames, IteratorDirNames, ReadNames
    <3>2. CASE CreateImpl(p) \/ AllocInode(p)
      BY <3>2, CreateImplNames, AllocInodeNames
    <3>3. CASE UpdateInodeRead(p) \/ UpdateNewInode(p)
      BY <3>3, UpdateInodeReadNames, UpdateNewInodeNames
    <3>4. CASE WriteImpl(p) \/ ReadForWrite(p) \/ AllocDataBlockRead(p) \/ AllocDataBlockWrite(p)
      BY <3>4, WriteImplNames, AllocNames
    <3>5. CASE WriteIndirect(p) \/ WriteData(p) \/ UpdateSize(p)
      BY <3>5, WriteIndirectNames, WriteDataNames, UpdateSizeNames
    <3> QED
      BY <2>4, <3>1, <3>2, <3>3, <3>4, <3>5 DEF Runs
  <2>5. ASSUME NEW p \in Procs, CreateCarefully(p) PROVE NamesNext(w)
    BY <2>5, CallCreateNames DEF CreateCarefully, SysCreate
  <2>6. ASSUME NEW p \in Procs, WriteCarefully(p) PROVE NamesNext(w)
    BY <2>6, CallWriteNames DEF WriteCarefully
  <2> QED
    BY <2>1, <2>2, <2>3, <2>4, <2>5, <2>6 DEF CarefulNext
<1> QED
  BY <1>1, <1>2 DEF NInv, NamesNext

(* The entries of the image: those of the root directory, in order. *)
LEMMA MkfsEntry ==
  ASSUME NEW i \in Inums, NEW x \in Nat, IsEntry(MkfsTable, i, x), NEW e,
         e = EntryAt(MkfsTable, MkfsDisk, i, x)
  PROVE  /\ i = Root /\ x + 1 \in 1..Len(MkfsFiles) /\ x + 1 \in Inums
         /\ e.name = MkfsFiles[x + 1].name /\ e.val = x + 1
         /\ MkfsTable[x + 1].type = "regular_file"
<1>0. InodeNum \in Nat \ {0} /\ Len(MkfsFiles) \in Nat /\ Len(MkfsFiles) < InodeNum
  BY SizeAssumption, MkfsAssumption
<1>1. MkfsTable[i].type = "directory" /\ x < MkfsTable[i].size
  BY DEF IsEntry
<1>2. i \notin 1..Len(MkfsFiles)
  BY <1>1, MkfsTableIs, MkfsFields
<1>3. i = Root
  BY <1>1, <1>2, MkfsTableIs, MkfsFields
<1>4. MkfsTable[i] = RootInode /\ x < Len(MkfsFiles)
  BY <1>1, <1>3, MkfsTableIs, MkfsFields
<1>5. x \in 0..(Len(MkfsFiles) - 1) /\ x + 1 \in 1..Len(MkfsFiles) /\ x + 1 \in Inums
  BY <1>0, <1>4 DEF Inums
<1>6. PICK b : b = RootInode.addr[x \div BlockSize]
  OBVIOUS
<1>7. b \in Blocks /\ MkfsData(b)[x % BlockSize] = DirElement(MkfsFiles[x + 1].name, x + 1)
  BY <1>5, <1>6, RootCell
<1>8. e = DirElement(MkfsFiles[x + 1].name, x + 1)
  BY <1>4, <1>6, <1>7, MkfsDiskIs DEF EntryAt
<1>9. e.name = MkfsFiles[x + 1].name /\ e.val = x + 1
  BY <1>8 DEF DirElement
<1>10. MkfsTable[x + 1].type = "regular_file"
  BY <1>5, MkfsTableIs, MkfsFields
<1> QED
  BY <1>3, <1>5, <1>9, <1>10

(* The names of the image are in order. *)
LEMMA InitNames ==
  ASSUME NEW w \in Procs, DistinctNames, Init
  PROVE  NInv(w)
<1>1. itab = MkfsTable /\ data = MkfsDisk /\ call = [p \in Procs |-> Idle]
  BY DEF Init, MkfsTable, MkfsDisk
<1>2. IInv(w)
  BY InitOK
<1>3. NamesOnce(MkfsTable, MkfsDisk, torn)
  <2>1. SUFFICES ASSUME NEW i \in Inums, NEW j \in Inums, NEW x \in Nat, NEW y \in Nat,
                        IsEntry(MkfsTable, i, x), IsEntry(MkfsTable, j, y), i # j \/ x # y,
                        NEW e, e = EntryAt(MkfsTable, MkfsDisk, i, x),
                        NEW f, f = EntryAt(MkfsTable, MkfsDisk, j, y)
                 PROVE  e.name # f.name /\ e.val # f.val
    BY DEF NamesOnce
  <2>2. /\ i = Root /\ x + 1 \in 1..Len(MkfsFiles)
        /\ e.name = MkfsFiles[x + 1].name /\ e.val = x + 1
    BY <2>1, MkfsEntry
  <2>3. /\ j = Root /\ y + 1 \in 1..Len(MkfsFiles)
        /\ f.name = MkfsFiles[y + 1].name /\ f.val = y + 1
    BY <2>1, MkfsEntry
  <2>4. x + 1 # y + 1
    BY <2>1, <2>2, <2>3
  <2> QED
    BY <2>2, <2>3, <2>4 DEF DistinctNames
<1>4. NamesTaken(MkfsTable, MkfsDisk, torn, Unnamed(call[w]))
  <2>1. SUFFICES ASSUME NEW i \in Inums, NEW x \in Nat, IsEntry(MkfsTable, i, x)
                 PROVE  MkfsTable[EntryAt(MkfsTable, MkfsDisk, i, x).val].type # "none"
    BY DEF NamesTaken
  <2>2. PICK e : e = EntryAt(MkfsTable, MkfsDisk, i, x)
    OBVIOUS
  <2>3. e.val = x + 1 /\ MkfsTable[x + 1].type = "regular_file"
    BY <2>1, <2>2, MkfsEntry
  <2> QED
    BY <2>2, <2>3
<1>5. NameOK(MkfsTable, MkfsDisk, Idle)
  <2>1. NameFree(Idle)
    BY IdleIs DEF NameFree, Naming, Writes
  <2> QED
    BY <2>1, FreeName
<1>6. NamesIn(itab, data, torn, call[w])
  BY <1>1, <1>3, <1>4, <1>5 DEF NamesIn
<1> QED
  BY <1>2, <1>6 DEF NInv

(* What the invariant says of the entries. *)
LEMMA NamesDo ==
  ASSUME NEW w \in Procs, NInv(w)
  PROVE  NamesLead
<1>1. DiskOK(bmap, itab, data) /\ TableOK(itab) /\ DirsSmall(itab)
  <2>1. /\ DiskOK(bmap, itab, data) /\ TableOK(itab) /\ crashes \in Nat /\ crashes <= MaxCrashes
        /\ WriterIn(w, bmap, itab, data, call[w], fds[w], crashes)
    BY DEF NInv, IInv, Good, DiskOK
  <2> QED
    BY <2>1, DirSmall
<1>2. ASSUME NEW e \in Entries
      PROVE  /\ e = <<e[1], e[2]>> /\ e[1] \in Inums /\ e[2] \in Nat \ {0} /\ e[2] - 1 \in Nat
             /\ IsEntry(itab, e[1], e[2] - 1)
             /\ Entry(e) = EntryAt(itab, data, e[1], e[2] - 1)
  <2>1. PICK i \in Inums : itab[i].type = "directory" /\ \E k \in 1..itab[i].size : e = <<i, k>>
    BY <1>2 DEF Entries
  <2>2. PICK k \in 1..itab[i].size : e = <<i, k>>
    BY <2>1
  <2>3. itab[i].size \in Nat
    BY <1>1, <2>1 DEF TableOK, InodeDef
  <2>4. PICK x : x = k - 1
    OBVIOUS
  <2>5. x \in Nat /\ x < itab[i].size /\ k \in Nat \ {0}
    BY <2>2, <2>3, <2>4
  <2>6. IsEntry(itab, i, x)
    BY <2>1, <2>5 DEF IsEntry
  <2>7. PICK l : l = x \div BlockSize
    OBVIOUS
  <2>8. l \in 0..(Direct - 1)
    BY <1>1, <2>5, <2>6, <2>7, EntryPlace
  <2>9. BlockAt(itab[i], l) = itab[i].addr[l]
    <3>1. l < Direct
      BY <2>8, SizeAssumption
    <3> QED
      BY <3>1 DEF BlockAt
  <2>10. Content(itab[i])[k] = data[BlockAt(itab[i], (k - 1) \div BlockSize)][(k - 1) % BlockSize]
    BY <2>2 DEF Content
  <2>11. Entry(e) = EntryAt(itab, data, i, x)
    BY <2>2, <2>4, <2>7, <2>9, <2>10 DEF Entry, EntryAt
  <2> QED
    BY <2>2, <2>4, <2>5, <2>6, <2>11
<1>3. NamesOnce(itab, data, torn) /\ NamesTaken(itab, data, torn, Unnamed(call[w]))
  BY DEF NInv, NamesIn
<1>4. ASSUME NEW e \in Entries, NEW f \in Entries, e # f
      PROVE  /\ Entry(e).name = Entry(f).name => e[1] # f[1]
             /\ Entry(e).val = Entry(f).val => Entry(e).val \in torn
  <2>1. PICK i, x, j, y : i = e[1] /\ x = e[2] - 1 /\ j = f[1] /\ y = f[2] - 1
    OBVIOUS
  <2>2. i \in Inums /\ x \in Nat /\ IsEntry(itab, i, x) /\ Entry(e) = EntryAt(itab, data, i, x)
    BY <1>2, <2>1
  <2>3. j \in Inums /\ y \in Nat /\ IsEntry(itab, j, y) /\ Entry(f) = EntryAt(itab, data, j, y)
    BY <1>2, <2>1
  <2>4. i # j \/ x # y
    <3>1. e = <<e[1], e[2]>> /\ f = <<f[1], f[2]>> /\ e[2] \in Nat /\ f[2] \in Nat
      BY <1>2
    <3>2. e[1] # f[1] \/ e[2] # f[2]
      BY <1>4, <3>1
    <3> QED
      BY <2>1, <3>1, <3>2
  <2>5. /\ EntryAt(itab, data, i, x).name = EntryAt(itab, data, j, y).name => i # j
        /\ EntryAt(itab, data, i, x).val = EntryAt(itab, data, j, y).val =>
             EntryAt(itab, data, i, x).val \in torn
    BY <1>3, <2>2, <2>3, <2>4 DEF NamesOnce
  <2> QED
    BY <2>1, <2>2, <2>3, <2>5
<1>5. ASSUME NEW e \in Entries
      PROVE  \/ itab[Entry(e).val].type # "none"
             \/ Entry(e).val \in torn
             \/ \E p \in Procs : call[p].pc = "UpdateNew" /\ call[p].new = Entry(e).val
  <2>1. PICK i, x : i = e[1] /\ x = e[2] - 1
    OBVIOUS
  <2>2. i \in Inums /\ x \in Nat /\ IsEntry(itab, i, x) /\ Entry(e) = EntryAt(itab, data, i, x)
    BY <1>2, <2>1
  <2>3. \/ itab[Entry(e).val].type # "none"
        \/ Entry(e).val \in torn \cup Unnamed(call[w])
    BY <1>3, <2>2 DEF NamesTaken
  <2>4. Entry(e).val \in Unnamed(call[w]) => call[w].pc = "UpdateNew" /\ call[w].new = Entry(e).val
    BY DEF Unnamed
  <2> QED
    BY <2>3, <2>4
<1> QED
  BY <1>4, <1>5 DEF NamesLead

-----------------------------------------------------------------------------
(* With one careful writer and an image whose files have different names,   *)
(* a directory has a name once, an inode has one name, and a name leads to  *)
(* a file: at every moment between the disk operations of Create and        *)
(* CreateImpl, whatever the other processes look up meanwhile. An inode of  *)
(* type none is named only while UpdateNew is still to come, or when a      *)
(* crash cut the creation there.                                            *)
THEOREM NamesStayLeading ==
  ASSUME NEW w \in Procs, OneWriter(w), DistinctNames
  PROVE  CarefulSpec => []NamesLead
<1>1. Init => NInv(w)
  BY InitNames
<1>2. NInv(w) /\ [CarefulNext]_vars => NInv(w)'
  BY NextNames
<1>3. NInv(w) => NamesLead
  BY NamesDo
<1> QED
  BY <1>1, <1>2, <1>3, PTL DEF CarefulSpec
=============================================================================
