CONSTANTS
  Writer = Writer
  Reader = Reader
  DirD = DirD
  FileA = FileA
  FileF = FileF
  None = None
  Procs = {Writer, Reader}
  Names = {DirD, FileA, FileF}
  BlockSize = 4
  Direct = 1
  BlockNum = 7
  InodeNum = 4
  InodesPerBlock = 2
  FdNum = 2
  MkfsFiles <- Image
  Paths <- PathsOf
  WriteBufs <- WritesOf
  ReadBufs <- ReadsOf
  StackWords = {0, 5}
  MaxCalls <- CallsOf
  MaxCrashes = 1
SPECIFICATION CarefulSpec
INVARIANT BlocksOwned
INVARIANT CopiesAgree
INVARIANT NamesLead
INVARIANT CallsTrue
PROPERTY ImplementsStore
CHECK_DEADLOCK FALSE
