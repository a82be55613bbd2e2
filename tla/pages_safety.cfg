CONSTANTS
  PageNum = 9
  KernelPages = 3
  ByteBits = 3
  Runs = {1, 2}
  Spare = 1
  Null = Null
SPECIFICATION Spec
INVARIANT TypeOK
INVARIANT ListMatchesBitmap
PROPERTY ImplementsPool
CHECK_DEADLOCK FALSE
