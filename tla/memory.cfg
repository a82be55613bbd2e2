CONSTANTS
  Slots = {1, 2}
  PageNum = 30
  PageSize = 2
  Fan = 2
  MaxRegions = 3
  InitImage <- Shell
  Images <- Programs
  Libraries <- Libs
  MaxExecs = 1
  Sizes = {2, 3}
  GrowUnits = 4
  MaxUserOps = 3
SPECIFICATION Spec
INVARIANT PagesAccounted
INVARIANT RegionsMapped
INVARIANT HeapSound
PROPERTY ImplementsPrivateMemory
CHECK_DEADLOCK FALSE
