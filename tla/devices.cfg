CONSTANTS
  QueueSize = 2
  MaxEvents = 3
  Users = {"lcd"}
  MaxCalls = 4
SPECIFICATION FairSpec
INVARIANT DevicesReady
INVARIANT BuffersOffered
INVARIANT GpuAgrees
PROPERTY GpuReturns
CHECK_DEADLOCK FALSE
