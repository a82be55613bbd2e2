CONSTANTS
  MaxProcessNum = 3
  None = None
  SleepChannel = SleepChannel
  DriverChannels = {}
  MaxPid = 3
  MaxSleep = 0
  Calls <- TameCalls
SPECIFICATION Spec
INVARIANT NoKernelException
