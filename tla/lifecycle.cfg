CONSTANTS
  MaxProcessNum = 3
  None = None
  SleepChannel = SleepChannel
  DriverChannels = {}
  MaxPid = 4
  MaxSleep = 2
  Calls <- AnyCalls
SPECIFICATION FairSpec
INVARIANT TypeOK
INVARIANT RunningIsCurrent
INVARIANT SleepHasChannel
INVARIANT InterruptDiscipline
INVARIANT ReapTarget
INVARIANT ForkTarget
INVARIANT PidUnique
INVARIANT WaiterHasChild
INVARIANT TreeWellFormed
PROPERTY LifeCycle
PROPERTY ImplementsTree
PROPERTY RunnableRuns
PROPERTY SleepReturns
PROPERTY WaitFindsZombie
