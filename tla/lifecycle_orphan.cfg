CONSTANTS
  MaxProcessNum = 4
  None = None
  SleepChannel = SleepChannel
  DriverChannels = {}
  MaxPid = 4
  MaxSleep = 0
  Calls <- ShellCalls
SPECIFICATION FairSpec
PROPERTY OrphanReaped
