CONSTANTS
  MaxProcessNum = 2
  None = None
  SleepChannel = SleepChannel
  DriverChannels = {}
  MaxPid = 3
  MaxSleep = 0
  Calls <- TameCalls
SPECIFICATION FairSpec
PROPERTY ShellReaped
