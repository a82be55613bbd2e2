CONSTANTS
  MaxProcessNum = 2
  None = None
  SleepChannel = SleepChannel
  console_channel = console_channel
  DriverChannels = {console_channel}
  BufLen = 4
  IndexMod = 4
  Printable = {"x"}
  MaxLen = 2
  Throttled = TRUE
SPECIFICATION FairSpec
INVARIANT TypeOK
INVARIANT NoSleeperOnLine
PROPERTY ImplementsFifo
PROPERTY LineDelivered
CHECK_DEADLOCK FALSE
