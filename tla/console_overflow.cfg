CONSTANTS
  MaxProcessNum = 1
  None = None
  SleepChannel = SleepChannel
  console_channel = console_channel
  DriverChannels = {console_channel}
  BufLen = 4
  IndexMod = 4
  Printable = {"x"}
  MaxLen = 3
  Throttled = FALSE
SPECIFICATION Spec
PROPERTY ImplementsFifo
