CONSTANTS
  MaxProcessNum = 2
  None = None
  SleepChannel = SleepChannel
  channel_ = channel_
  DriverChannels = {channel_}
  QueueSize = 6
  MaxOps = 3
SPECIFICATION FairSpec
PROPERTY OperateReturns
CHECK_DEADLOCK FALSE
