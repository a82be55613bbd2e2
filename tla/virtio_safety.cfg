CONSTANTS
  MaxProcessNum = 3
  None = None
  SleepChannel = SleepChannel
  channel_ = channel_
  DriverChannels = {channel_}
  QueueSize = 6
  MaxOps = 3
SPECIFICATION Spec
INVARIANT TypeOK
INVARIANT DescriptorsOwned
INVARIANT FlagTracksDevice
INVARIANT SleeperHasRequest
INVARIANT StatusWritten
CHECK_DEADLOCK FALSE
