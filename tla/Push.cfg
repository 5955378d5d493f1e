CONSTANTS
  None = None
  Torn = Torn
  Bytes <- PushBytes
  Push <- QuotedPushes
  Times <- TwoTimes
  BufferSize = 14
  MaxInFlight = 14
  MaxEchoes = 1
  MaxDelivered = 3
  MaxNodes = 3
  Environments = {{"restart", "mute", "fail", "close"}, {"split", "stale"},
                  {"restart", "disk"},
                  {"yun", "fail", "close"}}
SPECIFICATION PushSpec
INVARIANTS TypeOK BufferConsistent ResumePointPersisted FramedBacklog QueueHoldsFeed
PROPERTIES ImplementsFeed
