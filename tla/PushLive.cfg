CONSTANTS
  None = None
  Torn = Torn
  Bytes <- PushBytes
  Push <- TwoPushes
  Times <- TwoTimes
  BufferSize = 10
  MaxInFlight = 10
  MaxEchoes = 1
  MaxDelivered = 3
  Environments = {{"fail", "restart", "close"}}
SPECIFICATION FairSpec
PROPERTIES EachPushArrives BreakReported
