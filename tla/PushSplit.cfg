CONSTANTS
  None = None
  Torn = Torn
  Bytes <- PushBytes
  Push <- TwoPushes
  Times <- TwoTimes
  BufferSize = 11
  MaxInFlight = 11
  MaxEchoes = 1
  MaxDelivered = 3
  Environments = {{"split"}}
SPECIFICATION FairSpec
PROPERTY EachPushArrives
