CONSTANTS
  None = None
  Torn = Torn
  Bytes <- PushBytes
  Push <- QuotedPushes
  Times <- TwoTimes
  BufferSize = 17
  MaxInFlight = 17
  MaxEchoes = 1
  MaxDelivered = 3
  Environments = {{"stale"}}
SPECIFICATION Spec
INVARIANT DeliveredArePushes
