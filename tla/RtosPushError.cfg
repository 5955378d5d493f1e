SPECIFICATION LoopSpec
CONSTANTS
  Tasks = {main, push}
  PushTask = push
  Requests = {r1}
  Handles = {1}
  Nobody = Nobody
  None = None
  Torn = Torn
  Environments = {{"fail"}}
  Bytes <- PushBytes
  Push <- TwoPushes
  Times <- TwoTimes
  Hello <- ShortHello
  Clocks <- FourClocks
  RECEIVE_BUFFER_SIZE = 10
  PUSH_KEEP_ALIVE = 600000
  MaxFailedPings = 20
  MaxInFlight = 8
  MaxDelivered = 3
PROPERTY ErrorReported
CHECK_DEADLOCK FALSE
