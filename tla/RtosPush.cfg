SPECIFICATION TaskSpec
CONSTANTS
  Tasks = {main, push}
  PushTask = push
  Requests = {r1, r2}
  Handles = {0, 1}
  Nobody = Nobody
  None = None
  Torn = Torn
  Environments = {
    {"push", "fail", "power", "close"},
    {"push", "flash", "power"},
    {"push", "split", "stale"},
    {"push", "again"},
    {"push", "request"},
    {"request", "overlap", "unsent"},
    {"request", "overlap", "close"},
    {"request", "overlap", "fail", "twice"}}
  Bytes <- PushBytes
  Push <- TwoPushes
  Times <- TwoTimes
  Hello <- ShortHello
  Clocks <- TwoClocks
  RECEIVE_BUFFER_SIZE = 8
  PUSH_KEEP_ALIVE = 30
  MaxFailedPings = 0
  MaxInFlight = 8
  MaxDelivered = 3
INVARIANTS TypeOK SocketsOwned NoSocketLost BufferConsistent OwnResponse
PROPERTIES ImplementsFeed RequestsEnd
CHECK_DEADLOCK FALSE
