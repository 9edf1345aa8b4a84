SPECIFICATION Spec
CONSTANTS
  DefaultTradeBuffer = 1
  DefaultOrderBuffer = 1
  DefaultDiagBuffer = 1
  DefaultPingInterval = 60
  DefaultDialTimeout = 10
  DefaultBackoffMin = 1
  DefaultBackoffMax = 30
  DefaultCoalesceDelay = 1
  DefaultRateLimitRetry = 1
  Numerals <- MCNumerals
  NoData = NoData
  Options <- MCOptions
  OrderFrames <- MCOrderFrames
  OtherFrames <- MCOtherFrames
  UserResyncs = TRUE
  MaxItems = 3
  MaxChanges = 3
  MaxConns = 3
INVARIANT ResyncSuffices
CHECK_DEADLOCK FALSE
