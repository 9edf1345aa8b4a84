SPECIFICATION FairSpec
CONSTANTS
  DefaultTradeBuffer = 2
  DefaultOrderBuffer = 1
  DefaultDiagBuffer = 1
  DefaultPingInterval = 60
  DefaultDialTimeout = 10
  DefaultBackoffMin = 1
  DefaultBackoffMax = 30
  DefaultCoalesceDelay = 1
  DefaultRateLimitRetry = 1
  Numerals <- MCNumerals
  NoData = NoData
  Options <- MCOptions
  OrderFrames <- MCOrderFrames
  OtherFrames <- MCOtherFrames
  UserResyncs = FALSE
  MaxItems = 3
  MaxChanges = 3
  MaxConns = 3
INVARIANTS TypeOK LosesOnlyTheExcess OrdersLossless EventsComplete GapIsSignalled
PROPERTIES StreamNeverBlocks ImplementsLossyChannel
CHECK_DEADLOCK FALSE
