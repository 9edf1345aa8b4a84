SPECIFICATION FairSpec
CONSTANTS
  DefaultTradeBuffer = 1024
  DefaultOrderBuffer = 256
  DefaultDiagBuffer = 16
  DefaultPingInterval = 60
  DefaultDialTimeout = 10
  DefaultBackoffMin = 1
  DefaultBackoffMax = 30
  DefaultCoalesceDelay = 1
  DefaultRateLimitRetry = 1
  k1 = k1
  k2 = k2
  Closers <- MCClosers
  AutoOptions = {TRUE, FALSE}
  MaxAttempts = 4
  MaxConns = 4
INVARIANTS TypeOK OneConnection NoSendOnClosed CloseIsComplete CauseIsTrue NoReconnectStorm
PROPERTIES Terminates ImplementsConnection
CHECK_DEADLOCK FALSE
