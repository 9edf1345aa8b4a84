SPECIFICATION Spec
CONSTANTS
  c1 = c1
  c2 = c2
  A = A
  B = B
  Calls <- TwoCalls
  Impatient = {c1}
  Topics <- MCTopics
  Requests <- AllRequests
  AlwaysRejected = {B}
  MayReject = {B}
  Faults = {"rateLimit", "error", "errorNoID"}
  PacingBinds = TRUE
  AutoReconnect = TRUE
  MayClose = TRUE
  MaxFaults = 1
  MaxConns = 2
INVARIANTS TypeOK AtMostOneReply BatchIsLatest SignalMatchesWaiters AckCoversCall InSync RestIsAnswered
PROPERTIES ImplementsConnection
CHECK_DEADLOCK FALSE
