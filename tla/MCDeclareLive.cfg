SPECIFICATION FairSpec
CONSTANTS
  c1 = c1
  c2 = c2
  A = A
  B = B
  Calls <- TwoCalls
  Impatient = {}
  Topics <- MCTopics
  Requests <- LiveRequests
  AlwaysRejected = {B}
  MayReject = {B}
  Faults = {"rateLimit", "error", "errorNoID"}
  PacingBinds = FALSE
  AutoReconnect = TRUE
  MayClose = TRUE
  MaxFaults = 1
  MaxConns = 2
INVARIANTS NoOrphanWaiter
PROPERTIES EveryCallReturns EventuallyInSync
CHECK_DEADLOCK FALSE
