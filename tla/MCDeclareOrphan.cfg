SPECIFICATION Spec
CONSTANTS
  c1 = c1
  c2 = c2
  A = A
  B = B
  Calls <- TwoCalls
  Impatient = {}
  Topics <- MCTopics
  Requests <- Additions
  AlwaysRejected = {}
  MayReject = {}
  Faults = {}
  PacingBinds = TRUE
  AutoReconnect = TRUE
  MayClose = FALSE
  MaxFaults = 0
  MaxConns = 2
INVARIANTS NoOrphanWaiter
CHECK_DEADLOCK FALSE
