SPECIFICATION Spec
CONSTANTS
  c1 = c1
  c2 = c2
  A = A
  B = B
  Calls <- TwoCalls
  Impatient = {}
  Topics <- MCTopics
  Requests <- Additions
  AlwaysRejected = {B}
  MayReject = {B}
  Faults = {}
  PacingBinds = FALSE
  AutoReconnect = TRUE
  MayClose = FALSE
  MaxFaults = 0
  MaxConns = 1
INVARIANTS RejectionIsReturned
CHECK_DEADLOCK FALSE
