SPECIFICATION FairSpec
CONSTANTS
  r1 = r1
  r2 = r2
  Requests = {r1, r2}
  Dialers = {d1}
  Mixes <- MCMixes
  Callers = {r1, r2, d1}
  Nobody = Nobody
  Nil = Nil
  Decimals <- MCDecimals
  Scale = 2
  Lifetimes = {3}
  Margin = 1
  Timeout = 1
  MaxTokens = 3
  MaxOthers = 1
  MaxTime = 4
INVARIANTS TypeOK FreshIsLatest FreshIsAlive NoDoubleEffect SentAsAsked RefusedNotCached RetryUsesNewToken RetrySuffices
PROPERTIES KeepsFresher EveryRequestReturns
CHECK_DEADLOCK FALSE
