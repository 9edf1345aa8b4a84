SPECIFICATION Spec
CONSTANTS
  r1 = r1
  r2 = r2
  Requests = {r1, r2}
  Dialers = {d1}
  Mixes <- MCMixes
  Callers = {r1, r2, d1}
  Nobody = Nobody
  Nil = Nil
  Decimals <- MCDecimals
  Scale = 2
  Lifetimes = {3}
  Margin = 1
  Timeout = 1
  MaxTokens = 3
  MaxOthers = 1
  MaxTime = 4
INVARIANT RedialUsesNewToken
CHECK_DEADLOCK FALSE
