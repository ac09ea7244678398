\* One job; w1 keeps polling, w2 may crash or hang at any point.
CONSTANTS
  i1 = i1  w1 = w1  w2 = w2
  NULL = NULL
  Inv = {i1}
  Worker = {w1, w2}
  MaxAttempts = 2
  Lease = 2
  RetryDelay = 1
  Skew <- Ahead
  ApiSkew = 0
  Serves <- ServeOne
  Steady = {w1}
  FreeTime = 0
SPECIFICATION FairSpec
PROPERTIES Settles
