\* Liveness: one persistent browser, one rival, faults at any point.
CONSTANTS
  c1 = c1  c2 = c2  p1 = p1  p2 = p2  h1 = h1  h2 = h2  i1 = i1  i2 = i2
  NULL = NULL
  Client = {c1, c2}
  Payload = {p1}
  Inv = {i1, i2}
  Handler = {h1, h2}
  MaxKeys = 1
  MaxFaults = 2
SPECIFICATION FairSpec
PROPERTIES RetryLearns
CHECK_DEADLOCK FALSE
