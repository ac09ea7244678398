\* One job, the real attempt budget, clocks that differ.
CONSTANTS
  i1 = i1  w1 = w1  w2 = w2
  NULL = NULL
  Inv = {i1}
  Worker = {w1, w2}
  MaxAttempts = 3
  Lease = 2
  RetryDelay = 1
  Skew <- Ahead
  ApiSkew = 1
  Serves <- ServeOne
  Steady = {w1}
  FreeTime = 0
SPECIFICATION Spec
INVARIANTS TypeOK RowsAgree OneClaimPerAttempt TimesOrdered AuditTrail
PROPERTIES LeaseNeverCutShort FencedOutcome ImplementsLifecycle
