\* One call, two other lines, limits that cut.
CONSTANTS
  c1 = c1
  NULL = NULL
  Call = {c1}
  Timeout = 1
  Sleep = 2
  MaxTime = 2
  MaxPerSignal = 3
  MaxNoise = 2
  MaxLag = 1
  MaxAmiss = 1
SPECIFICATION Spec
VIEW CaptureView
INVARIANTS AnswerTrue CaptureAccepted RetryStable FailureLeavesEvidence
CHECK_DEADLOCK FALSE
