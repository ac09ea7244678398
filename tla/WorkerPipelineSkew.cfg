\* As WorkerPipeline.cfg, but the clock of w2 is ahead of the clock of w1.
CONSTANTS
  i1 = i1  w1 = w1  w2 = w2
  log1 = log1  rate1 = rate1  span1 = span1  span2 = span2  t1 = t1  t2 = t2
  NULL = NULL  Bogus = Bogus
  Inv = {i1}
  Worker = {w1, w2}
  MaxAttempts = 2
  Lease = 1
  RetryDelay = 1
  Skew <- Ahead
  ApiSkew = 0
  Serves <- ServeOne
  Steady = {}
  FreeTime = 0
  Obs = {log1, rate1, span1, span2}
  Signal <- SignalOf
  TraceOf <- TraceIdOf
  Answers <- Found
SPECIFICATION PipelineSpec
INVARIANTS CaptureSuffices
