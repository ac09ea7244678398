\* Liveness: one page, a script, two handlers.
CONSTANTS
  pg1 = pg1  pg2 = pg2  d1 = d1  d2 = d2  h1 = h1  h2 = h2
  NULL = NULL
  Page = {pg1}
  Decision = {d1, d2}
  Handler = {h1, h2}
  MaxFaults = 1
SPECIFICATION FairSpec
PROPERTIES DecisionLearned
