\* Two pages, a script, two handlers and two decisions.
CONSTANTS
  pg1 = pg1  pg2 = pg2  d1 = d1  d2 = d2  h1 = h1  h2 = h2
  NULL = NULL
  Page = {pg1, pg2}
  Decision = {d1, d2}
  Handler = {h1, h2}
  MaxFaults = 1
SPECIFICATION Spec
SYMMETRY Interchangeable
INVARIANTS TypeOK OneDecision ShownIsRecord ConflictTold
