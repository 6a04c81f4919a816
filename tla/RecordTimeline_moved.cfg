\* Three revisions of one result, one worker, no failure: a country left behind.
SPECIFICATION Spec
CONSTANTS
  w1 = w1  w2 = w2
  Workers = {w1}
  None = None
  Results = {1}
  Absorbed = {}
  Cells <- MCCells
  Baseline <- MCBaseline
  Contents <- MCContents
  MaxRevision = 3
  MaxMishaps = 0
INVARIANT LiveMatchesOracle
CHECK_DEADLOCK FALSE
