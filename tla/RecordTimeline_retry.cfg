\* One result, one worker, one failure: the outcomes of a retry.
SPECIFICATION Spec
CONSTANTS
  w1 = w1  w2 = w2
  Workers = {w1}
  None = None
  Results = {1, 2}
  Absorbed = {}
  Cells <- MCCells
  Baseline <- MCBaseline
  Contents <- MCContents
  MaxRevision = 1
  MaxMishaps = 1
INVARIANT OutcomesMatchOracle
CHECK_DEADLOCK FALSE
