\* One overrun lease revives the projection of a superseded revision.
SPECIFICATION Spec
CONSTANTS
  w1 = w1  w2 = w2
  Workers = {w1, w2}
  None = None
  Results = {"r1"}
  Absorbed = {}
  MaxRevision = 2
  MaxInterruptions = 0
  MaxOverruns = 1
SYMMETRY WorkerSymmetry
INVARIANT SupersededProjectionsInvalid
CHECK_DEADLOCK FALSE
