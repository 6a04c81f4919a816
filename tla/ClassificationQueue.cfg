\* Three revisions of one live result: a chain in which a worker can be two
\* revisions late. The absorbed results are those of BaselineRefresh.
SPECIFICATION FairSpec
CONSTANTS
  w1 = w1  w2 = w2
  Workers = {w1, w2}
  None = None
  Results = {"r1"}
  Absorbed = {}
  MaxRevision = 3
  MaxInterruptions = 1
  MaxOverruns = 1
INVARIANTS HandledInOrder CompletedIsLive InvalidUnlessOverrun
PROPERTIES SettledForGood ImplementsLiveHead EveryRevisionSettles LiveCatchesUp
CHECK_DEADLOCK FALSE
