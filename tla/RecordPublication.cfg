\* Two results of three revisions in all, two workers, one failure or lost lease,
\* and before it one failed publication.
SPECIFICATION PublicationSpec
CONSTANTS
  w1 = w1  w2 = w2
  Workers = {w1, w2}
  None = None
  NoDay = 0
  Results = {1, 2}
  Absorbed = {}
  Cells <- MCCells
  Baseline <- MCBaseline
  Contents <- MCContents
  RoundAt <- MCRoundAt
  DayAt <- MCDayAt
  Rank <- MCRank
  Vouched <- MCVouched
  MaxRevision = 2
  MaxMishaps = 1
  MaxIngested = 3
  MaxLost = 1
SYMMETRY WorkerSymmetry
INVARIANTS PublicationTypeOK LiveUnlessLeftBehind RecordHasHolder OutcomesUnlessDisturbed RecognitionFollowsOutcomes AnnouncedOnce
CHECK_DEADLOCK FALSE
