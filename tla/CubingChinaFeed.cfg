SPECIFICATION FairSpec
CONSTANTS
  c1 = c1  c2 = c2  r1 = r1  r2 = r2  a = a  b = b
  None = None
  NoRound = NoRound
  Competitions = {c1, c2}
  Rounds = {r1, r2}
  PageRounds = {r1, r2}
  Results = {a, b}
  RoundOf <- MCRoundOf
  CompetitionOf <- MCCompetitionOf
  Rows <- MCRows
  Entries <- MCEntries
  Start <- MCStart
  Formats <- MCFormats
  Floating = {r2}
  Outcomes <- MCOutcomes
  MaxConnections = 1
  MaxChanges = 3
  MaxFaults = 1
  MaxEvents = 3
INVARIANTS TypeOK MirrorIsCurrent ClaimsFollowMirror TargetsTellTheCollectors
PROPERTIES PlacesAreUsed
CHECK_DEADLOCK FALSE
