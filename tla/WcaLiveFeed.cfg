SPECIFICATION FairSpec
CONSTANTS
  r1 = r1  r2 = r2  a = a  b = b
  None = None
  NoRound = NoRound
  Rounds = {r1, r2}
  SubscribableRounds = {r1, r2}
  Results = {a, b}
  RoundOf <- MCRoundOf
  Rows <- MCRows
  Entries <- MCEntries
  Start <- MCStart
  Formats <- MCFormats
  MaxChanges = 3
  MaxFormatChanges = 1
  MaxFaults = 2
  MaxEvents = 3
  Deployments <- MCDeployments
INVARIANTS TypeOK TableIsCurrent EvidenceFollowsSources RecordsFollowSources SubscribedIsServed
PROPERTIES EveryRoundIsSubscribed EventuallyCurrent
CHECK_DEADLOCK FALSE
