\* Three observers of one result, a value that qualifies and one that does not.
SPECIFICATION Spec
CONSTANTS
  None = None
  polling = polling
  subscription = subscription
  websocket = websocket
  Observers = {polling, subscription, websocket}
  Trusted = {polling, subscription}
  Origins = {"wca_live", "cubingchina"}
  Origin <- MCOrigin
  Keys = {"A"}
  Values = {3, 5}
  Benchmarks = {4}
  MaxRevision = 3
SYMMETRY MCSymmetry
INVARIANTS TypeOK RetractedIffNoEvidence LastRevisionUnlessOvertaken VerdictUnlessOvertaken OneHeadUnlessRekeyed
PROPERTY RevisionsTellTheStory
CHECK_DEADLOCK FALSE
