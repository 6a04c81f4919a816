\* One trusted and one CubingChina observer: a batch overrules what it has not seen.
SPECIFICATION Spec
CONSTANTS
  None = None
  Observers = {"subscription", "websocket"}
  Trusted = {"subscription"}
  Origins = {"wca_live", "cubingchina"}
  Origin <- MCOrigin
  Keys = {"A"}
  Values = {5}
  Benchmarks = {4}
  MaxRevision = 3
INVARIANT TrustedEvidenceDecides
CHECK_DEADLOCK FALSE
