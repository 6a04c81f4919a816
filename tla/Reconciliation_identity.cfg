\* One trusted and one CubingChina observer, two identity keys, no refresh.
SPECIFICATION Spec
CONSTANTS
  None = None
  Observers = {"subscription", "websocket"}
  Trusted = {"subscription"}
  Origins = {"wca_live", "cubingchina"}
  Origin <- MCOrigin
  Keys = {"A", "B"}
  Values = {5}
  Benchmarks = {}
  MaxRevision = 3
INVARIANT OneHeadPerFact
CHECK_DEADLOCK FALSE
