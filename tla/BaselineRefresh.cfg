SPECIFICATION Spec
CONSTANTS
  Results <- MCResults
  Contents <- MCContents
  Exports <- MCExports
  Record <- MCRecord
  Absorbs <- MCAbsorbs
  Workers = {w1}
  Refreshers = {p1, p2}
  None = None
  MaxRevision = 2
  MaxMishaps = 1
INVARIANT TypeOK
INVARIANT LiveUnlessOverlaid
INVARIANT ExportsAreNotMixed
PROPERTY EventuallyFresh
