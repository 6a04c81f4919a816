\* Two alerts to one endpoint, contended by two workers. MaxClock lets the guest
\* leave and come back once, before, between or after the two events.
SPECIFICATION FairSpec
CONSTANTS
  w1 = w1  w2 = w2
  Workers = {w1, w2}
  None = None
  Events = {"ev1", "ev2"}
  Endpoints = {"ep"}
  MaxAttempts = 2
  BatchSize = 2
  MaxClock = 2
  MaxInterruptions = 1
  MaxSlowClaims = 1
INVARIANTS RepeatsOnlyAfterReclaim AttemptBudget NoAlertFromBeforeActivation
PROPERTIES ImplementsOutbox EveryRowSettles
CHECK_DEADLOCK FALSE
