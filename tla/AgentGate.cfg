CONSTANTS
  c1 = c1
  c2 = c2
  e1 = e1
  e2 = e2
  k1 = k1
  k2 = k2
  Calls = {c1, c2}
  Evidence = {e1, e2}
  Authority = {e1}
  Claims = {k1, k2}
  Cites <- CitesOfClaims
  Legal = {k1}
  Faithful = {k1, k2}
  Titles = {t1, t2}
  None = None
  MaxSteps = 8
  MaxToolCalls = 6
SPECIFICATION FairSpec
INVARIANTS
  ReleasedWasReviewed
  ReleasedIsGrounded
  ClientSeesOneOutcome
  LimitsAllowAnOutcome
PROPERTY LoopEnds
CHECK_DEADLOCK FALSE
