CONSTANTS
  Events = {e1}
  Workers = {w1, w2, w3}
  w1 = w1
  w2 = w2
  w3 = w3
  NoWorker = NoWorker
  MaxAttempts = 3
  MaxStalls = 2
  MaxCrashes = 1
  Runs = {r1, r2, r3}
  r1 = r1
  r2 = r2
  r3 = r3
  NoRun = NoRun
  Reserve = 1
  Overshoot = 1
  Budget = 2
SPECIFICATION MCSpec
INVARIANTS
  PublishedWasReceived
  BudgetHolds
PROPERTIES
  LeaseIsKept
  EveryEventSettles
  StartsEnd
CHECK_DEADLOCK FALSE
