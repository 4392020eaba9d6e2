CONSTANTS
  Docs = {d1}
  Workers = {w1, w2}
  w1 = w1
  w2 = w2
  NoWorker = NoWorker
  Parses <- FiveParses
  Suspicious <- FlaggedOnly
  Instructing <- PatternOnly
  MaxAttempts = 2
  MaxStalls = 1
  MaxCrashes = 1
SPECIFICATION Spec
INVARIANT IndexedObjectRetained
CHECK_DEADLOCK FALSE
