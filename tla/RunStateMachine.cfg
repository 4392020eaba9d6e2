CONSTANTS
  Runs = {r1, r2}
  r1 = r1
  r2 = r2
SPECIFICATION Spec
PROPERTY AwaitingReviewIsDecided
CHECK_DEADLOCK FALSE
