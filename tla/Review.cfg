CONSTANTS
  t1 = t1
  t2 = t2
  s1 = s1
  s2 = s2
  ReviewTabs = {t1}
  EvidenceTabs = {t2}
  Slots = {s1, s2}
  None = None
  MaxVersion = 2
  MaxLost = 1
SPECIFICATION FairSpec
INVARIANTS
  DecidedAsCited
  DecidedAsPreviewed
PROPERTIES
  LearnsDecision
  ImplementsLedger
CHECK_DEADLOCK FALSE
