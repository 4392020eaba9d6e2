CONSTANTS
  Runs = {r1, r2}
  r1 = r1
  r2 = r2
  None = None
  Writers = {w1, w2}
  Ids = {1, 2, 3, 4}
  Clock = {1, 2, 3}
  Total = 6
  Limit = 2
  Window = 2
  MaxClock = 6
  MaxWait = 2
  Browsers = {b1, b2}
  Accounts = {u1, u2}
  Logins = {f1, f2}
  Queries = {q1, q2}
  MaxRetry = 2
  MaxVersion = 3
  MaxFetches = 3
  analyst = analyst
  reviewer = reviewer
  admin = admin
  vat_q4 = vat_q4
  payroll = payroll
  Users = {analyst, reviewer, admin}
  Analysts = {analyst}
  Reviewer = reviewer
  SeededMatters = {vat_q4, payroll}
  ReviewerOf <- MCReviewerOf
  EvidenceMatter = vat_q4
  Owner = analyst
  Absent = Absent
  NewMatters = {m1}
  SeededDocument = doc_evidence_review
  NewDocuments = {d1}
  SeededTarget = w0
  NewTargets = {w1}
  Keys = {k1}
  Files = {file1, file2}
  Items = {1, 2}
  Contents <- MCContents
  Fields = {1, 2, 3}
  Senders = {s1, s2}
  BatchSize = 2
  Models = {v1, v2}
  MaxLength = 12
  Maximum = 6
  Overlap = 2
  ShortestCut = 3
  ChunkLimits = {2, 3, 5}
  Names = {types, rels, workbook, sheet}
  Required = {types, rels, workbook}
  CentralOffset = 5
  MaxEntries = 3
  MaxCompressed = 1
  MaxExpanded = 1
  MaxTotal = 2
  MaxRatio = 1
  Sources = {vat, ledger, return}
  Reconciled = {vat, ledger}
  MaxQuestions = 2
SPECIFICATION MCSpec
INVARIANTS
  DecisionsMatchRuns
  OpenRunsMatchRequests
  ChainVerifies
  LimitIsExact
  SignedOutMeansRevoked
  SessionIsOfOwnLogin
  ReloadIsFresh
  FourEyes
  NothingUnprotectedLeaves
  JudgedByItsOwnFields
  NothingIsLost
  AcceptedReadsOneWay
  PanelShowsLatestAnswer
PROPERTIES
  CompletedRunsStay
  ChainGrowsAtItsHead
SYMMETRY Symmetry
CHECK_DEADLOCK FALSE
