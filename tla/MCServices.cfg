CONSTANTS
  Thread = {t1, t2}
  Backends = {"sqlite", "postgresql"}
  KeyId = {k1, k2}
  VerifyTTL = 1
  VerifyMax = 1
  KeyHorizon = 1
  AskedRoles = {"viewer"}
  RequireUiAuth = TRUE
  Client = {c1, c2}
  RateWindow = 1
  RateLimit = 1
  MaxRateKeys = 1
  RateTrim = 1
  RateHorizon = 2
  MaxRateRequests = 4
  ProviderId = {p1, p2, p3}
  Comparison = {x1, x2}
  MaxAssignments = 2
  ModelId = {m1}
  Framework = {1, 2}
  Portfolio <- MCPortfolio
  CycleOf <- MCCycleOf
  DefaultCycle = 1
  Validated = {1}
  Process = {s1, s2}
  Statements <- MCStatements
  IsColumn <- MCIsColumn
  BaseItems <- MCBaseItems
  MaxStarts = 4
  RetryAttempts = 2
  MaxFaults = 3
  Case = {i1, i2}
  MaxWorkers = 2
  DemoRequest = {d1, d2, d3}
  DemoCases = 2
  CaseRun = {l1, l2}
  MaxRows = 4
  Exporter = {e1}
  CorpusWorkflow = {w1, w2}
  ConsentId = {n1, n2}
  MaxDecisions = 2
  CorpusHorizon = 1
  Org = {o1, o2}
  Slug = {g1, g2}
  RouterMax = 2
INIT Init
NEXT Next
CHECK_DEADLOCK FALSE
INVARIANTS
  ServicesTypeOK
  RevocationHolds
  RateBounded
  OneDefault
  NothingForgotten
  
  
  BatchAccounted
  EventsCountOnce
  
  ChoiceKept
  ConsentHonoured
  
