SPECIFICATION FairSpec
CONSTANTS
  r1 = r1 r2 = r2 r3 = r3 s1 = s1
  Request = {r1, r2, r3}
  Base = {s1}
  Backends = {"sqlite", "postgresql"}
  Offered <- VersionOnPostgres
  PoolSize = 2
  MaxFaults = 1
  MaxCrashes = 1
INVARIANTS TypeOK ConnectionsConserved NoOrphanCases
PROPERTIES  EveryRequestAnswered
CHECK_DEADLOCK FALSE
