SPECIFICATION FairSpec
CONSTANTS
  r1 = r1 r2 = r2 r3 = r3 s1 = s1
  Request = {r1, r2}
  Base = {s1}
  Backends = {"sqlite"}
  Offered <- AllOnSqlite
  PoolSize = 2
  MaxFaults = 0
  MaxCrashes = 0
PROPERTIES EveryRequestAnswered
CHECK_DEADLOCK FALSE
