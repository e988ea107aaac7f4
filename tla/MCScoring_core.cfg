\* OSS deployment without the admin endpoint, with faults and a crash.
SPECIFICATION Spec
CONSTANTS
  t1 = t1 t2 = t2 t3 = t3 boot = boot a1 = a1
  Comp <- ThreeComps
  Task <- ThreeTasks
  Boot = boot
  AdminSweep = {}
  MaxWorkers = 2
  RecoveryLimit = 2
  MaxCrashes = 1
  MaxAdminSweeps = 0
  DbFaults = TRUE
SYMMETRY Symmetry
INVARIANTS TypeOK PermitsConserved SingleScorer
PROPERTIES ImplementsLifecycle
CHECK_DEADLOCK FALSE
