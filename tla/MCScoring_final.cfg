SPECIFICATION Spec
CONSTANTS
  t1 = t1 t2 = t2 t3 = t3 boot = boot a1 = a1
  Comp <- TwoComps
  Task <- ThreeTasks
  Boot = boot
  AdminSweep = {a1}
  MaxWorkers = 1
  RecoveryLimit = 2
  MaxCrashes = 1
  MaxAdminSweeps = 1
  DbFaults = FALSE
PROPERTIES TerminalIsFinal
CHECK_DEADLOCK FALSE
