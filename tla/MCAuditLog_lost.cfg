SPECIFICATION Spec
CONSTANTS
  o1 = o1 o2 = o2 o3 = o3 o4 = o4 altered = altered
  Op = {o1, o2, o3}
  Legacy <- NoLegacy
  Altered = altered
  Backends = {"postgresql"}
  TailAlterations = FALSE
  MaxAlterations = 0
  MaxFaults = 0
  MaxCrashes = 0
INVARIANTS AnsweredIsAudited
CHECK_DEADLOCK FALSE
