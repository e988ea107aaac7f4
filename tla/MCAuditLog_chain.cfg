SPECIFICATION Spec
CONSTANTS
  o1 = o1 o2 = o2 o3 = o3 o4 = o4 altered = altered
  Op = {o1, o2, o3, o4}
  Legacy <- OneLegacy
  Altered = altered
  Backends = {"sqlite", "postgresql"}
  TailAlterations = FALSE
  MaxAlterations = 3
  MaxFaults = 1
  MaxCrashes = 1
INVARIANTS TypeOK UntouchedVerifies  EntriesAreTrue LossIsFault
CHECK_DEADLOCK FALSE
