\* The pure algorithms on every input up to the bounds of MCAlgorithms.
INIT Init
NEXT Next
CONSTANTS
  ZSquared = 4
  PowerSquared = 785
  EvidenceLimit = 2
INVARIANTS
  
  
  
  SqlIsKept
CHECK_DEADLOCK FALSE
