SPECIFICATION Spec
CONSTANTS
  c1 = c1 c2 = c2 l1 = l1 l2 = l2 p1 = p1 p2 = p2 p3 = p3 u1 = u1
  ca = ca cb = cb nobody = nobody
  Comp = {c1, c2}
  LabelOf <- TwoLabels
  Post = {p1, p2}
  Patch = {}
  Choice = {ca, cb}
  Nobody = nobody
  Faults = FALSE
  MaxCrashes = 0
SYMMETRY Symmetry
INVARIANTS OneDecision
CHECK_DEADLOCK FALSE
