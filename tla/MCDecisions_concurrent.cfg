SPECIFICATION Spec
CONSTANTS
  c1 = c1 c2 = c2 l1 = l1 l2 = l2 p1 = p1 p2 = p2 p3 = p3 u1 = u1
  ca = ca cb = cb nobody = nobody
  Comp = {c1, c2}
  LabelOf <- OneLabel
  Post = {p1, p2, p3}
  Patch = {u1}
  Choice = {ca, cb}
  Nobody = nobody
  Faults = TRUE
  MaxCrashes = 1
SYMMETRY Symmetry
INVARIANTS TypeOK PointerSound CountExact NoGhosts AcknowledgedIsStored
CHECK_DEADLOCK FALSE
