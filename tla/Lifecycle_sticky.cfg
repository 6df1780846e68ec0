SPECIFICATION Spec
CONSTANTS
  Proc = {p1, p2}
  Workload <- StickyWorkload
  MaxGen = 4
  Crashes = TRUE
SYMMETRY Symmetric
PROPERTY StickyUnsafe
CHECK_DEADLOCK FALSE
