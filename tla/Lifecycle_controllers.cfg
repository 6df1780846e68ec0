SPECIFICATION Spec
CONSTANTS
  Proc = {p1, p2}
  Workload <- ControllerWorkload
  MaxGen = 3
  Crashes = TRUE
SYMMETRY Symmetric
INVARIANTS
  SuccessMeansDone
  StoppedIsWantedDown
CHECK_DEADLOCK FALSE
