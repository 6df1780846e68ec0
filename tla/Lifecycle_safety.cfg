SPECIFICATION Spec
CONSTANTS
  Proc = {p1, p2}
  Workload <- SafetyWorkload
  MaxGen = 3
  Crashes = TRUE
SYMMETRY Symmetric
INVARIANTS
  TypeOK
  MaintenanceInhibits
  FailClosed
  NoWakeIntoFailure
  NoDelayedWake
  NoGenerationReturns
PROPERTY
  ImplementsFence
CHECK_DEADLOCK FALSE
