SPECIFICATION FairSpec
CONSTANTS
  Proc = {p1, p2}
  Workload <- LiveWorkload
  MaxGen = 3
  Crashes = TRUE
PROPERTIES
  LockIsReturned
  ProcessesEnd
CHECK_DEADLOCK FALSE
