SPECIFICATION FairSpec
CONSTANTS
  m1 = m1
  m2 = m2
  c1 = c1
  w1 = w1
  w2 = w2
  Job = {m1, c1}
  Maintenance = {m1}
  Config = {c1}
  Worker = {w1, w2}
  ListLimit = 2
  ScanLimit = 2
  MaxMishaps = 2
  Faults = FALSE
INVARIANT
  NoTokenInHistory
PROPERTY
  QueueDrains
CHECK_DEADLOCK FALSE
