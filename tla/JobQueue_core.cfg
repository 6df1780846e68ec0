SPECIFICATION Spec
CONSTANTS
  m1 = m1
  m2 = m2
  c1 = c1
  w1 = w1
  w2 = w2
  Job = {m1, m2, c1}
  Maintenance = {m1, m2}
  Config = {c1}
  Worker = {w1, w2}
  ListLimit = 3
  ScanLimit = 3
  MaxMishaps = 1
  Faults = TRUE
SYMMETRY Symmetric
INVARIANTS
  TypeOK
  AtMostOnce
  NoRacingMaintenance
  OldestFirst
  InterruptedInhibits
PROPERTY
  TerminalIsFinal
CHECK_DEADLOCK FALSE
