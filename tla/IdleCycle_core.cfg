SPECIFICATION Spec
CONSTANTS
  s1 = s1
  Sampler = {s1}
  Timeouts = {0, 2}
  Knocking = {"off", "tokenA"}
  MaxGap = 1
  Cap = 2
INVARIANTS
  TypeOK
  NewestAnswerRules
  PortIsFree
PROPERTIES
  StopNeedsEmptiness
  StopNeedsPolicy
