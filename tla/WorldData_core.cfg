SPECIFICATION Spec
CONSTANTS
  c1 = c1
  c2 = c2
  Cmd = {c1, c2}
  KeepMin = 1
  MaxStamp = 3
  MaxClock = 2
  MaxTaken = 2
  MaxLoose = 1
SYMMETRY Symmetric
INVARIANTS
  TypeOK
  ArchivesAreComplete
  ArchiveIsSnapshot
  PreviousWorldSurvives
  MixedTreeIsFenced
  WayBack
PROPERTIES
  RetentionFloor
