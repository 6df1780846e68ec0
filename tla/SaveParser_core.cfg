SPECIFICATION FairSpec
CONSTANTS
  Docs <- SomeDocs
  MaxDamage = 1
  MaxErrors = 1
INVARIANTS
  DamageIsContained
  NothingLostSilently
PROPERTY
  ParserEnds
CHECK_DEADLOCK FALSE
