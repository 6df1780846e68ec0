SPECIFICATION Spec
CONSTANTS
  Schema <- SomeKeys
  Ints = {"0", "5"}
  Tokens = {"", "a", "b"}
  Unset = "unset"
  Absent = absent
  Envs <- SomeEnvs
  Edits <- SomeEdits
  Payloads <- SomePayloads
  MaxEdits = 1
  MaxJobs = 2
  MaxBoots = 1
INVARIANTS
  TypeOK
  AnswersAreWhole
  SavedIsDurable
PROPERTY
  SaveKeepsTheRest
CHECK_DEADLOCK FALSE
