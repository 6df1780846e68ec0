SPECIFICATION Spec
CONSTANTS
  Setting = {"s", "t"}
  Value = {"b", "x"}
  Base <- SomeBase
  MaxJobs = 2
  MaxShell = 1
  MaxFaults = 1
INVARIANTS
  SettingSticks
  NothingLost
CHECK_DEADLOCK FALSE
