SPECIFICATION FairSpec
CONSTANTS
  MaxId = 5
  Sysprocs = 10
  Noproc = 2
  Statuses = {0}
  Calls = {"kill", "fork", "thread", "wait"}
  Targets = {3}
  MemFails = TRUE
  MaxOoms = 2
CHECK_DEADLOCK FALSE
PROPERTIES KillTerminates OomReturns
