SPECIFICATION Spec
CONSTANTS
  MaxId = 5
  Sysprocs = 3
  Noproc = 2
  Statuses = {0, 1}
  Calls = {"exit", "threxit", "fork", "thread", "wait", "nohang"}
  Targets = {}
  MemFails = FALSE
  MaxOoms = 0
CHECK_DEADLOCK FALSE
INVARIANTS ReapedOnce ExitFinal SleepsForAReason
