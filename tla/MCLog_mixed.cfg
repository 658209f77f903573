SPECIFICATION Spec
CONSTANTS
  Procs = {p1, p2}
  LogBlks = {1, 2, 3, 4}
  OrdBlks = {1}
  Vals = {v0}
  InitVal = v0
  NoVal = NoVal
  LL = 12
  MaxDescriptor = 5
  MaxBlkPerOp = 2
  MaxOrdered = 100
  OpWrites = 1
  InitIndex = 0
  PagesReused = TRUE
  Congested = FALSE
  CrashInRecovery = FALSE
  MaxOps = 4
  MaxCrash = 0
SYMMETRY Symmetry
INVARIANTS TypeOK LogInv LogFits NoReplayOverOrdered
