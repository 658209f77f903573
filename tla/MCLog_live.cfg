SPECIFICATION FairSpec
CONSTANTS
  Procs = {p1, p2}
  LogBlks = {1, 2}
  OrdBlks = {}
  Vals = {v0}
  InitVal = v0
  NoVal = NoVal
  LL = 9
  MaxDescriptor = 5
  MaxBlkPerOp = 1
  MaxOrdered = 100
  OpWrites = 1
  InitIndex = 10
  PagesReused = FALSE
  Congested = FALSE
  CrashInRecovery = FALSE
  MaxOps = 3
  MaxCrash = 0
CHECK_DEADLOCK FALSE
PROPERTIES ForceReturns OpAdmitted LogStops
