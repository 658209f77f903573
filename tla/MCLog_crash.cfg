SPECIFICATION Spec
CONSTANTS
  Procs = {p1, p2}
  LogBlks = {1, 2}
  OrdBlks = {3}
  Vals = {v0, v1}
  InitVal = v0
  NoVal = NoVal
  LL = 12
  MaxDescriptor = 6
  MaxBlkPerOp = 3
  MaxOrdered = 100
  OpWrites = 2
  InitIndex = 10
  PagesReused = FALSE
  Congested = FALSE
  CrashInRecovery = FALSE
  MaxOps = 2
  MaxCrash = 1
SYMMETRY Symmetry
INVARIANTS WaitedForceDurable UnreferencedClean OrderedBeforeCommit CleanShutdown
PROPERTIES AtomicOps
