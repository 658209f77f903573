SPECIFICATION Spec
CONSTANTS
  t1 = t1
  t2 = t2
  t3 = t3
  a1 = a1
  a2 = a2
  CPUs = {c1, c2}
  Threads = {t1, t2, t3}
  Spaces = {a1, a2}
  Home <- MCHome
  First = a1
  Frames = {g1, g2}
  Zero = Zero
  File = File
  None = None
  Starts <- MCStarts
  MaxWrites = 1
  MaxForks = 1
  Overlap = FALSE
  EarlyReload = FALSE
  StackShared = FALSE
SYMMETRY Symmetry
CHECK_DEADLOCK FALSE
INVARIANTS Isolated TlbCurrent RefsCounted
