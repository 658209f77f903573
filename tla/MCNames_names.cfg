SPECIFICATION FairSpec
CONSTANTS
  t1 = t1
  t2 = t2
  t3 = t3
  a = a
  b = b
  NoThread = NoThread
  Threads = {t1, t2, t3}
  Inums = {1, 2, 3, 4, 5}
  Fns = {a, b}
  Tree <- MCTree
  Programs <- MCPrograms
CHECK_DEADLOCK FALSE
INVARIANTS LinkedTree RefsCounted FreedWhenUnused
PROPERTIES CallsReturn
