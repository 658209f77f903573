SPECIFICATION Spec
CONSTANTS
  Threads = {t1, t2}
  Evictor = evictor
  Keys = {k1, k2}
  Pages = {g1, g2}
  None = None
  TryEvicts = FALSE
  Maps = TRUE
  MaxGets = 3
  MaxEvicts = 1
  MaxMaps = 2
SYMMETRY Symmetry
CHECK_DEADLOCK FALSE
INVARIANTS PageOwned MappedCached
