SPECIFICATION Spec
CONSTANTS
  Keys = {1, 2, 3}
  Threads = {t1}
  khash <- Hashes
  capacity = 2
  MaxElems = 4
CHECK_DEADLOCK FALSE
INVARIANTS WalksComplete
PROPERTIES GetsLinearizable
