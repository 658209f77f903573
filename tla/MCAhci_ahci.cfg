SPECIFICATION FairSpec
CONSTANTS
  Threads = {t1, t2}
  ReadBlks = {1}
  WriteBlks = {1, 2}
  SyncBlks = {3}
  nslot = 2
  HbaSlots = 2
  MaxReqs = 4

CHECK_DEADLOCK FALSE
INVARIANTS ExecutedOnce ReleasedAfter FlushNotOvertaking
PROPERTIES CallsReturn
