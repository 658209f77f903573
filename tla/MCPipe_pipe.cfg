SPECIFICATION Spec
CONSTANTS
  bufsz = 2
  Readers = {r}
  Writers = {w}
  Pollers = {p1, p2}
  WriteSizes = {2, 3}
  ReadSizes = {2}
  NSlots = 2
  MaxWrites = 2
  MaxPolls = 2
  MaxFaults = 1
SYMMETRY Symmetry
CHECK_DEADLOCK FALSE
INVARIANTS Stream SmallWritesAtomic SleepsForAReason PollNotified DeadReleased
