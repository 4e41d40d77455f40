SPECIFICATION FairSpec
CONSTANTS
  p1 = p1
  p2 = p2
  c1 = c1
  c2 = c2
  Free = Free
  NumChildren = 3
  ArrayChildren = 2
  End = 3
  Readers = 2
  Writers = 2
INVARIANTS
  BareSlotsDisjoint
  CounterBounds
  PartsInOrder
  ArrayOvershoot
  WorkDoneOnce
  MutexOvershoot
PROPERTIES
  BuildsImplementFifo
  ProgramsEnd
