SPECIFICATION FairSpec
CONSTANTS
  p1 = p1
  p2 = p2
  c1 = c1
  c2 = c2
  Free = Free
  Producers <- TwoProducers
  Consumers <- TwoConsumers
  Children <- MakeOrder
  Length = 2
  Loops <- LoopBounds
INVARIANTS
  TypeOK
  MutualExclusion
  NoLostWakeup
  AllDelivered
PROPERTIES
  ImplementsFifo
  Finishes
