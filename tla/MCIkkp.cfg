SPECIFICATION FairSpec
CONSTANTS
  Polite = {a, b}
  Rude = {r}
  MaxTasks = 2
  NoClient = NoClient
INVARIANTS
  OneTaskPerClient
PROPERTIES
  PoliteServed
  HangsUp
  NoneLeftWaiting
CHECK_DEADLOCK FALSE
