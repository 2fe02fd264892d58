CONSTANTS
  None = None
  Call = {c1, c2, c3, c4}
  Window = 2
  Max = 1
  Horizon = 3
  RedisUrl = TRUE
SPECIFICATION FairRateSpec
INVARIANTS
  CountsOnlyTheWindow
  AtMostMaxAdmitted
PROPERTIES
  ImplementsRateCounter
  EveryWindowEnds
CHECK_DEADLOCK FALSE
