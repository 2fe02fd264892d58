CONSTANTS
  u1 = u1
  u2 = u2
  u3 = u3
  x1 = x1
  KindOf <- TwoKinds
  BatchSize = 2
  Capacity = 2
  Item = {u1, u2, u3, x1}
  Streaming = TRUE
SPECIFICATION FairSinkSpec
INVARIANTS
  SinkTypeOK
  BufferBounded
  NothingLost
PROPERTIES
  DrainsOnClose
  WrittenUnlessStarved
CHECK_DEADLOCK FALSE
