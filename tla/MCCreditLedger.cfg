CONSTANTS
  Account = {a1, a2}
  Call = {c1, c2, c3, c4, c5}
  Delta <- Deltas
  Estimate <- Estimates
  Cost <- Costs
  None = None
SPECIFICATION Spec
SYMMETRY Symmetry
CHECK_DEADLOCK FALSE
INVARIANTS
  TypeOK
  NeverOversold
  HeldIsSumOfHolds
  BooksBalance
  CurrentVersionMeansCurrentRead
PROPERTIES
  HoldsCloseOnce
  ImplementsAtomicLedger
