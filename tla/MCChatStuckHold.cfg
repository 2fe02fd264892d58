CONSTANTS
  r1 = r1
  r2 = r2
  a1 = a1
  m1 = m1
  m2 = m2
  p1 = p1
  p2 = p2
  deposit = deposit
  debit = debit
  None = None
  Request = {r1, r2}
  Account = {a1}
  Mapping = {m1}
  Provider = {p1}
  AdminCall = {deposit}
  Call <- Calls
  Owner <- OneOwner
  ProviderOf <- TwoProviders
  Adjustment <- Adjustments
  Delta <- Deltas
  Estimate <- Estimates
  Cost <- OneCost
  Tokens <- OneTotal
  Reason <- Reasons
  Fault <- NoFault
  Limit <- LimitOne
  Threshold = 80
  OfficialUsed <- SyncZero
SPECIFICATION ChatSpec
SYMMETRY Symmetry
INVARIANT
  NothingHeldAfterReply
