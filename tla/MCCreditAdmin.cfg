CONSTANTS
  r1 = r1
  r2 = r2
  a1 = a1
  m1 = m1
  m2 = m2
  p1 = p1
  p2 = p2
  deposit = deposit
  debit = debit
  None = None
  Request = {r1, r2}
  Account = {a1}
  Mapping = {m1}
  Provider = {p1}
  AdminCall = {deposit}
  Call <- CallsAndSets
  Owner <- OneOwner
  ProviderOf <- OneProvider
  Adjustment <- Adjustments
  Delta <- AnyDelta
  Estimate <- EstimatesOfPrompts
  Cost <- CostsOfAnswers
  Tokens <- TotalsOfAnswers
  Reason <- Reasons
  Fault <- CallerFault
  Limit <- NoLimit
  Threshold = 80
  OfficialUsed <- NoSync
  set = set
  SetCall = {set}
  Setting <- Settings
  MaxInt = 1999999999
  Absent = Absent
SPECIFICATION AdminSpec
SYMMETRY Symmetry
INVARIANTS
  ChatTypeOK
  ChargesReconcile
