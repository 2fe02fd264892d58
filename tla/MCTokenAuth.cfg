CONSTANTS
  None = None
  Token = {t1, t2}
  Account = {a1, a2}
  Request = {q1, q2}
SPECIFICATION FairAuthSpec
INVARIANTS
  AuthTypeOK
  ActsForItsOwner
PROPERTIES
  RevocationIsFinal
  RevocationTakesHold
