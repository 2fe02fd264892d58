CONSTANTS
  None = None
  Token = {t1}
  Account = {a1}
  Request = {q1}
SPECIFICATION AuthSpec
INVARIANTS
  RevokedTokenRefused
