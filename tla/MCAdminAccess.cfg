CONSTANTS
  None = None
  Admin = {a1}
  Access = {t1, t2, t3}
  Refresh = {r1, r2, r3}
  Call = {c1, c2}
  Branch = {b1, b2, b3, b4}
  Service = {s1}
  Resets = 1
  Scope = {x1}
  Jwt = {j1}
  Exchange = {e1}
  Edit = {u1}
  Lifetime = 2
SPECIFICATION AccessSpec
SYMMETRY Symmetry
CONSTRAINT OneSideAtATime
INVARIANTS
  AccessTypeOK
  RevocationIsImmediate
  OneLivePair
  AccessFadesOut
