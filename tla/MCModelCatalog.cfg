CONSTANTS
  m1 = m1
  k1 = k1
  k2 = k2
  p1 = p1
  p2 = p2
  None = None
  Model = {m1}
  Provider = {p1, p2}
  Mapping = {k1, k2}
  ModelOf <- OneModel
  ProviderOf <- TwoProviders
  Rate = {x, y}
  Key = {u, v}
  Setting <- Settings
  Call = {c1, c2}
  Request = {r1}
SPECIFICATION CatalogSpec
CONSTRAINT OneSideAtATime
SYMMETRY Symmetry
INVARIANTS
  CatalogTypeOK
  TrailNamesThePrice
  RouteIsUsable
