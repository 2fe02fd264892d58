CONSTANTS
  None = None
  Call = {c1, c2}
  Task = {s1, s2}
SPECIFICATION FairTunSpec
INVARIANTS
  TunTypeOK
  InactiveMeansClosed
  OneTunnelAtATime
  StatusNamesTheTunnel
PROPERTIES
  CloseReturns
  TunnelIsRestarted
