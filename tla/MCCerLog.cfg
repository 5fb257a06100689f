SPECIFICATION LogSpec
CONSTANTS
  p1 = p1
  Cer = {c1}
  Partner = {p1}
  NoPartner = NoPartner
  RoutePartner <- MCRoutePartner
  Request = {r1, r2}
  Session = {s1}
  NoTx = NoTx
  MaxLog = 6
SYMMETRY RequestSymmetry
INVARIANT GrantIsStandingAnswer
PROPERTY ImplementsCer
