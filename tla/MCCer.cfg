SPECIFICATION Spec
CONSTANTS
  c1 = c1
  p1 = p1
  p2 = p2
  Cer = {c1}
  Partner = {p1, p2}
  NoPartner = NoPartner
  RoutePartner <- MCRoutePartner
  Request = {r1, r2, r3}
  Session = {s1}
  NoTx = NoTx
SYMMETRY RequestSymmetry
INVARIANT ContactNeedsBothEnds
PROPERTIES DirectConsentFinal ClosedEdgeOnlyReopenedByAsk PromiseUnlessOvertaken
