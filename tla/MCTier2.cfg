SPECIFICATION Spec
CONSTANTS
  f1 = f1
  g1 = g1
  g2 = g2
  t1 = t1
  t2 = t2
  Field = {f1}
  Value = {v1, v2, n1}
  Text <- Texts
  n1 = n1
  v1 = v1
  v2 = v2
  Human = {h1, h2}
  h1 = h1
  h2 = h2
  c1 = c1
  c2 = c2
  c3 = c3
  Extracted = {f1}
  Call = {c1, c2, c3}
  Asks <- Requests
  Null = Null
  Gap = {g1, g2}
  Reads <- ReadsOne
  Publish = {p1, p2}
  Engage = {e1}
  Branch = {"distributor"}
  Tenant <- Tenants
SYMMETRY Symmetry
CHECK_DEADLOCK FALSE
INVARIANTS AuditReplays PublishedMeansAttested StaleClaimIsReattested AnsweredEngagementIsWhole
PROPERTIES SystemNeverBeatsHuman
