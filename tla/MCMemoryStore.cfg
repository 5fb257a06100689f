SPECIFICATION FairSpec
CONSTANTS
  Call = {a, b}
  Cell = {founder}
  PreChecked = {founder}
  Value = {v1, v2}
  Tx = {t1, t2}
  Log = profileLock
  Nil = Nil
  MayStall = TRUE
  MaxCrashes = 1
INVARIANTS LockSerializes ReplayKeepsRealTimeOrder
PROPERTY SelfHeals
