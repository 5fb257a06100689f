SPECIFICATION Spec
CONSTANTS
  Turn = {t1}
  Obj = {o1, o2}
  Writer = {w1, w2}
  Inode = {i1, i2}
  Torn = Torn
  Nil = Nil
  MaxRestarts = 1
SYMMETRY Symmetry
INVARIANTS CacheAndFileAgree ShutdownKeepsWhatEnded NoOrphanProcessing
