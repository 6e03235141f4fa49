\* FB: every call in any order, with failures; descriptors may arrive twice, with or
\* without metadata.  Objects imported by name are kept.
SPECIFICATION FbSpec
CONSTANTS
  l1 = l1  l2 = l2  f1 = f1  o1 = o1  o2 = o2  o3 = o3
  Local = {l1}
  Foreign = {f1}
  Ubwc = {l1, f1}
  Secure = {}
  BoIds = {o1, o2}
  MaxFd = 3
  MaxAddr = 3
  MaxRef = 3
  MaxLost = 1
  HasGem = FALSE
  Inherited = {0}
  Calls = {"fd", "badfd", "gbm", "wl", "receive", "bare", "latemeta", "redeliver", "name", "keepname", "map", "write", "refresh"}
  Faults = {"calloc", "mmap"}
SYMMETRY BoSymmetry
INVARIANTS RefsAccounted FbUsable SegvOnlyTorn
CHECK_DEADLOCK FALSE
