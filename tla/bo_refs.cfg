\* Imports that fail after they took their reference, up to MaxRef times, mappings
\* that fail and are retried, and writes that take mappings down.
SPECIFICATION Spec
CONSTANTS
  l1 = l1  l2 = l2  f1 = f1  o1 = o1  o2 = o2  o3 = o3
  Local = {l1}
  Foreign = {f1}
  Ubwc = {l1}
  Secure = {}
  BoIds = {o1, o2}
  MaxFd = 4
  MaxAddr = 3
  MaxRef = 3
  HasGem = TRUE
  Inherited = {0}
  Calls = {"badfd", "fdmod", "fd", "wl", "gbm", "receive", "write", "map", "refresh", "name", "keepname"}
  Faults = {"calloc", "mmap"}
SYMMETRY BoSymmetry
INVARIANTS TypeOK RefsCover
CHECK_DEADLOCK FALSE
