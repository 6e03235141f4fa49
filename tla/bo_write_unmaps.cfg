\* gbm_bo_write, after an mmap that failed for the time being.
SPECIFICATION Spec
CONSTANTS
  l1 = l1  l2 = l2  f1 = f1  o1 = o1  o2 = o2  o3 = o3
  Local = {l1}
  Foreign = {f1}
  Ubwc = {}
  Secure = {}
  BoIds = {o1, o2, o3}
  MaxFd = 4
  MaxAddr = 4
  MaxRef = 4
  HasGem = TRUE
  Inherited = {0}
  Calls = {"gbm", "receive", "write"}
  Faults = {"mmap"}
SYMMETRY BoSymmetry
INVARIANTS MappingsUsable
CHECK_DEADLOCK FALSE
