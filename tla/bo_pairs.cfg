\* Buffers whose data and metadata descriptors always travel together.
SPECIFICATION Spec
CONSTANTS
  l1 = l1  l2 = l2  f1 = f1  o1 = o1  o2 = o2  o3 = o3
  Local = {l1, l2}
  Foreign = {f1}
  Ubwc = {l1, f1}
  Secure = {l2}
  BoIds = {o1, o2, o3}
  MaxFd = 6
  MaxAddr = 8
  MaxRef = 4
  HasGem = TRUE
  Inherited = {0}
  Calls = {"gbm", "linearwl", "receive"}
  Faults = {}
INVARIANTS RefsExact LiveUsable NoLeak NoSegv
PROPERTY UnmapExact ImplementsSharing
