\* DRM: two processes share a protected buffer and its metadata; sets do not overlap.
SPECIFICATION Spec
CONSTANTS
  p1 = p1  p2 = p2  o1 = o1  o2 = o2  o3 = o3
  Procs = {p1, p2}
  Creator = p1
  Ids = {o1, o2, o3}
  Imports = {"gbm", "wl", "fd", "fdmod", "name"}
  Overlap = FALSE
  Fb = FALSE
  Keys = {"COLOR_SPACE", "COLOR_METADATA", "UNKNOWN"}
  Colours <- MCColours
  Spaces = {3}
  Secure = TRUE
SYMMETRY MetadataSymmetry
INVARIANTS TypeOK ReadBack PageExact SilentOnlyUnknown
CHECK_DEADLOCK FALSE
