\* A destroy runs beside an import on its fd, while a third object keeps the fd open.
SPECIFICATION Spec
CONSTANTS
  t1 = t1  t2 = t2  t3 = t3  o1 = o1  o2 = o2  o3 = o3
  Threads = {t1, t2}
  Fds = {3}
  Ids = {o1, o2, o3}
  Ops = {"gbm"}
  MaxAddr = 6
  Offered = {}
  Beside = {"import"}
  FirstRace = FALSE
  Free = Free
INVARIANTS LiveUsable
SYMMETRY ConcurrentSymmetry
CHECK_DEADLOCK FALSE
