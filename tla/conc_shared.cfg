\* Threads share buffers made in this process; a destroy runs alone on its fd.
SPECIFICATION Spec
CONSTANTS
  t1 = t1  t2 = t2  t3 = t3  o1 = o1  o2 = o2  o3 = o3
  Threads = {t1, t2, t3}
  Fds = {3, 5}
  Ids = {o1, o2, o3}
  Ops = {"gbm", "fd"}
  MaxAddr = 6
  Offered = {3}
  Beside = {}
  FirstRace = FALSE
  Free = Free
INVARIANTS TypeOK LiveUsable RefsExact NoLeak
PROPERTY ImplementsSharing
