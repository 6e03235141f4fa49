\* Threads create, use and destroy devices at the same time.
SPECIFICATION Spec
CONSTANTS
  t1 = t1  t2 = t2  t3 = t3  d1 = d1  d2 = d2  d3 = d3
  Threads = {t1, t2, t3}
  Devices = {d1, d2, d3}
  IonFails = FALSE
  StdinOpen = TRUE
  Alone = FALSE
  MaxDevices = 2
  Free = Free
INVARIANTS TypeOK SingletonsThere NothingLeft
