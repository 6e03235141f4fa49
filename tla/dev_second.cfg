\* A second device is created and destroyed next to the first.
SPECIFICATION Spec
CONSTANTS
  t1 = t1  t2 = t2  t3 = t3  d1 = d1  d2 = d2  d3 = d3
  Threads = {t1, t2}
  Devices = {d1, d2, d3}
  IonFails = FALSE
  StdinOpen = TRUE
  Alone = TRUE
  MaxDevices = 2
  Free = Free
INVARIANTS Exclusive
