\* FB, two renderers and two compositors under the surface mutex.
SPECIFICATION FairSpec
CONSTANTS
  r1 = r1  r2 = r2  c1 = c1  c2 = c2  nobody = nobody
  NumBack = 3
  Renderers = {r1, r2}
  Compositors = {c1, c2}
  Nobody = nobody
  Guarded = TRUE
  Careless = FALSE
INVARIANTS Exclusive
PROPERTIES SubmitAccepted MutexReleased Refines
