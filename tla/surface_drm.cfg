\* DRM, one renderer and one compositor: the scans are safe without a lock.
SPECIFICATION FairSpec
CONSTANTS
  r1 = r1  r2 = r2  c1 = c1  c2 = c2  nobody = nobody
  NumBack = 3
  Renderers = {r1}
  Compositors = {c1}
  Nobody = nobody
  Guarded = FALSE
  Careless = FALSE
INVARIANTS TypeOK Exclusive
PROPERTIES SubmitAccepted FreeKept CallReturns Refines
