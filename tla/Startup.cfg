SPECIFICATION Spec
CONSTANTS
  Procs = {a, b, c, d, e, f}
  None = None
  Overlapping = FALSE
INVARIANT TypeOK
INVARIANT OneServer
INVARIANT ServerIsReachable
PROPERTY StartSucceeds
