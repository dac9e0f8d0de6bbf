\* Four requests, of which the first goes over HTTP and the others over one socket at its
\* limits: one at work, one in turn and one refused.
SPECIFICATION Spec
CONSTANTS
  Requests = {r1, r2, r3, r4}
  Logouts = {}
  MaxSockets = 1
  MaxRunning = 1
  MaxWaiting = 1
  WarmUp = 1
SYMMETRY Perms
INVARIANTS OperationsBounded
PROPERTIES CarriedOnce
CHECK_DEADLOCK FALSE
