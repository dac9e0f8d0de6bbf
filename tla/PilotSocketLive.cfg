\* Two sockets one after the other, a logout and a request that may have to wait its turn
\* behind it, with fairness.
SPECIFICATION FairSpec
CONSTANTS
  Requests = {r1, r2}
  Logouts = {r1}
  MaxSockets = 2
  MaxRunning = 1
  MaxWaiting = 1
  WarmUp = 0
INVARIANTS OwnAnswer
PROPERTIES CarriedOnce EverySettles
CHECK_DEADLOCK FALSE
