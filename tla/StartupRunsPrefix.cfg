\* A refit and a plain step before MAIN, a run of the pilot's own and one of a mining
\* operation, two mishaps of any kind, with fairness.
SPECIFICATION FairSpec
CONSTANTS
  Runs = {r1, p1}
  Prepared = {p1}
  Steps = 2
  Refits <- Board
  MaxReads = 2
  MaxLanded = 2
  MaxMishaps = 2
  None = None
INVARIANTS StepsInOrder
PROPERTIES NeverOnUnknown PendingEnds
CHECK_DEADLOCK FALSE
