\* Two tabs and two hosted runs after one pilot, four sessions, one call lost
\* anywhere, with fairness.
SPECIFICATION FairSpec
CONSTANTS
  Tabs = {t1, t2}
  Runs = {r1, r2}
  Pilots = {p1}
  Requests = {q1, q2}
  MaxSessions = 4
  MaxLost = 1
  None = None
INVARIANTS OneDriver ClaimKeptUntilReleased EverySessionAccountedFor
PROPERTIES NeverLetGoAlive EveryRequestEnds
CHECK_DEADLOCK FALSE
