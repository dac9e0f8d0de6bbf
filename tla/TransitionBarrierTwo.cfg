\* A boarding and a docking, or two dockings, whose first reads may fail, the page's poll and a ship
\* lost, with fairness.
SPECIFICATION FairSpec
CONSTANTS
  Routes = {1, 2}
  Plans <- BoardDockOrDocks
  Pollers = {11}
  Start = "space"
  MaxLost = 1
  ReadsFail = TRUE
INVARIANTS OneChangeAtATime
PROPERTIES ShipNotFromBefore NeverLatchedForGood ShipFollowed
CHECK_DEADLOCK FALSE
