\* Two runs and a crash, or a write that fails.
SPECIFICATION RestartSpec
CONSTANTS
  Bots = {r1, r2}
  MaxSessions = 2
  MaxStarts = 3
  MaxFaults = 1
  NoBot = NoBot
INVARIANTS RunNotForgotten
CHECK_DEADLOCK FALSE
