\* Two runs, two faults (crashes or writes that fail) and a player's starts, with fairness.
SPECIFICATION RestartFairSpec
CONSTANTS
  Bots = {r1, r2}
  MaxSessions = 2
  MaxStarts = 2
  MaxFaults = 2
  NoBot = NoBot
INVARIANTS JournalCovers RosterTrue
PROPERTIES StopNotReplayed FliesOn EveryRowAnswered
CHECK_DEADLOCK FALSE
