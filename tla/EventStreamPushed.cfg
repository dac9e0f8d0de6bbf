\* Two listenings of one socket over one selection of a character and three notices, of
\* which the game server can replay one, with fairness.
SPECIFICATION FairSpec
CONSTANTS
  MaxListens = 2
  MaxSockets = 1
  MaxHolds = 1
  MaxNotices = 3
  History = 1
  MaxInFlight = 1
INVARIANTS OwnFramesOnly NeverWedged ForgottenHoldsNothing
PROPERTIES NoNoticeMissed EveryListenerTold
CHECK_DEADLOCK FALSE
