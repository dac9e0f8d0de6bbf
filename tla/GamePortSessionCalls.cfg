\* Three callers of one call, two answers in turn, and an answer announced late.
SPECIFICATION FairSpec
CONSTANTS
  Callers = {c1, c2, c3}
  MaxVersion = 2
  MaxProvisional = 1
INVARIANTS OneOut NotFromBefore
PROPERTIES EveryCallEnds
CHECK_DEADLOCK FALSE
