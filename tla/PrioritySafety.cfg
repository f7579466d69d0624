SPECIFICATION Spec
CONSTANTS
  r1 = r1
  r2 = r2
  r3 = r3
  r4 = r4
  Receivers = {r1, r2, r3, r4}
  Ids = {r1, r2, r3, r4}
  MessageId <- MCOwnId
  LEVELS = 2
  MAX_REMAINING = 3
  None = None
SYMMETRY Symmetry
INVARIANTS TypeOK AlwaysAnswered WorkConserving NoLeakedLevel NoLostWakeup LevelsReflectReceivers
PROPERTY ShortestFirst
CHECK_DEADLOCK FALSE
