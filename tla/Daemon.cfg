SPECIFICATION MCSpec
CONSTANTS
  m1 = m1
  m2 = m2
  Incoming = {m1, m2}
  Outgoing = {}
  MAX_CONNECTIONS = 1
  MAX_ARRIVALS = 4
  None = None
  LEVELS = 1
  MAX_REMAINING = 2
INVARIANTS LevelsReturned AnsweredWhileRunning
PROPERTIES Quiesces Served
CHECK_DEADLOCK FALSE
