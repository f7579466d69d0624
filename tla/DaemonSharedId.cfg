SPECIFICATION DaemonSpec
CONSTANTS
  Incoming = {m1, m2}
  Outgoing = {}
  MAX_CONNECTIONS = 1
  MAX_ARRIVALS = 3
  None = None
  LEVELS = 1
  MAX_REMAINING = 1
INVARIANT AlwaysAnswered
CHECK_DEADLOCK FALSE
