SPECIFICATION Spec
CONSTANTS
  Incoming = {m1}
  Outgoing = {m2}
  MAX_CONNECTIONS = 1
  MAX_ARRIVALS = 2
  None = None
PROPERTY AbortedWhenComplete
CHECK_DEADLOCK FALSE
