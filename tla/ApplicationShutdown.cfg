SPECIFICATION Spec
CONSTANTS
  Incoming = {m1}
  Outgoing = {m2}
  MAX_CONNECTIONS = 2
  MAX_ARRIVALS = 2
  None = None
INVARIANT ShutdownAbortsTasks
CHECK_DEADLOCK FALSE
