SPECIFICATION Spec
CONSTANTS
  Threads = {t1, t2}
  Applications = {a1}
  Contents = {c1, c2}
  Garbage = Garbage
  MAX_PACKETS = 2
  None = None
INVARIANT CorruptedRejected
CHECK_DEADLOCK FALSE
