SPECIFICATION FairSpec
CONSTANTS
  Incoming = {m1}
  Outgoing = {m2}
  MAX_CONNECTIONS = 2
  MAX_ARRIVALS = 2
  None = None
INVARIANTS TypeOK OneReceiver HandedOnce NoDeadHandle OneLife
PROPERTIES AbortAfterAnnounce AbortedAfterShutdown IdReleased
CHECK_DEADLOCK FALSE
