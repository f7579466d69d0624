SPECIFICATION Spec
CONSTANTS
  MESSAGE_LENGTH = 7
  SENDER_PAYLOAD_LENGTH = 2
  RECEIVER_PAYLOAD_LENGTH = 2
  SENDER_LIMIT = 2
  RECEIVER_LIMIT = 2
  SENDER_RESENDS = 1
  RECEIVER_RESENDS = 1
  LARGE_RESENDS = 2
INVARIANTS TypeOK NoHole GrantWindow NoPanic TransmittedMeansDelivered RemainingPositive
PROPERTY ImplementsDelivery
CHECK_DEADLOCK FALSE
