SPECIFICATION FairSpec
CONSTANTS
  MESSAGE_LENGTH = 7
  SENDER_PAYLOAD_LENGTH = 2
  RECEIVER_PAYLOAD_LENGTH = 2
  SENDER_LIMIT = 3
  RECEIVER_LIMIT = 1
  SENDER_RESENDS = 1
  RECEIVER_RESENDS = 1
  LARGE_RESENDS = 2
PROPERTY Terminates
CHECK_DEADLOCK FALSE
