SPECIFICATION Spec
INVARIANTS DeliveredIntact NoPanic TransmittedMeansDelivered
PROPERTIES Terminates EventuallyDelivered
CHECK_DEADLOCK FALSE
