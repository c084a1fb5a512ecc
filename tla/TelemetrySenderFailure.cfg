SPECIFICATION Spec
CONSTANTS
  ServerMessages = {"ACK"}
  MaxMessages    = 2
  SendMayFail    = TRUE
INVARIANT SenderFailureStays
CHECK_DEADLOCK FALSE
