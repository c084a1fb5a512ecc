SPECIFICATION FairSpec
CONSTANTS
  ServerMessages = {"SHUTDOWN"}
  MaxMessages    = 1
  SendMayFail    = FALSE
PROPERTY EndsWhenStopped
CHECK_DEADLOCK FALSE
