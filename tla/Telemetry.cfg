SPECIFICATION FairSpec
CONSTANTS
  ServerMessages = {"STOP", "CALIBRATE", "NOMINAL_RETRACT", "SERVER_PROPULSION_GO", "SERVER_PROPULSION_STOP", "unrecognised"}
  MaxMessages    = 3
  SendMayFail    = TRUE
INVARIANT TypeOK
INVARIANT StopHolds
INVARIANT CommandsAreKept
PROPERTY StopArrives
PROPERTY LinkLossIsReported
CHECK_DEADLOCK FALSE
