SPECIFICATION MCFairSpec
CONSTANTS
  NavSamples <- MCNavSamples
  Commands   = {"calibrate", "launch", "emergency_stop", "shutdown"}
  MaxFaults  = 1
  GpioRuns   = TRUE
PROPERTY EmergencyIsHandled
PROPERTY BrakesInTime
PROPERTY ShutsDown
CHECK_DEADLOCK FALSE
