SPECIFICATION MCFairSpec
CONSTANTS
  NavSamples <- MCNavSamples
  Commands   = {"calibrate", "launch"}
  MaxFaults  = 0
  GpioRuns   = TRUE
  Sticky     = {"magnetic"}
INVARIANT PTypeOK
INVARIANT DrivesWithBrakesOff
PROPERTY BrakesEngage
PROPERTY DraggingBrakeIsNoticed
CHECK_DEADLOCK FALSE
