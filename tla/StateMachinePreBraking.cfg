SPECIFICATION MCFairSpec
CONSTANTS
  NavSamples <- MCStoppedNavSamples
  Commands   = {"calibrate", "launch"}
  MaxFaults  = 0
  GpioRuns   = FALSE
PROPERTY PreBrakingIsPassed
CHECK_DEADLOCK FALSE
