SPECIFICATION MCFairSpec
CONSTANTS
  NavSamples <- MCStoppedNavSamples
  Commands   = {"calibrate"}
  MaxFaults  = 0
  GpioRuns   = FALSE
  Sticky     = {"friction"}
PROPERTY CriticalBrakesEndTheRun
CHECK_DEADLOCK FALSE
