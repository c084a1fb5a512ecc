SPECIFICATION Spec
CONSTANTS
  NavSamples <- MCStoppedNavSamples
  Commands   = {"calibrate"}
  MaxFaults  = 0
  GpioRuns   = FALSE
PROPERTY InitialisedMeansCommanded
CHECK_DEADLOCK FALSE
