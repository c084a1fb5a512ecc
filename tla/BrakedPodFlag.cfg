SPECIFICATION PSpec
CONSTANTS
  NavSamples <- MCStoppedNavSamples
  Commands   = {"calibrate"}
  MaxFaults  = 0
  GpioRuns   = FALSE
  Sticky     = {}
INVARIANT FlagMeansRetracted
CHECK_DEADLOCK FALSE
