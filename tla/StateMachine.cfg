SPECIFICATION HSpec
CONSTANTS
  NavSamples <- MCFewNavSamples
  Commands   = {"calibrate", "launch", "shutdown"}
  MaxFaults  = 1
  GpioRuns   = TRUE
INVARIANT TypeOK
INVARIANT PublishedState
PROPERTY ImplementsLifecycle
PROPERTY NominalOnlyWhenHealthy
PROPERTY FailureHasCause
CHECK_DEADLOCK FALSE
