SPECIFICATION FairSpec
CONSTANTS
  N = 1
  Configuration = 1
  Faults = {}
  MaxFaults = 0
  StatusBits = {0}
PROPERTY ReadyPrepares
CHECK_DEADLOCK FALSE
