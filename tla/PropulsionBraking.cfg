SPECIFICATION FairSpec
CONSTANTS
  N = 1
  Configuration = 1
  Faults = {"heat"}
  MaxFaults = 1
  StatusBits = {0}
PROPERTY BrakingStopsDrives
CHECK_DEADLOCK FALSE
