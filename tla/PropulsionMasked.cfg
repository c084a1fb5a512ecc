SPECIFICATION Spec
CONSTANTS
  N = 1
  Configuration = 1
  Faults = {"emergency"}
  MaxFaults = 1
  StatusBits = {0}
INVARIANT FailedIsPublished
CHECK_DEADLOCK FALSE
