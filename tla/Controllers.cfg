SPECIFICATION CtlFairSpec
CONSTANTS
  N = 1
  Configuration = 2
  Faults = {"emergency", "silence", "loss", "delay", "heat", "restart"}
  MaxFaults = 1
  StatusBits = {0, 16}
PROPERTY PreparedOrFailed
PROPERTY SilenceIsNoticed
PROPERTY CallsEnd
CHECK_DEADLOCK FALSE
