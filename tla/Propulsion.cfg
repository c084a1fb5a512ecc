SPECIFICATION FairSpec
CONSTANTS
  N = 2
  Configuration = 2
  Faults = {"silence", "loss", "heat"}
  MaxFaults = 1
  StatusBits = {0}
INVARIANT TypeOK
INVARIANT AcceleratesConfigured
PROPERTY StopIsFinal
PROPERTY DrivesAreStopped
PROPERTY UnfitDriveIsPublished
CHECK_DEADLOCK FALSE
