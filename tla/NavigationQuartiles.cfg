SPECIFICATION Spec
CONSTANTS
  NumSensors = 4
  OutlierLimit = 2
  Noise = {20, 21}
  Wild = {0, 27}
  Fragile = {1, 2}
  MaxBroken = 2
INVARIANT QuartilesAreReturned
CHECK_DEADLOCK FALSE
