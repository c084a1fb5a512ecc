SPECIFICATION FairSpec
CONSTANTS
  NumSensors = 4
  OutlierLimit = 2
  Noise = {20, 21}
  Wild = {0, 26, 27}
  Fragile = {1, 2}
  MaxBroken = 3
INVARIANT TypeOK
INVARIANT GoodSensorsAreTrusted
INVARIANT BrokenImuIsBounded
INVARIANT LossIsPublished
PROPERTY CalibrationEnds
CHECK_DEADLOCK FALSE
