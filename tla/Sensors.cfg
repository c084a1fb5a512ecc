SPECIFICATION FairSpec
CONSTANTS
  MaxOdd = 1
  GpioDevices = {"ambient"}
  FailsIn = {"kAccelerating"}
  MaximumAcceleration = 1
  CruisingDeceleration = 1
  BrakingDeceleration = 1
  MaxTime = 1
  TimestampRange = 4
INVARIANT TypeOK
INVARIANT InitialisedIsGenuine
PROPERTY SpeedIsBelievable
INVARIANT BrakesWithoutPower
PROPERTY FailureIsPublished
CHECK_DEADLOCK FALSE
