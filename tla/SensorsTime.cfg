SPECIFICATION Spec
CONSTANTS
  MaxOdd = 1
  GpioDevices = {}
  FailsIn = {"kAccelerating"}
  MaximumAcceleration = 2
  CruisingDeceleration = 1
  BrakingDeceleration = 3
  MaxTime = 2
  TimestampRange = 8
PROPERTY PointsAreInOrder
CHECK_DEADLOCK FALSE
