SPECIFICATION FairSpec
CONSTANTS
  LowPower = {lp}
  HighPower = {hp}
  Cells = {3500}
  Temperatures = {0}
  Currents = {0}
  Voltages = {36}
  Charges = {100}
  Insulation = {0}
  StartUp = 0
  Second = 2
  Delay = 1
INVARIANT TypeOK
INVARIANT ReadyIsInRange
INVARIANT FakesFailUnderWay
PROPERTY SilentPackReadsZero
PROPERTY FailedFakeIsPublished
CHECK_DEADLOCK FALSE
