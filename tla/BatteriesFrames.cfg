SPECIFICATION Spec
CONSTANTS
  LowPower = {}
  HighPower = {hp}
  Cells = {}
  Temperatures = {0, 90}
  Currents = {0}
  Voltages = {36, 43}
  Charges = {100}
  Insulation = {0, 4001}
  StartUp = 0
  Second = 2
  Delay = 1
INVARIANT TypeOK
INVARIANT ReadyIsInRange
INVARIANT FakesFailUnderWay
CHECK_DEADLOCK FALSE
