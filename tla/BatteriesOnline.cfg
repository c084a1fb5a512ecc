SPECIFICATION Spec
CONSTANTS
  LowPower = {lp}
  HighPower = {hp}
  Cells = {3500}
  Temperatures = {65}
  Currents = {5000}
  Voltages = {36}
  Charges = {100}
  Insulation = {4001}
  StartUp = 1
  Second = 2
  Delay = 1
INVARIANT OfflineIsGenuine
CHECK_DEADLOCK FALSE
