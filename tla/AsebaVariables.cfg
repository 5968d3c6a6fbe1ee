SPECIFICATION VmSpec
CONSTANTS
  Wheels <- MCWheels
  Leds = {"front"}
  Params = {"ki"}
  Inputs <- MCInputs
  Setpoints <- MCSetpoints
  Parameters <- MCParameters
  Garbage = {0, 99}
  Lossy = {5}
  MaxTouched = 1
  Duties <- MCDuties
CONSTRAINT Bound
INVARIANTS CrossedBySplit
PROPERTY NoInterference
