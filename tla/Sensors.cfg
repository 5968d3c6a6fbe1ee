CONSTANTS
  Half = 3
  Reach = 3
  MaxTicks = 20
  Samples3 = 3
  Samples2 = 2
  Voltages = {75, 68, 62}
  Leds = 2
  Values = {50}
  MaxPubs = 1
  MaxFails = 1
SPECIFICATION SensorsSpec
INVARIANTS Odometry FreshValues AtPosition RangeFresh
PROPERTIES CutsOff LedsFollow ImuAlive
