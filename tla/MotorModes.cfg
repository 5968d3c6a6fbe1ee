CONSTANTS
  Dv = 3
  Dp = 2
  MaxAcc = 1
  MaxVel = 5
  MaxCur = 1
  Positions <- Rest
  Velocities <- Speeds
  Setpoints <- Targets
  Modes <- AllModes
  PidOut <- Output
  MaxMsgs = 2
SPECIFICATION FairSpec
INVARIANTS TypeOK VelocityBounded
PROPERTIES NoStaleSetpoint StaysNear
