CONSTANTS
  Dv = 2
  Dp = 2
  MaxAcc = 1
  MaxVel = 3
  MaxCur = 1
  Positions <- Rest
  Velocities <- Speeds
  Setpoints <- Targets
  Modes <- VelocityOnly
  PidOut <- None
  MaxMsgs = 2
SPECIFICATION FairSpec
PROPERTY AccelerationRespected
