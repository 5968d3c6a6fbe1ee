CONSTANTS
  Sensors <- TwoSensors
  Timer = 1
  FileSizes <- Sizes
  MaxPlays = 2
  MaxRequests = 4
SPECIFICATION SoundsSpec
INVARIANTS NoLostEvent AllHeard TailIsEnd NoMissedResult ReplyMatches
PROPERTIES PlayEnds PlayReturns
CHECK_DEADLOCK FALSE
