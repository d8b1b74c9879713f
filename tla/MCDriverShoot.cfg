\* Two opposite speeds and a bus that may refuse one write.
CONSTANTS
  MotorCount = 2
  LeftCount = 1
  FullSpeed = 8
  Resolution = 4
  Speeds <- MCSpeeds
  FaultyBus = TRUE
  MayCrash = FALSE
SPECIFICATION DriverSpec
INVARIANTS
  NoShootThrough
