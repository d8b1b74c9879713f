\* The bus may fail for a while, the display may die but answers while it lives; one motor.
CONSTANTS
  MotorCount = 1
  LeftCount = 1
  FullSpeed = 1
  Resolution = 2
  Speeds <- MCSpeeds
  FaultyBus = TRUE
  MayCrash = FALSE
  Sources = {JOYSTICK}
  NoSource = NONE
  TimeoutPulses = 2
  Clients = {c1}
  MaxPulses = 1
  OledMayHang = FALSE
SPECIFICATION FairSpec
INVARIANTS
  OffMeansStopped
PROPERTIES
  WatchdogHalts
  ShutdownCompletes
  ClientAnswered
