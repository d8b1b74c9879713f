\* The display may stop answering without dying.
CONSTANTS
  MotorCount = 2
  LeftCount = 1
  FullSpeed = 1
  Resolution = 2
  Speeds <- MCSpeeds
  FaultyBus = FALSE
  MayCrash = FALSE
  Sources = {JOYSTICK}
  NoSource = NONE
  TimeoutPulses = 2
  Clients = {c1}
  MaxPulses = 1
  OledMayHang = TRUE
SPECIFICATION FairSpec
PROPERTIES
  WatchdogHalts
