\* Faults, kills and restarts of both processes; two sources take turns.
CONSTANTS
  MotorCount = 2
  LeftCount = 1
  FullSpeed = 1
  Resolution = 2
  Speeds <- MCSpeeds
  FaultyBus = TRUE
  MayCrash = TRUE
  Sources = {JOYSTICK, WEBAPP}
  NoSource = NONE
  TimeoutPulses = 2
  Clients = {c1}
  MaxPulses = 2
  OledMayHang = TRUE
SPECIFICATION Spec
INVARIANTS
  TypeOK
  LastCallApplied
  EStopHolds
  AckMeansStopped
  DisplayFailSafe
PROPERTIES
  SafeDriveSpec
  DriveServerSpec
  ShutdownDescends
