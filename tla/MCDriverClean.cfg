\* A sound I2C bus; the process may be killed between any two writes.
CONSTANTS
  MotorCount = 2
  LeftCount = 1
  FullSpeed = 8
  Resolution = 4
  Speeds <- MCSpeeds
  FaultyBus = FALSE
  MayCrash = TRUE
SPECIFICATION DriverSpec
INVARIANTS
  DriverTypeOK
  NoShootThrough
PROPERTIES
  BankSpec
