\* Every process may be killed and started at any time.
CONSTANTS
  Sources = {JOYSTICK}
  Joystick = JOYSTICK
  NoSource = NONE
  TimeoutPulses = 2
  Pads <- MCTwoPads
SPECIFICATION FairSpec
PROPERTIES
  JoystickGoneHalts
  ObstacleReported
  JoystickShutdown
