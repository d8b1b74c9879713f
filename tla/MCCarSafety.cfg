\* Every process may be killed and started at any time.
CONSTANTS
  Sources = {JOYSTICK}
  Joystick = JOYSTICK
  NoSource = NONE
  TimeoutPulses = 2
  Pads <- MCPads
SPECIFICATION Spec
INVARIANTS
  CarTypeOK
  BackWins
  ObstacleStops
  BackHolds
PROPERTIES
  CoastsDown
