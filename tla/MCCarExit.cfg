\* The controller may go on reporting while the joystick process shuts down.
CONSTANTS
  Sources = {JOYSTICK}
  Joystick = JOYSTICK
  NoSource = NONE
  TimeoutPulses = 2
  Pads <- MCTwoPads
SPECIFICATION Spec
INVARIANTS
  ExitOrdersStop
