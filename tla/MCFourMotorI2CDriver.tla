------------------------ MODULE MCFourMotorI2CDriver ------------------------
(* Small instances of FourMotorI2CDriver for TLC. *)
EXTENDS FourMotorI2CDriver

\* Full speed is 8 and the resolution 4: 1 truncates to the duty cycle 0, 4
\* to 1, 8 to 3, and -9 is clamped to -8.
MCSpeeds == {-9, 0, 1, 4, 9}
=============================================================================
