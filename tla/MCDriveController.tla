-------------------------- MODULE MCDriveController --------------------------
(* Small instances of DriveController for TLC: full speed is 1, a channel of  *)
(* the chip is off or on.                                                     *)
EXTENDS DriveController

\* Forward and stop: directions do not matter to the server's control.
MCSpeeds == {0, 1}
=============================================================================
