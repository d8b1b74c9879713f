-------------------------- MODULE MCCrashDetection --------------------------
(* Small instances of CrashDetection for TLC: the unit of time is 5 ms. *)
EXTENDS CrashDetection

\* At rest, tilted (no jump from rest), hit from the left, braking hard.
MCSamples == {<<0, 0, 981>>, <<600, 0, 776>>, <<1500, 200, 981>>, <<-300, -1200, 981>>}

\* Back by 25 ms, forward by more than the cooldown.
MCSteps == {-5, 20}
=============================================================================
