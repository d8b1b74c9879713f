\* CONFIRM_MS is 35 ms; the cooldown is 60 ms instead of 1000.
CONSTANTS
  Samples <- MCSamples
  Confirm = 7
  Cooldown = 12
  Periods = {2, 3, 9}
  Steps <- MCSteps
  MaxSteps = 1
SPECIFICATION FairSpec
INVARIANTS
  CrashConfirmed
  CrashOnce
PROPERTIES
  ShakingReported
  DetectorShutdown
