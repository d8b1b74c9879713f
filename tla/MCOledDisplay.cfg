\* Both orders; every measurement is invalid.
CONSTANTS
  Distances = {}
  Orders = {"engage", "clear"}
SPECIFICATION FairSpec
INVARIANTS
  LockNeverWaits
  ScreenCurrent
PROPERTIES
  SignSpec
  DriveAnswered
  DisplayShutdown
