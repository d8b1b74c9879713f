\* A process may take two seconds to end; one dies and one is started by hand.
CONSTANTS
  TIMEOUT_SECS = 2
  MaxDeaths = 1
  MaxByHand = 1
SPECIFICATION FairSpec
INVARIANTS
  OneInstance
PROPERTIES
  ReloadConnects
  ReloadDescends
  ReloadEnds
