CONSTANTS
  Self = Self
  rival = rival
  Rivals = {rival}
  Nobody = Nobody
  Gates = 2
  MaxFaults = 1
SPECIFICATION FairSpec
INVARIANTS
  PassedMeansVerified
  ExitTellsPublication
  NothingIsLeftBehind
PROPERTIES
  PublicationIsAtomic
  ScriptEnds
CHECK_DEADLOCK FALSE
