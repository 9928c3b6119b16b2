SPECIFICATION Spec
CONSTANTS
  Runs <- MCRuns
  Fetchers <- MCRuns
  Settings <- MCSettings
  MaxSteps = 2
  MaxCrashes = 1
  MaxTorn = 1
INVARIANTS
  TypeOK
  EditsExplained
  MemoryLossBounded
  IndexPairing
CHECK_DEADLOCK FALSE
