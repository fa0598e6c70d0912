SPECIFICATION FairSpec
CONSTANTS
  Modes = {"auto", "clear", "encrypted"}
  PayoutUnit = TRUE
  Faults = {"lose"}
  MaxResets = 10
INVARIANTS
  ClearWaitsForClient
  ConfiguredUnlessGivenUp
PROPERTY
  SetupEnds
CHECK_DEADLOCK FALSE
