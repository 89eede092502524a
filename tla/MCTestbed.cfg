\* Every script, started twice, and a user's program of three calls.
SPECIFICATION TestbedFairSpec
CONSTANTS
  Losses = {"0", "0.01"}
  Levels = {0, 1, 2}
  OtherWords = 1
  None = None
  Sizes <- MCTwoSizes
  Sites <- MCSites
  Plrs <- MCPlrs
  AckLevels <- MCAckLevels
  Iterations = 2
  SubIterations = 2
  MetaIterations = 1
  Scripts <- MCScripts
  MaxStarts = 2
  UserLosses = {"0.01"}
  UserLevels = {1}
  Orbits = {"GEO", "LEO"}
  Chosen <- MCKinds
  MaxCalls = 3
CHECK_DEADLOCK FALSE
INVARIANTS TypeOK Labelled Complete CleanSlate RoutedUnlessStopped
PROPERTIES ScriptsEnd
