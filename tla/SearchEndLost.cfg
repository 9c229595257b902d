SPECIFICATION FairSpec
CONSTANTS
  NbThreads = 2
  Ampharos = FALSE
  Others = FALSE
PROPERTY NotTouchedAfterSolution
CHECK_DEADLOCK FALSE
