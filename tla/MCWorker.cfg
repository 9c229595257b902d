SPECIFICATION WorkerSpec
CONSTANTS
  NbThreads = 2
  Ampharos = TRUE
  Others = TRUE
  NbVars = 4
  Huge = 3
  Growth = 2
  Eliminated <- NoneOrFirst
  MaxImplied = 1
  MaxAssumed = 1
  MaxBumps = 3
INVARIANTS LeavesForAReason WinnerIsDone OrderIsSound
PROPERTIES SearchStops BestIsPicked
CHECK_DEADLOCK FALSE
