SPECIFICATION FairSpec
CONSTANTS
  NbWorkers = 2
  NbThreads <- TwoAndOne
  MaxVar = 2
  Room = 1
  Formulas <- Both
INVARIANT NoUnitLost
CHECK_DEADLOCK FALSE
PROPERTY EveryUnitArrives
