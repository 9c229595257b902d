SPECIFICATION Spec
CONSTANTS
  NbThreads = 2
  NbWorkers = 1
  MaxSize = 16
  Sizes = {2, 3}
  WhenFullRemoveOlder = TRUE
  MaxPush = 5
INVARIANTS RingIsSound
PROPERTIES ImplementsExchange
