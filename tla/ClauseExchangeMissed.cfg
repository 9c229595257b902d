SPECIFICATION Spec
CONSTANTS
  Threads = {t1, t2}
  Workers = {w1}
  WhenFullRemoveOlder = FALSE
  MaxPush = 1
INVARIANT SeenByAllThreads
CHECK_DEADLOCK FALSE
