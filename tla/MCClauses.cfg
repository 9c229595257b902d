SPECIFICATION ClausesSpec
CONSTANTS
  Threads = {t1, t2, t3}
  Workers = {w1}
  WhenFullRemoveOlder = FALSE
  MaxPush = 4
  LastRank = 2
  Sizes = {2}
  MaxClauses <- TwoFromFirst
  PastEnds = {4}
  Finders = {0, 2}
INVARIANTS TypeOK CounterExact HeadIsAwaited NoLocalClauseLost CallsMatch ClausesArriveOnce
PROPERTIES ImportsInOrder ThreadsGoOn RoundsGoOn
CHECK_DEADLOCK FALSE
