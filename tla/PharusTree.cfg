SPECIFICATION Spec
CONSTANTS
  Threads = {t1, t2, t3}
  Vars = {x, y}
  End = End
  Null = Null
  Freed = Freed
  MaxDepth = 2
SYMMETRY Symmetry
INVARIANTS NoModelLost TreeIsSound NodeToCutIsFound
CHECK_DEADLOCK FALSE
