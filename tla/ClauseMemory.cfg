SPECIFICATION Spec
CONSTANTS
  MaxVar = 4
  Formulas <- Small
  Shared <- LearntElsewhere
  CoLBDBounds = {1, 3}
  LimitLBD = 1
  DirectReuse = TRUE
  Alpha = TRUE
  GarbageNum = 2
  GarbageDen = 5
  MaxAlloc = 2
INVARIANTS ReferencesExact CollectionIsInvisible OnOneList SharedOnce
CHECK_DEADLOCK FALSE
