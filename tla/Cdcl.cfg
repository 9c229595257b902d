SPECIFICATION Spec
CONSTANTS
  Vars <- Five
  Formulas <- Small
  Shareable <- LearntElsewhere
  Ampharos = TRUE
  MaxConflicts = 2
  MaxImports = 1
  MaxCube = 2
  AlphaAt = 2
INVARIANTS LearningIsSound ReasonsHold NoUnitMissed VerdictIsRight
CHECK_DEADLOCK FALSE
