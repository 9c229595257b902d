SPECIFICATION Spec
CONSTANTS
  MaxVar = 6
  SmallSize = 4
  Formulas <- SmallFiles
  Options <- PlainOrAsymm
  Grow = 0
  ClauseLim = 2
INVARIANTS SameModels ModelOfTheFile IndexesExact FullySimplified
PROPERTY Terminates
