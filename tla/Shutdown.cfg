SPECIFICATION FairSpec
CONSTANTS
  Workers = {w1, w2}
  Tree = Tree
  None = None
  Modes <- SoundModes
  MaxULs = 1
  MaxClauses = 1
INVARIANTS NoMixedMessages AllSentIsReceived ManagerOutlivesWorkers
PROPERTIES ImplementsVerdict EverybodyEnds
CHECK_DEADLOCK FALSE
