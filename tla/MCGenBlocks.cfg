SPECIFICATION Spec
CONSTANTS
  Trees <- MCTrees
  Node <- MCNode
  Label <- Labels
  MaxEvents = 9
  MaxSteps = 60
CHECK_DEADLOCK FALSE
INVARIANTS
  TypeOK
  NeverAborts
  CachedReturnIsOwed
  CfgWellFormed
  MeaningPreserved
PROPERTY
  WalkEnds
