SPECIFICATION Spec
CONSTANTS
  Trees <- FallthroughTrees
  Node <- FallthroughNodes
  Label <- Labels
  MaxEvents = 8
  MaxSteps = 60
CHECK_DEADLOCK FALSE
INVARIANT
  ModuleWellFormed
