SPECIFICATION Spec
CONSTANTS
  Frontend <- MCBranches
  Variables <- MCVariables
CHECK_DEADLOCK FALSE
INVARIANT OperandsAvailable
