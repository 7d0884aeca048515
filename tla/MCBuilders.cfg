SPECIFICATION Spec
CONSTANTS
  Frontend <- MCFrontend
  Variables <- MCVariables
CHECK_DEADLOCK FALSE
INVARIANTS
  TreesOK
  
  NeverAborts
  TreesAreTrees
  EffectsAsAsked
  OperandsAvailable
PROPERTY
  StatementsSettled
