SPECIFICATION Spec
CONSTANTS
  Declared <- MCDeclared
  Defined <- MCDefined
  Globals <- MCGlobals
  References <- MCReferences
  Lookups <- MCLookups
  EmptyAfterError = FALSE
  MaxNodes = 3
  MaxBlocks = 2
  DeadInits = TRUE
  Options <- MCOptions
  Chunks <- MCChunks
  MaxChunks = 2
  MaxVersion = 2
  RetryAfterFailure = FALSE
  Plans <- MCPlans
  MaxSymbols = 5
  MaxObjects = 6
  MaxFunctions = 2
INVARIANT InitializersInBlocks
CHECK_DEADLOCK FALSE
