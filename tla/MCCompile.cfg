SPECIFICATION Spec
CONSTANTS
  Declared <- MCDeclared
  Defined <- MCDefined
  Globals <- MCGlobals
  References <- MCReferences
  Lookups <- MCLookups
  EmptyAfterError = FALSE
  MaxNodes = 3
  MaxBlocks = 2
  DeadInits = FALSE
  Options <- MCOptions
  Chunks <- MCChunks
  MaxChunks = 2
  MaxVersion = 2
  RetryAfterFailure = FALSE
  Plans <- MCPlans
  MaxSymbols = 5
  MaxObjects = 6
  MaxFunctions = 2
INVARIANTS
  NeverAborts
  SymbolsKept
  FreedOnce
  
  OutputOnlyWhenClean
  ObjectIsCurrent
  ExportReadsBack
  
CHECK_DEADLOCK FALSE
