SPECIFICATION ProgramSpec
CONSTANTS
  Type <- Types
  Void = "void"
  Size <- SizeOf
  Regions <- RegionsOf
  Extension <- ExtensionOf
  Aggregate <- IsAggregate
  Signature <- MCSignature
  EntryCode <- AllEntryCode
  MaxAllocas = 1
CHECK_DEADLOCK FALSE
INVARIANTS
  SlotsMatchOffsets
  PiecesStayTogether
  FailsOnlyWithoutAllocas
  CallMatchesSignature
  ArgumentsArrive
  AttributesAgree
  ResultArrives
