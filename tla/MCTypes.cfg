SPECIFICATION DebugSpec
CONSTANT Frontend <- MCFrontend
CHECK_DEADLOCK FALSE
INVARIANTS
  TypesOK
  ConcreteAgree
  HashFresh
  NoneForgotten
  TemporariesReplaced
PROPERTY
  SizesStay
