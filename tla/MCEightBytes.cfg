SPECIFICATION Spec
CONSTANT Types <- AllTypes
CHECK_DEADLOCK FALSE
INVARIANTS
  NeverAborts
  ContentsPassed
  FollowsABI
