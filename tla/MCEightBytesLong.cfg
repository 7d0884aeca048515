SPECIFICATION Spec
CONSTANT Types <- LongArrays
CHECK_DEADLOCK FALSE
INVARIANT
  TwoRegionsBeyondEight
