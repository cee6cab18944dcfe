SPECIFICATION Spec
INVARIANTS
  FlagsAreTrue
  HeldInOrder
  CleanExit
  FailedStartLeavesOneBlock
CHECK_DEADLOCK FALSE
