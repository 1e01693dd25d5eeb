SPECIFICATION FairSpec
CONSTANTS
  MaxEvents = 3
  Inputs <- NestedInputs
INVARIANT
  NothingFreed
CHECK_DEADLOCK FALSE
