SPECIFICATION FairSpec
CONSTANTS
  MaxEvents = 3
  Inputs <- AllInputs
INVARIANTS
  TypeOK
  MeaningKept
  NothingFreed
  OwnedOnce
PROPERTY
  Terminates
CHECK_DEADLOCK FALSE
