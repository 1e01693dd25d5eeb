SPECIFICATION FairSpec
CONSTANTS
  MaxEvents = 3
  Inputs <- AllFiveInputs
INVARIANT
  MeaningAlwaysKept
CHECK_DEADLOCK FALSE
