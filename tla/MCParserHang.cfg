SPECIFICATION FairSpec
CONSTANTS
  Names <- MCNames
  Inputs <- HangInputs
PROPERTY
  Ends
CHECK_DEADLOCK FALSE
