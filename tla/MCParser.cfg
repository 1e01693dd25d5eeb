SPECIFICATION FairSpec
CONSTANTS
  Names <- MCNames
  Inputs <- MCInputs
INVARIANTS
  TypeOK
  NothingLost
  ParsedAsWritten
  NothingReadAfterError
PROPERTY
  EndsOutsideParameters
CHECK_DEADLOCK FALSE
