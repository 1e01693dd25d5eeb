SPECIFICATION FairSpec
CONSTANT
  Inputs <- MCInputs
INVARIANTS
  TypeOK
  TokenPositions
  LongestOperator
PROPERTIES
  AdvanceByLexeme
  Terminates
CHECK_DEADLOCK FALSE
