SPECIFICATION Spec
CONSTANTS
  Names <- MCNames
  Stmts <- MCStmts
  Programs <- MCPrograms
  OptimizeLabels = TRUE
  MaxTests = 4
  WithNullThen = TRUE
  Widest = 1
INVARIANTS
  JumpsResolve
CHECK_DEADLOCK FALSE
