SPECIFICATION Spec
CONSTANTS
  Names <- MCNames
  Shapes <- RedeclarationShapes
  OptionSets <- OnlyDefault
  MaxStmts = 4
  Redeclare = FALSE
  BareDecl = TRUE
  UnknownUnused = FALSE
  Slack = FALSE
INVARIANTS
  DeclarationInItsBlock
CHECK_DEADLOCK FALSE
