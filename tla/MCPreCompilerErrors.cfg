SPECIFICATION FairSpec
CONSTANTS
  Names <- MCNames
  Shapes <- RedeclarationShapes
  OptionSets <- AnyOptions
  MaxStmts = 5
  Redeclare = TRUE
  BareDecl = TRUE
  UnknownUnused = TRUE
  Slack = TRUE
INVARIANTS
  TypeOK
  RegistryOfOpenBlocks
PROPERTIES
  Terminates
CHECK_DEADLOCK FALSE
