SPECIFICATION FairSpec
CONSTANTS
  Names <- MCNames
  Shapes <- LifetimeShapes
  OptionSets <- OnlyDefault
  MaxStmts = 5
  Redeclare = FALSE
  BareDecl = FALSE
  UnknownUnused = FALSE
  Slack = FALSE
INVARIANTS
  TypeOK
  DestroyedOnceAfterLastUse
  RemovedOnlyIfUnused
  UndeletableDestroyedAtEnd
  RegistryOfOpenBlocks
  NoFreedStatement
  DeclarationInItsBlock
PROPERTIES
  Terminates
CHECK_DEADLOCK FALSE
