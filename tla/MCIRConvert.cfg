SPECIFICATION FairSpec
CONSTANTS
  Names <- MCNames
  Stmts <- MCStmts
  Programs <- MCPrograms
  OptimizeLabels = TRUE
  MaxTests = 4
  WithNullThen = FALSE
  Widest = 2
INVARIANTS
  TypeOK
  LabelsUnique
  JumpsResolve
  ChainsClosed
  JumpsKeepScope
  ScopeIsNesting
  LabelsMerged
  MeaningPreserved
PROPERTIES
  RootKept
  Terminates
  ImplementsTranslation
CHECK_DEADLOCK FALSE
