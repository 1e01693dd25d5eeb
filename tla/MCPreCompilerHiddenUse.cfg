SPECIFICATION Spec
CONSTANTS
  Names <- MCNames
  Shapes <- HiddenUseShapes
  OptionSets <- OnlyDefault
  MaxStmts = 4
  Redeclare = FALSE
  BareDecl = FALSE
  UnknownUnused = FALSE
  Slack = FALSE
INVARIANTS
  MentionedUndeletableDestroyedAtEnd
CHECK_DEADLOCK FALSE
