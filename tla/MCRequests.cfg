SPECIFICATION Spec
CONSTANTS
  Ops = {o1, o2}
  SpaceVariants <- MCSpaceVariants
  BuilderFields <- MCBuilderFields
INVARIANTS
  SentParses
  ReplyReachesOperation
