SPECIFICATION Spec
CONSTANTS
  Node <- ColumnNode
  Leaf <- ColumnLeaf
  Parent <- ColumnParent
  Left <- ColumnLeft
  Right <- ColumnRight
  Pos <- ColumnPos
  Post <- ColumnPost
  Below <- ColumnBelow
  Marginal = {3}
  Retentions = {"All", "Frontier"}
  Outputs <- MarginalRootOrFalse
  Observed = {"free", "true"}
  MaxTableVars = 0
  MaxBatch = 1
  MaxQuery = 2
INVARIANTS
  TypeOK
  UnmarkedAreCurrent
  DirtyIsListed
  RefreshesOnlyAncestors
  FrontierIsThin
  AnswerIsCurrent
