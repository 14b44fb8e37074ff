SPECIFICATION Spec
CONSTANTS
  Node <- PairNode
  Leaf <- PairLeaf
  Parent <- PairParent
  Left <- PairLeft
  Right <- PairRight
  Pos <- PairPos
  Post <- PairPos
  Below <- PairBelow
  Marginal = {}
  Retentions = {"All"}
  Outputs = {2}
  Observed = {"free", "true"}
  MaxTableVars = 0
  MaxBatch = 1
  MaxQuery = 1
PROPERTIES
  RefusalInvalidates
