SPECIFICATION FairSpec
CONSTANTS
  Node <- PairNode
  Leaf <- PairLeaf
  Parent <- PairParent
  Left <- PairLeft
  Right <- PairRight
  Pos <- PairPos
  Post <- PairPos
  Below <- PairBelow
  Marginal = {}
  Retentions = {"All", "Frontier"}
  Outputs = {2}
  Observed = {"free", "true"}
  MaxTableVars = 2
  MaxBatch = 2
  MaxQuery = 2
INVARIANTS
  PinsAsAsked
PROPERTIES
  AnswersAreFresh
  CallsReturn
