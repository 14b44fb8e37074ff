SPECIFICATION OpSpec
CONSTANTS
  Leaf <- Leaf_
  Internal <- Internal_
  Left <- Left_
  Right <- Right_
  Operand <- Operands
  VarSets <- Quantified
  Otherwise <- Fallbacks
  Plans = {"Full", "Contract", "Prune"}
  MaxCalls = 2
  ListedWholeMinWidth = 2
  PushRatio = 2
CHECK_DEADLOCK FALSE
INVARIANTS
  FullIsMinimal
  LooseStaysListed
  OffListIsFixpoint
  NodesDisjoint
PROPERTIES
  Refines
