SPECIFICATION Spec
CONSTANTS
  Leaf <- Leaf_
  Internal <- Internal_
  Left <- Left_
  Right <- Right_
  Operand <- Operands
  Plans = {"Full", "Contract", "Prune"}
  MaxCalls = 3
  ListedWholeMinWidth = 2
CHECK_DEADLOCK FALSE
INVARIANTS
  TypeOK
  CountIsExact
  OffListIsFixpoint
  LooseIsListed
  CertifiedIsCanonical
  FullIsMinimal
PROPERTIES
  Refines
