CONSTANTS
  NumLeaves = 5
  Layouts <- Layouts5
  MaxPending = 2
SPECIFICATION Spec
INVARIANTS
  TypeOK
  ValidWhenSettled
  DeferredIsEager
PROPERTIES
  DropRestoresLinks
  RotationKeepsScopes
