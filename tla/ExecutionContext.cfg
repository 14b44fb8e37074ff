SPECIFICATION FairSpec
CONSTANTS
  t1 = t1
  t2 = t2
  Thread <- TwoThreads
  Engine = {e1, e2, e3, e4}
  NoThread = NoThread
  NoEngine = NoEngine
  MaxDepth <- OneNests
INVARIANTS
  TypeOK
  EnginesAreExclusive
  ParkedIsPristine
  UserCodeIsUnlocked
PROPERTIES
  CallsProceed
