SPECIFICATION Spec
CONSTANTS
  Rules <- MeterRules
  Unbounded = 3
  ClockPolls = 1
  ClockPollWork = 1
  Amounts = {1, 2}
  MaxTime = 1
  MaxFrames = 2
INVARIANTS
  TypeOK
  QuietIsSound
  PromiseHolds
