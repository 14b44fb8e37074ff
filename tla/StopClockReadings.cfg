SPECIFICATION Spec
CONSTANTS
  Rules <- TimeRules
  Unbounded = 3
  ClockPolls = 3
  ClockPollWork = 2
  Amounts = {0, 1}
  MaxTime = 2
  MaxFrames = 1
INVARIANTS
  NeverEarly
  LateBounded
