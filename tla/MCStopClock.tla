----------------------------- MODULE MCStopClock -----------------------------
(* Rules with one threshold of each kind on each axis, and with both armed.   *)
EXTENDS StopClock

Never    == NoStop
Of(kind, at) == [kind |-> kind, at |-> at]
Rule(u, f, a) == [unconditional |-> u, floor |-> f, after |-> a]

\* For the bounds on work and pairs, the callback and the meters' width.
MeterRules == {NoRules, Rule(Of("work", 2), 0, Never), Rule(Never, 1, Of("work", 3)),
               Rule(Of("work", 3), 2, Of("time", 1))}

\* For the readings that stand in for the clock.
TimeRules == {NoRules, Rule(Of("time", 1), 0, Never), Rule(Never, 1, Of("time", 1)),
              Rule(Of("time", 2), 1, Of("work", 3))}
==============================================================================
