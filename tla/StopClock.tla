------------------------------ MODULE StopClock ------------------------------
(***************************************************************************)
(* Cancellation of an engine's operations (limits/mod.rs, limits/stop.rs,  *)
(* limits/poll.rs, limits/meters.rs).                                      *)
(*                                                                         *)
(* Operations charge a work clock and an output-pair meter and test, at    *)
(* their polls, whether to stop: by rules on work units, on pairs built    *)
(* and on wall-clock time, and by a callback that may replace the rules.   *)
(* Three things make a test cheap, and each must leave its answer within   *)
(* what is promised: the quiet bounds kept with the rules, the clock       *)
(* reading that answers several tests, and the promise with which          *)
(* cannot_stop_within lets a route poll once for all its work.             *)
(*                                                                         *)
(* A callback is any code: while it decides it may use this same engine.   *)
(***************************************************************************)
EXTENDS Naturals, Sequences

CONSTANTS Rules,            \* the stop rules that configurations carry
          Unbounded,        \* u64::MAX, where the meters saturate
          ClockPolls,       \* CLOCK_POLLS
          ClockPollWork,    \* CLOCK_POLL_WORK
          Amounts,          \* bound: units and pairs one call charges
          MaxTime,          \* bound: the wall clock
          MaxFrames         \* bound: operations, scopes and tests in progress

\* An axis's StopAt, "none" where the axis is not armed; after_pairs with its floor.
StopAt    == [kind : {"none", "time", "work"}, at : Nat]
NoStop    == [kind |-> "none", at |-> 0]
StopRules == [unconditional : StopAt, floor : Nat, after : StopAt]
NoRules   == [unconditional |-> NoStop, floor |-> 0, after |-> NoStop]

ASSUME RulesAssumption == NoRules \in Rules /\ Rules \subseteq StopRules
ASSUME UnboundedAssumption == Unbounded \in Nat
ASSUME ClockAssumption == ClockPolls \in Nat \ {0} /\ ClockPollWork \in Nat
ASSUME AmountsAssumption == Amounts \subseteq Nat

VARIABLES now,              \* the host's monotonic clock
          work,             \* work_clock
          pairs,            \* pairs_in_flight
          levelCharge,      \* pairs_level_charge
          depth,            \* op_depth
          rules,            \* stop
          callback,         \* stop_callback.is_some()
          quiet,            \* the quiet bounds
          reading,          \* the last clock reading
          frames,           \* operations, scopes and tests in progress
          verdict,          \* history: what the last test answered, by which rules
          missed,           \* history: tests in a row that let a due stop pass
          promise           \* history: what cannot_stop_within last promised

vars == <<now, work, pairs, levelCharge, depth, rules, callback, quiet, reading,
          frames, verdict, missed, promise>>

Add(a, b) == IF a + b > Unbounded THEN Unbounded ELSE a + b      \* saturating_add
Sub(a, b) == IF a < b THEN 0 ELSE a - b                          \* saturating_sub

NoReading  == [taken |-> FALSE, at |-> 0, left |-> 0, work |-> 0]
NoMiss     == [tests |-> 0, from |-> 0, to |-> 0]
NoPromise  == [given |-> FALSE, work |-> 0, pairs |-> 0]
Verdict(kind, r) == [kind |-> kind, rules |-> r]
Silent           == Verdict("none", NoRules)
Frame(kind, r, decides, time) == [kind |-> kind, rules |-> r, callback |-> decides, at |-> time]
Top       == frames[Len(frames)]
Is(kind)  == frames # <<>> /\ Top.kind = kind
Popped    == SubSeq(frames, 1, Len(frames) - 1)
Room(fs)  == Len(fs) < MaxFrames
------------------------------------------------------------------------------
(* The quiet bounds of rules, and whether they hold at a work clock w and a *)
(* pair meter p.                                                            *)

Units(stop) == CASE stop.kind = "work" -> stop.at
                 [] stop.kind = "time" -> 0
                 [] OTHER -> Unbounded

Quiet(r, decides) ==
  IF decides THEN [work |-> 0, pairs |-> 0, pairsWork |-> 0]
  ELSE [work      |-> Units(r.unconditional),
        pairs     |-> IF r.after.kind = "none" THEN Unbounded ELSE r.floor,
        pairsWork |-> Units(r.after)]

Holds(q, w, p) == w < q.work /\ (p < q.pairs \/ w < q.pairsWork)
------------------------------------------------------------------------------
(* What a test answers at w, p and a time. *)

Reached(stop, w, time) == \/ stop.kind = "time" /\ time >= stop.at
                          \/ stop.kind = "work" /\ w >= stop.at

Falls(r, w, p, time) == \/ p >= r.floor /\ Reached(r.after, w, time)
                        \/ Reached(r.unconditional, w, time)

\* The clock is read for a threshold that is a time, the pair floor's first.
LooksAtClock(r, w, p) ==
  \/ r.after.kind = "time" /\ p >= r.floor
  \/ r.unconditional.kind = "time" /\ ~(r.after.kind = "work" /\ p >= r.floor /\ w >= r.after.at)

\* Mutant: a reading answers one test more.
StandsInOnceMore(w) == reading.taken /\ Sub(w, reading.work) < ClockPollWork

\* Whether the last reading may answer the test.
StandsIn(w) == reading.taken /\ reading.left > 0 /\ Sub(w, reading.work) < ClockPollWork

\* Mutant: the instant read is rounded up.
FreshRoundedUp(w) == [taken |-> TRUE, at |-> now + 1, left |-> ClockPolls - 1, work |-> w]

Fresh(w) == [taken |-> TRUE, at |-> now, left |-> ClockPolls - 1, work |-> w]
Read(w)  == IF StandsIn(w) THEN [reading EXCEPT !.left = @ - 1] ELSE Fresh(w)

Answer(r, stops) == verdict' = Verdict(IF stops THEN "stopped" ELSE "on", r)

\* The test let the caller go on; was a rule due?
Passed(w, p) == missed' = IF ~Falls(rules, w, p, now) THEN NoMiss
                          ELSE IF missed.tests = 0 THEN [tests |-> 1, from |-> w, to |-> w]
                          ELSE [missed EXCEPT !.tests = @ + 1, !.to = w]

\* should_stop: the quiet bounds answer.
QuietTest(fs, w, p) ==
  /\ Holds(quiet, w, p)
  /\ Answer(rules, FALSE) /\ Passed(w, p)
  /\ frames' = fs
  /\ UNCHANGED <<rules, quiet, reading, promise>>

\* should_stop_now without a callback.
RulesTest(fs, w, p) ==
  /\ ~Holds(quiet, w, p) /\ ~callback
  /\ LET looks == LooksAtClock(rules, w, p)
         stops == Falls(rules, w, p, IF looks THEN Read(w).at ELSE 0)
     IN  /\ reading' = IF looks THEN Read(w) ELSE reading
         /\ Answer(rules, stops)
         /\ IF stops THEN missed' = NoMiss ELSE Passed(w, p)
  /\ frames' = fs
  /\ UNCHANGED <<rules, quiet, promise>>

\* should_stop_now with one: the rules and the clock are read, and it is asked.
Ask(fs, w, p) ==
  /\ ~Holds(quiet, w, p) /\ callback /\ Room(fs)
  /\ reading' = Fresh(w)
  /\ frames' = Append(fs, Frame("test", rules, callback, now))
  /\ verdict' = Silent /\ missed' = NoMiss
  /\ UNCHANGED <<rules, quiet, promise>>

\* should_stop, once the meters read w and p.
Test(fs, w, p) == /\ QuietTest(fs, w, p) \/ RulesTest(fs, w, p) \/ Ask(fs, w, p)
                  /\ work' = w /\ pairs' = p
                  /\ UNCHANGED <<now, callback>>

\* The callback's three decisions.
DecidesStop == /\ Is("test")
               /\ frames' = Popped
               /\ verdict' = Verdict("told", Top.rules)
               /\ UNCHANGED <<now, work, pairs, levelCharge, depth, rules, callback, quiet, reading, missed, promise>>

\* Continue: by the rules the test read before it asked.
DecidesContinue == /\ Is("test")
                   /\ frames' = Popped
                   /\ Answer(Top.rules, Falls(Top.rules, work, pairs, Top.at))
                   /\ UNCHANGED <<now, work, pairs, levelCharge, depth, rules, callback, quiet, reading, missed, promise>>

\* Mutant: the quiet bounds stay those of the rules replaced.
DecidesReplaceAlone(next) ==
  /\ Is("test")
  /\ frames' = Popped
  /\ rules' = next
  /\ Answer(next, Falls(next, work, pairs, Top.at))
  /\ missed' = NoMiss /\ promise' = NoPromise
  /\ UNCHANGED <<now, work, pairs, levelCharge, depth, callback, quiet, reading>>

\* ReplaceRules.
DecidesReplace(next) == /\ Is("test")
                        /\ frames' = Popped
                        /\ rules' = next
                        /\ quiet' = Quiet(next, callback)
                        /\ Answer(next, Falls(next, work, pairs, Top.at))
                        /\ missed' = NoMiss /\ promise' = NoPromise
                        /\ UNCHANGED <<now, work, pairs, levelCharge, depth, callback, reading>>
------------------------------------------------------------------------------
(* Configurations. *)

Installed(r, decides) ==
  /\ rules' = r /\ callback' = decides
  /\ quiet' = Quiet(r, decides)
  /\ reading' = NoReading
  /\ verdict' = Silent /\ missed' = NoMiss /\ promise' = NoPromise
  /\ UNCHANGED <<now, work, pairs, levelCharge, depth>>

Install(r, decides) == Installed(r, decides) /\ UNCHANGED frames

\* scope and edit, and the drop that puts the configuration before back.
OpenScope(r, decides) == /\ Room(frames)
                         /\ frames' = Append(frames, Frame("scope", rules, callback, 0))
                         /\ Installed(r, decides)

CloseScope == /\ Is("scope")
              /\ frames' = Popped
              /\ Installed(Top.rules, Top.callback)
------------------------------------------------------------------------------
(* Operations and what they charge. *)

Operation == Frame("operation", NoRules, FALSE, 0)

\* zero_operation_meters at depth d of zero; the pair meter is zeroed with it.
Zeroed(d)     == levelCharge' = IF d = 0 THEN 0 ELSE levelCharge
PairsAfter(d) == IF d = 0 THEN 0 ELSE pairs

\* enter: begin_operation, then a test.
Enter == /\ Room(frames)
         /\ depth' = depth + 1
         /\ Zeroed(depth)
         /\ Test(Append(frames, Operation), work, PairsAfter(depth))

\* begin_operation alone.
Begin == /\ Room(frames)
         /\ frames' = Append(frames, Operation)
         /\ depth' = depth + 1
         /\ Zeroed(depth)
         /\ pairs' = PairsAfter(depth)
         /\ verdict' = Silent
         /\ UNCHANGED <<now, work, rules, callback, quiet, reading, missed, promise>>

NextPhase == /\ Is("operation")
             /\ Zeroed(depth - 1)
             /\ Test(frames, work, PairsAfter(depth - 1))
             /\ UNCHANGED depth

\* OperationScope::drop, on success or on any error.
End == /\ Is("operation")
       /\ frames' = Popped
       /\ depth' = depth - 1
       /\ verdict' = Silent
       /\ UNCHANGED <<now, work, pairs, levelCharge, rules, callback, quiet, reading, missed, promise>>

\* poll_now, check_stop and poll_host_work: charge, then test.
Poll(n) == /\ Test(frames, Add(work, n), pairs)
           /\ UNCHANGED <<levelCharge, depth>>

\* Mutant: the clock wraps past its width.
ChargeWorkWrapping(n) == /\ work' = work + n
                         /\ verdict' = Silent
                         /\ UNCHANGED <<now, pairs, levelCharge, depth, rules, callback, quiet, reading, frames, missed, promise>>

\* A gate dropped: charge_work without a test.
ChargeWork(n) == /\ work' = Add(work, n)
                 /\ verdict' = Silent
                 /\ UNCHANGED <<now, pairs, levelCharge, depth, rules, callback, quiet, reading, frames, missed, promise>>

ChargeOutputPairs(n) == /\ pairs' = Add(pairs, n)
                        /\ levelCharge' = Add(levelCharge, n)
                        /\ verdict' = Silent
                        /\ UNCHANGED <<now, work, depth, rules, callback, quiet, reading, frames, missed, promise>>

LevelSettled(exact) == /\ pairs' = Add(Sub(pairs, levelCharge), exact)
                       /\ levelCharge' = 0
                       /\ verdict' = Silent
                       /\ UNCHANGED <<now, work, depth, rules, callback, quiet, reading, frames, missed, promise>>

\* Mutant: the threshold may be the last unit charged.
BeforeOrAt(stop, end) == stop.kind = "none" \/ (stop.kind = "work" /\ end <= stop.at)

Before(stop, end) == stop.kind = "none" \/ (stop.kind = "work" /\ end < stop.at)

CannotStopWithin(w, p) == /\ ~callback
                          /\ Before(rules.unconditional, Add(work, w))
                          /\ \/ rules.after.kind # "none" /\ Add(pairs, p) < rules.floor
                             \/ Before(rules.after, Add(work, w))

\* cannot_stop_within answers true.
Promise(w, p) == /\ CannotStopWithin(w, p)
                 /\ promise' = [given |-> TRUE, work |-> Add(work, w), pairs |-> Add(pairs, p)]
                 /\ UNCHANGED <<now, work, pairs, levelCharge, depth, rules, callback, quiet, reading, frames, verdict, missed>>

Tick == /\ now < MaxTime
        /\ now' = now + 1
        /\ UNCHANGED <<work, pairs, levelCharge, depth, rules, callback, quiet, reading, frames, verdict, missed, promise>>
------------------------------------------------------------------------------
Init == /\ now = 0 /\ work = 0 /\ pairs = 0 /\ levelCharge = 0 /\ depth = 0
        /\ rules = NoRules /\ callback = FALSE
        /\ quiet = Quiet(NoRules, FALSE)
        /\ reading = NoReading
        /\ frames = <<>>
        /\ verdict = Silent /\ missed = NoMiss /\ promise = NoPromise

Next == \/ \E r \in Rules, decides \in BOOLEAN : Install(r, decides) \/ OpenScope(r, decides)
        \/ CloseScope
        \/ Enter \/ Begin \/ NextPhase \/ End
        \/ \E n \in Amounts : Poll(n) \/ ChargeWork(n) \/ ChargeOutputPairs(n) \/ LevelSettled(n)
        \/ DecidesStop \/ DecidesContinue
        \/ \E next \in Rules : DecidesReplace(next)
        \/ \E w, p \in Amounts : Promise(w, p)
        \/ Tick

Spec == Init /\ [][Next]_vars
------------------------------------------------------------------------------
(* Properties. *)

Meter   == 0 .. Unbounded
Reading == [taken : BOOLEAN, at : Nat, left : Nat, work : Meter]

\* Every variable has its type; the meters saturate within their width.
TypeOK ==
  /\ now \in Nat /\ work \in Meter /\ pairs \in Meter /\ levelCharge \in Meter
  /\ depth \in Nat
  /\ rules \in Rules /\ callback \in BOOLEAN
  /\ quiet \in [work : Nat, pairs : Nat, pairsWork : Nat]
  /\ reading \in Reading
  /\ frames \in Seq([kind : {"operation", "scope", "test"}, rules : Rules, callback : BOOLEAN, at : Nat])
  /\ verdict \in [kind : {"none", "on", "told", "stopped"}, rules : Rules]
  /\ missed \in [tests : Nat, from : Meter, to : Meter]
  /\ promise \in [given : BOOLEAN, work : Meter, pairs : Meter]

\* Where the quiet bounds hold, no callback waits to be asked and no rule in
\* force is due, whatever the callback replaced or installed while it decided
\* and wherever the meters saturated (Quiet: "the meter readings under which
\* no stop can fire").
QuietIsSound == Holds(quiet, work, pairs) => ~callback /\ ~Falls(rules, work, pairs, now)

\* A stop no callback ordered is one its rules called for: a reading that
\* stands in for the clock is never ahead of it ("a stop can land late, never
\* early").
NeverEarly == verdict.kind = "stopped" => Falls(verdict.rules, work, pairs, now)

\* A due stop is passed over by fewer tests in a row than CLOCK_POLLS and
\* within less work than CLOCK_POLL_WORK, through configurations, operations
\* and pair counts that come and go ("late by at most ... one such span").
LateBounded == /\ missed.tests < ClockPolls
               /\ missed.tests > 0 => missed.to - missed.from < ClockPollWork

\* As long as the meters stay within what cannot_stop_within was asked about,
\* no test stops, so a route may charge it all at once and poll once.
PromiseHolds == promise.given /\ work <= promise.work /\ pairs <= promise.pairs
                  => ~callback /\ ~Falls(rules, work, pairs, now)

\* What a level charged in advance is always part of the pair meter, operations
\* that left a level unsettled included: settling takes back no other level's.
LevelChargeIsCounted == levelCharge <= pairs

\* StopDecision::Continue: "Continue under the current stop rules."
ContinuesUnderCurrentRules ==
  [][DecidesContinue /\ verdict'.kind = "stopped" => Falls(rules, work, pairs, now)]_vars
==============================================================================
