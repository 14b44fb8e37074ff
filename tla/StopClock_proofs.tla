-------------------------- MODULE StopClock_proofs --------------------------
(***************************************************************************)
(* Proofs about StopClock, for every set of rules, width of the meters and *)
(* pair of clock-reading constants. The state invariant adds to the        *)
(* properties what they rest on: that the quiet bounds are those of the    *)
(* rules in force, that readings and open tests lie in the past, and, for  *)
(* the tests that let a due stop pass, that one reading answered them all. *)
(***************************************************************************)
EXTENDS StopClock, FiniteSetTheorems, SequenceTheorems, TLAPS

FrameType == [kind : {"operation", "scope", "test"}, rules : Rules, callback : BOOLEAN, at : Nat]

Operations(fs) == {i \in 1 .. Len(fs) : fs[i].kind = "operation"}

\* Frames that started in the past, d of them operations.
Good(fs, d) == /\ fs \in Seq(FrameType)
               /\ \A i \in 1 .. Len(fs) : fs[i].at <= now
               /\ IsFiniteSet(Operations(fs)) /\ Cardinality(Operations(fs)) = d

QuietIsOfRules == quiet = Quiet(rules, callback)

ReadingPast == /\ reading.at <= now
               /\ reading.work <= work
               /\ reading.left < ClockPolls

\* The tests in missed were all answered by the reading held.
Misses == missed.tests > 0 => /\ reading.work <= missed.from
                              /\ missed.from <= missed.to
                              /\ missed.to <= work
                              /\ missed.to - reading.work < ClockPollWork
                              /\ missed.tests + reading.left < ClockPolls

Promised == promise.given =>
              /\ ~callback
              /\ Before(rules.unconditional, promise.work)
              /\ \/ rules.after.kind # "none" /\ promise.pairs < rules.floor
                 \/ Before(rules.after, promise.work)

IInv == /\ TypeOK /\ QuietIsOfRules /\ Good(frames, depth) /\ ReadingPast
        /\ NeverEarly /\ Misses /\ Promised /\ LevelChargeIsCounted
------------------------------------------------------------------------------
(* Operators. *)

\* The parts of rules.
LEMMA RulesType == ASSUME NEW r \in Rules
                   PROVE  /\ r \in StopRules
                          /\ r.unconditional \in StopAt /\ r.after \in StopAt /\ r.floor \in Nat
BY RulesAssumption DEF StopRules

\* Saturating addition stays within the meter.
LEMMA AddType == ASSUME NEW a \in Meter, NEW b \in Nat
                 PROVE  Add(a, b) \in Meter /\ a <= Add(a, b)
BY UnboundedAssumption DEF Add, Meter

\* Saturating subtraction is subtraction where it does not saturate.
LEMMA SubType == ASSUME NEW a \in Meter, NEW b \in Nat
                 PROVE  Sub(a, b) \in Meter /\ (b <= a => Sub(a, b) = a - b)
BY UnboundedAssumption DEF Sub, Meter

\* Quiet bounds of rules leave nothing to fire, at any time.
LEMMA QuietSound ==
  ASSUME NEW r \in Rules, NEW c \in BOOLEAN, NEW w \in Meter, NEW p \in Meter, NEW t \in Nat,
         Holds(Quiet(r, c), w, p)
  PROVE  ~c /\ ~Falls(r, w, p, t)
<1>1. ~c
  BY DEF Holds, Quiet, Meter
<1>2. w < Units(r.unconditional)
  BY <1>1 DEF Holds, Quiet
<1>3. ~Reached(r.unconditional, w, t)
  BY <1>2, RulesType, UnboundedAssumption DEF Units, Reached, Meter, StopAt
<1>4. p < (IF r.after.kind = "none" THEN Unbounded ELSE r.floor) \/ w < Units(r.after)
  BY <1>1 DEF Holds, Quiet
<1>5. CASE r.after.kind = "none"
  BY <1>1, <1>3, <1>5 DEF Falls, Reached
<1>6. CASE r.after.kind # "none" /\ p < r.floor
  BY <1>1, <1>3, <1>6, RulesType, UnboundedAssumption DEF Falls, Meter
<1>7. CASE w < Units(r.after)
  <2>1. ~Reached(r.after, w, t)
    BY <1>7, RulesType, UnboundedAssumption DEF Units, Reached, Meter, StopAt
  <2> QED
    BY <1>1, <1>3, <2>1 DEF Falls
<1> QED
  BY <1>1, <1>4, <1>5, <1>6, <1>7

\* Quiet bounds are numbers.
LEMMA QuietType == ASSUME NEW r \in Rules, NEW c \in BOOLEAN
                   PROVE  Quiet(r, c) \in [work : Nat, pairs : Nat, pairsWork : Nat]
<1>1. Units(r.unconditional) \in Nat /\ Units(r.after) \in Nat
  BY RulesType, UnboundedAssumption DEF Units, StopAt
<1> QED
  BY <1>1, RulesType, UnboundedAssumption DEF Quiet

\* A rule due at one time is due later.
LEMMA FallsLater == ASSUME NEW r \in Rules, NEW w \in Meter, NEW p \in Meter, NEW t \in Nat, NEW u \in Nat,
                           t <= u, Falls(r, w, p, t)
                    PROVE  Falls(r, w, p, u)
<1>1. \A s \in StopAt : Reached(s, w, t) => Reached(s, w, u)
  BY DEF Reached, StopAt, Meter
<1> QED
  BY <1>1, RulesType DEF Falls

\* A test that does not look at the clock answers what one that does would.
LEMMA Unlooked == ASSUME NEW r \in Rules, NEW w \in Meter, NEW p \in Meter, NEW t \in Nat,
                         ~LooksAtClock(r, w, p), Falls(r, w, p, t)
                  PROVE  Falls(r, w, p, 0)
<1>1. CASE p >= r.floor /\ Reached(r.after, w, t)
  BY <1>1, RulesType DEF LooksAtClock, Falls, Reached, StopAt
<1>2. CASE Reached(r.unconditional, w, t)
  BY <1>2, RulesType DEF LooksAtClock, Falls, Reached, StopAt
<1> QED
  BY <1>1, <1>2 DEF Falls

\* Opening a frame.
LEMMA Pushed == ASSUME NEW fs, NEW d \in Nat, Good(fs, d), now \in Nat,
                       NEW f \in FrameType, f.at <= now
                PROVE  Good(Append(fs, f), IF f.kind = "operation" THEN d + 1 ELSE d)
<1> DEFINE gs == Append(fs, f)
<1>1. /\ gs \in Seq(FrameType) /\ Len(gs) = Len(fs) + 1 /\ gs[Len(fs) + 1] = f
      /\ \A i \in 1 .. Len(fs) : gs[i] = fs[i]
      /\ Len(fs) \in Nat
  BY AppendProperties DEF Good
<1>2. \A i \in 1 .. Len(gs) : gs[i].at <= now
  BY <1>1 DEF Good
<1>3. CASE f.kind = "operation"
  <2>1. Operations(gs) = Operations(fs) \cup {Len(fs) + 1}
    BY <1>1, <1>3 DEF Operations
  <2>2. Len(fs) + 1 \notin Operations(fs)
    BY <1>1 DEF Operations
  <2>3. IsFiniteSet(Operations(gs)) /\ Cardinality(Operations(gs)) = d + 1
    <3>1. IsFiniteSet(Operations(fs)) /\ Cardinality(Operations(fs)) = d
      BY DEF Good
    <3>2. IsFiniteSet(Operations(fs) \cup {Len(fs) + 1}) /\ Cardinality(Operations(fs) \cup {Len(fs) + 1}) = d + 1
      BY <2>2, <3>1, FS_AddElement
    <3> QED
      BY <2>1, <3>2, Zenon
  <2> QED
    BY <1>1, <1>2, <1>3, <2>3 DEF Good
<1>4. CASE f.kind # "operation"
  <2>1. Operations(gs) = Operations(fs)
    BY <1>1, <1>4 DEF Operations
  <2> QED
    BY <1>1, <1>2, <1>4, <2>1 DEF Good
<1> QED
  BY <1>3, <1>4

\* Closing the last one.
LEMMA PoppedGood == ASSUME NEW d \in Nat, Good(frames, d), now \in Nat, frames # <<>>
                    PROVE  /\ Top \in FrameType /\ Top.at <= now
                           /\ Top.kind = "operation" => d - 1 \in Nat /\ Good(Popped, d - 1)
                           /\ Top.kind # "operation" => Good(Popped, d)
<1> DEFINE n == Len(frames)
           gs == Popped
<1>1. n \in Nat \ {0}
  BY EmptySeq, LenProperties DEF Good
<1>2. /\ gs \in Seq(FrameType) /\ Len(gs) = n - 1
      /\ \A i \in 1 .. n - 1 : gs[i] = frames[i]
  <2>1. frames \in Seq(FrameType) /\ n = Len(frames) /\ n - 1 \in 0 .. n
    BY <1>1 DEF Good
  <2> HIDE DEF n
  <2>2. SubSeq(frames, 1, n - 1) \in Seq(FrameType) /\ Len(SubSeq(frames, 1, n - 1)) = n - 1
    BY <1>1, <2>1, SubSeqProperties
  <2>3. \A i \in 1 .. n - 1 : SubSeq(frames, 1, n - 1)[i] = frames[i]
    BY <1>1, <2>1, SubSeqProperties
  <2> QED
    BY <2>1, <2>2, <2>3 DEF n, Popped
<1>3. Top \in FrameType /\ Top.at <= now
  BY <1>1, ElementOfSeq DEF Good, Top
<1>4. \A i \in 1 .. Len(gs) : gs[i].at <= now
  BY <1>1, <1>2 DEF Good
<1>5. CASE Top.kind = "operation"
  <2>1. Operations(gs) = Operations(frames) \ {n}
    BY <1>1, <1>2 DEF Operations
  <2>2. n \in Operations(frames)
    BY <1>1, <1>5 DEF Operations, Top
  <2>3. IsFiniteSet(Operations(gs)) /\ Cardinality(Operations(gs)) = d - 1
    BY <2>1, <2>2, FS_RemoveElement DEF Good
  <2>4. d - 1 \in Nat
    BY <2>3, FS_CardinalityType
  <2> QED
    BY <1>2, <1>3, <1>4, <1>5, <2>3, <2>4 DEF Good
<1>6. CASE Top.kind # "operation"
  <2>1. Operations(gs) = Operations(frames)
    BY <1>1, <1>2, <1>6 DEF Operations, Top
  <2> QED
    BY <1>2, <1>3, <1>4, <1>6, <2>1 DEF Good
<1> QED
  BY <1>5, <1>6
------------------------------------------------------------------------------
(* Tests. *)

ReadingKept == reading' \in Reading /\ reading'.at <= now /\ reading'.work <= work' /\ reading'.left < ClockPolls

\* What a test reads the time from lies in the past, and is the time unless it
\* stood in.
LEMMA ReadPast ==
  ASSUME TypeOK, ReadingPast, NEW w \in Meter, work <= w
  PROVE  /\ Read(w) \in Reading /\ Read(w).at <= now /\ Read(w).work <= w /\ Read(w).left < ClockPolls
         /\ Read(w).at = now \/ StandsIn(w)
         /\ StandsIn(w) => /\ Read(w).work = reading.work /\ Read(w).left + 1 = reading.left
                           /\ w - reading.work < ClockPollWork
<1>1. CASE StandsIn(w)
  <2>1. Read(w) = [reading EXCEPT !.left = @ - 1] /\ reading.left > 0
    BY <1>1 DEF Read, StandsIn
  <2>2. reading \in Reading /\ reading.left \in Nat /\ reading.work \in Meter /\ work \in Meter
    BY DEF TypeOK, Reading
  <2>3. w - reading.work < ClockPollWork
    <3>1. reading.work \in Nat /\ reading.work <= w
      BY <2>2, UnboundedAssumption DEF ReadingPast, Meter
    <3>2. Sub(w, reading.work) = w - reading.work
      BY <3>1, SubType
    <3> QED
      BY <1>1, <3>2 DEF StandsIn
  <2> QED
    BY <1>1, <2>1, <2>2, <2>3, ClockAssumption, UnboundedAssumption DEF Reading, ReadingPast, Meter
<1>2. CASE ~StandsIn(w)
  <2>1. Read(w) = [taken |-> TRUE, at |-> now, left |-> ClockPolls - 1, work |-> w]
    BY <1>2 DEF Read, Fresh
  <2>2. now \in Nat /\ ClockPolls - 1 \in Nat /\ ClockPolls - 1 < ClockPolls /\ w <= w
    BY ClockAssumption, UnboundedAssumption DEF TypeOK, Meter
  <2> QED
    BY <1>2, <2>1, <2>2 DEF Reading
<1> QED
  BY <1>1, <1>2

\* A test's rules leave a due stop only to a reading that stood in.
LEMMA LetPass ==
  ASSUME TypeOK, ReadingPast, NEW w \in Meter, NEW p \in Meter, work <= w,
         Falls(rules, w, p, now),
         ~Falls(rules, w, p, IF LooksAtClock(rules, w, p) THEN Read(w).at ELSE 0)
  PROVE  LooksAtClock(rules, w, p) /\ StandsIn(w)
<1>1. rules \in Rules /\ now \in Nat
  BY DEF TypeOK
<1>2. LooksAtClock(rules, w, p)
  BY <1>1, Unlooked
<1>3. Read(w).at # now
  BY <1>2
<1> QED
  BY <1>2, <1>3, ReadPast

\* What a test keeps of the invariant, whatever it answers.
LEMMA TestKeeps ==
  ASSUME IInv, NEW fs, NEW d \in Nat, Good(fs, d), NEW w \in Meter, NEW p \in Meter, work <= w,
         Test(fs, w, p)
  PROVE  /\ now' = now /\ callback' = callback /\ rules' = rules /\ quiet' = quiet /\ promise' = promise
         /\ work' = w /\ pairs' = p
         /\ Good(frames', d)
         /\ ReadingKept
         /\ verdict' \in [kind : {"none", "on", "told", "stopped"}, rules : Rules]
         /\ missed' \in [tests : Nat, from : Meter, to : Meter]
         /\ NeverEarly' /\ Misses'
<1>1. /\ now' = now /\ callback' = callback /\ work' = w /\ pairs' = p
      /\ rules' = rules /\ quiet' = quiet /\ promise' = promise
  BY DEF Test, QuietTest, RulesTest, Ask
<1>2. /\ rules \in Rules /\ now \in Nat /\ callback \in BOOLEAN /\ reading \in Reading /\ work \in Meter
      /\ missed \in [tests : Nat, from : Meter, to : Meter]
      /\ missed.tests \in Nat /\ missed.from \in Meter /\ missed.to \in Meter
  BY DEF IInv, TypeOK
<1>3. NoRules \in Rules /\ Silent \in [kind : {"none", "on", "told", "stopped"}, rules : Rules]
  BY RulesAssumption DEF Silent, Verdict
<1>4. NoMiss \in [tests : Nat, from : Meter, to : Meter] /\ NoMiss.tests = 0
  BY UnboundedAssumption DEF NoMiss, Meter
<1>5. CASE QuietTest(fs, w, p)
  <2>1. ~Falls(rules, w, p, now)
    BY <1>2, <1>5, QuietSound DEF QuietTest, IInv, QuietIsOfRules
  <2>2. missed' = NoMiss
    BY <1>5, <2>1 DEF QuietTest, Passed
  <2>3. verdict' = Verdict("on", rules) /\ reading' = reading /\ frames' = fs
    BY <1>5 DEF QuietTest, Answer
  <2>4. ReadingKept
    BY <1>1, <1>2, <2>3, ClockAssumption, UnboundedAssumption DEF ReadingKept, IInv, ReadingPast, Reading, Meter
  <2>5. NeverEarly' /\ verdict' \in [kind : {"none", "on", "told", "stopped"}, rules : Rules]
    BY <1>2, <2>3 DEF NeverEarly, Verdict
  <2> QED
    BY <1>1, <1>4, <2>2, <2>3, <2>4, <2>5 DEF Misses
<1>6. CASE RulesTest(fs, w, p)
  <2> DEFINE looks == LooksAtClock(rules, w, p)
             time == IF looks THEN Read(w).at ELSE 0
             stops == Falls(rules, w, p, time)
  <2>1. /\ reading' = IF looks THEN Read(w) ELSE reading
        /\ verdict' = Verdict(IF stops THEN "stopped" ELSE "on", rules)
        /\ stops => missed' = NoMiss
        /\ ~stops => Passed(w, p)
        /\ frames' = fs
    BY <1>6 DEF RulesTest, Answer
  <2>2. TypeOK /\ ReadingPast
    BY DEF IInv
  <2>3. /\ Read(w) \in Reading /\ Read(w).at <= now /\ Read(w).work <= w /\ Read(w).left < ClockPolls
    BY <2>2, ReadPast
  <2>4. time \in Nat /\ time <= now
    BY <1>2, <2>3 DEF Reading
  <2>5. ReadingKept
    BY <1>1, <1>2, <2>1, <2>2, <2>3, ClockAssumption, UnboundedAssumption DEF ReadingKept, ReadingPast, Reading, Meter
  <2>6. stops => Falls(rules, w, p, now)
    BY <1>2, <2>4, FallsLater
  <2> HIDE DEF time
  <2>7. NeverEarly' /\ verdict' \in [kind : {"none", "on", "told", "stopped"}, rules : Rules]
    BY <1>1, <1>2, <2>1, <2>6 DEF NeverEarly, Verdict
  <2>8. CASE stops \/ ~Falls(rules, w, p, now)
    <3>1. missed' = NoMiss
      BY <2>1, <2>8 DEF Passed
    <3> QED
      BY <1>1, <1>4, <2>1, <2>5, <2>7, <3>1 DEF Misses
  <2>9. CASE ~stops /\ Falls(rules, w, p, now)
    <3>1. looks /\ StandsIn(w)
      BY <2>2, <2>9, LetPass DEF time
    <3>2. /\ reading'.work = reading.work /\ reading'.left + 1 = reading.left
          /\ w - reading.work < ClockPollWork
      BY <2>1, <2>2, <3>1, ReadPast
    <3>3. missed' = IF missed.tests = 0 THEN [tests |-> 1, from |-> w, to |-> w]
                    ELSE [missed EXCEPT !.tests = @ + 1, !.to = w]
      BY <2>1, <2>9 DEF Passed
    <3>4. reading.work \in Meter /\ reading.left \in Nat /\ reading.work <= work /\ reading.left < ClockPolls
          /\ reading'.left \in Nat
      BY <1>2, <2>2, <2>5 DEF Reading, ReadingPast, ReadingKept
    <3>5. Misses
      BY DEF IInv
    <3>7. CASE missed.tests = 0
      <4>1. missed'.tests = 1 /\ missed'.from = w /\ missed'.to = w
        BY <3>3, <3>7
      <4>3. missed' \in [tests : Nat, from : Meter, to : Meter]
        BY <3>3, <3>7
      <4>2. Misses'
        BY <1>1, <1>2, <3>2, <3>4, <4>1, ClockAssumption, UnboundedAssumption DEF Misses, Meter
      <4> QED
        BY <1>1, <2>1, <2>5, <2>7, <4>2, <4>3
    <3>8. CASE missed.tests # 0
      <4>1. missed'.tests = missed.tests + 1 /\ missed'.from = missed.from /\ missed'.to = w
        BY <1>2, <3>3, <3>8
      <4>3. missed' \in [tests : Nat, from : Meter, to : Meter]
        <5>1. missed' = [missed EXCEPT !.tests = @ + 1, !.to = w] /\ missed.tests + 1 \in Nat
          BY <1>2, <3>3, <3>8
        <5> QED
          BY <1>2, <5>1
      <4>2. Misses'
        BY <1>1, <1>2, <3>2, <3>4, <3>5, <3>8, <4>1, ClockAssumption, UnboundedAssumption DEF Misses, Meter
      <4> QED
        BY <1>1, <2>1, <2>5, <2>7, <4>2, <4>3
    <3> QED
      BY <3>7, <3>8
  <2> QED
    BY <2>8, <2>9
<1>7. CASE Ask(fs, w, p)
  <2> DEFINE f == Frame("test", rules, callback, now)
  <2>1. reading' = Fresh(w) /\ frames' = Append(fs, f) /\ verdict' = Silent /\ missed' = NoMiss
    BY <1>7 DEF Ask
  <2>2. f \in FrameType /\ f.at <= now /\ f.kind # "operation"
    BY <1>2 DEF Frame, FrameType
  <2>3. Good(frames', d)
    BY <1>2, <2>1, <2>2, Pushed
  <2>4. ReadingKept
    BY <1>1, <1>2, <2>1, ClockAssumption, UnboundedAssumption DEF ReadingKept, Fresh, Reading, Meter
  <2> QED
    BY <1>1, <1>3, <1>4, <2>1, <2>3, <2>4 DEF NeverEarly, Misses, Silent, Verdict
<1> QED
  BY <1>5, <1>6, <1>7 DEF Test
------------------------------------------------------------------------------
(* The steps. *)

\* A configuration put in force.
LEMMA InstalledKeeps ==
  ASSUME IInv, NEW r \in Rules, NEW c \in BOOLEAN, Installed(r, c), Good(frames', depth)
  PROVE  IInv'
<1>1. /\ rules' = r /\ callback' = c /\ quiet' = Quiet(r, c) /\ reading' = NoReading
      /\ verdict' = Silent /\ missed' = NoMiss /\ promise' = NoPromise
      /\ UNCHANGED <<now, work, pairs, levelCharge, depth>>
  BY DEF Installed
<1>2. NoRules \in Rules /\ NoReading \in Reading /\ NoMiss \in [tests : Nat, from : Meter, to : Meter]
      /\ NoPromise \in [given : BOOLEAN, work : Meter, pairs : Meter]
  BY RulesAssumption, UnboundedAssumption DEF NoReading, NoMiss, NoPromise, Reading, Meter
<1>3. Good(frames, depth)'
  BY <1>1 DEF Good
<1>4. TypeOK'
  BY <1>1, <1>2, <1>3, QuietType DEF IInv, TypeOK, Silent, Verdict, Good, FrameType
<1>5. ReadingPast'
  BY <1>1, ClockAssumption, UnboundedAssumption DEF IInv, TypeOK, ReadingPast, NoReading, Meter
<1> QED
  BY <1>1, <1>3, <1>4, <1>5
  DEF IInv, QuietIsOfRules, NeverEarly, Misses, Promised, LevelChargeIsCounted, Silent, Verdict, NoMiss, NoPromise

\* A test, with whatever its caller charged to the level and entered.
LEMMA TestedKeeps ==
  ASSUME IInv, NEW fs, Good(fs, depth'), depth' \in Nat, NEW w \in Meter, NEW p \in Meter, work <= w,
         Test(fs, w, p), levelCharge' \in Meter, levelCharge' <= p
  PROVE  IInv'
<1>1. /\ now' = now /\ callback' = callback /\ rules' = rules /\ quiet' = quiet /\ promise' = promise
      /\ work' = w /\ pairs' = p /\ Good(frames', depth') /\ ReadingKept
      /\ verdict' \in [kind : {"none", "on", "told", "stopped"}, rules : Rules]
      /\ missed' \in [tests : Nat, from : Meter, to : Meter]
      /\ NeverEarly' /\ Misses'
  BY TestKeeps
<1>2. Good(frames, depth)'
  BY <1>1 DEF Good
<1>3. TypeOK'
  BY <1>1, <1>2 DEF IInv, TypeOK, Good, FrameType, ReadingKept
<1> QED
  BY <1>1, <1>2, <1>3 DEF IInv, QuietIsOfRules, ReadingPast, ReadingKept, Promised, LevelChargeIsCounted

\* The meters at the start of an operation or of its next phase.
LEMMA ZeroedKeeps ==
  ASSUME IInv, NEW d \in Nat, Zeroed(d)
  PROVE  PairsAfter(d) \in Meter /\ levelCharge' \in Meter /\ levelCharge' <= PairsAfter(d)
BY UnboundedAssumption DEF IInv, TypeOK, Zeroed, PairsAfter, LevelChargeIsCounted, Meter

\* Steps that touch the meters, the frames or the clock and test nothing.
LEMMA QuietStepKeeps ==
  ASSUME IInv, now' \in Nat, now <= now', work' \in Meter, work <= work', pairs' \in Meter,
         levelCharge' \in Meter, levelCharge' <= pairs', depth' \in Nat, Good(frames', depth'),
         verdict' = Silent \/ (verdict' = verdict /\ UNCHANGED <<work, pairs>>),
         UNCHANGED <<rules, callback, quiet, reading, missed, promise>>
  PROVE  IInv'
<1>1. /\ rules \in Rules /\ now \in Nat /\ work \in Meter /\ reading \in Reading /\ verdict.rules \in Rules
      /\ pairs \in Meter
  BY DEF IInv, TypeOK
<1>2. Good(frames, depth)'
  <2>1. \A i \in 1 .. Len(frames') : frames'[i].at <= now'
    <3> SUFFICES ASSUME NEW i \in 1 .. Len(frames')
                 PROVE  frames'[i].at <= now'
      OBVIOUS
    <3>1. frames' \in Seq(FrameType) /\ frames'[i].at <= now
      BY DEF Good
    <3>2. frames'[i] \in FrameType
      BY <3>1, ElementOfSeq
    <3>3. frames'[i].at \in Nat
      BY <3>2 DEF FrameType
    <3> QED
      BY <1>1, <3>1, <3>3
  <2> QED
    BY <2>1 DEF Good
<1>3. TypeOK'
  <2>1. verdict' \in [kind : {"none", "on", "told", "stopped"}, rules : Rules]
    BY RulesAssumption DEF IInv, TypeOK, Silent, Verdict
  <2> QED
    BY <2>1, <1>2 DEF IInv, TypeOK, Good, FrameType
<1>4. ReadingPast' /\ Misses'
  <2>1. /\ reading.at \in Nat /\ reading.work \in Nat /\ missed.to \in Nat /\ work \in Nat /\ work' \in Nat
    BY <1>1, UnboundedAssumption DEF IInv, TypeOK, Reading, Meter
  <2>2. ReadingPast /\ Misses
    BY DEF IInv
  <2>3. ReadingPast'
    BY <1>1, <2>1, <2>2 DEF ReadingPast
  <2>4. Misses'
    BY <2>1, <2>2 DEF Misses
  <2> QED
    BY <2>3, <2>4
<1>5. NeverEarly'
  BY <1>1, FallsLater DEF IInv, NeverEarly, Silent, Verdict
<1> QED
  BY <1>2, <1>3, <1>4, <1>5 DEF IInv, QuietIsOfRules, Promised, LevelChargeIsCounted
\* A decision that leaves the configuration alone.
LEMMA DecidedKeeps ==
  ASSUME IInv, Good(frames', depth), Top \in FrameType, Top.at <= now, NEW kind \in {"on", "told", "stopped"},
         verdict' = Verdict(kind, Top.rules),
         kind = "stopped" => Falls(Top.rules, work, pairs, Top.at),
         UNCHANGED <<now, work, pairs, levelCharge, depth, rules, callback, quiet, reading, missed, promise>>
  PROVE  IInv'
<1>1. Good(frames, depth)'
  BY DEF Good
<1>2. Top.rules \in Rules /\ Top.at \in Nat
  BY DEF FrameType
<1>3. NeverEarly'
  BY <1>2, FallsLater DEF IInv, TypeOK, NeverEarly, Verdict
<1>4. TypeOK'
  BY <1>1, <1>2 DEF IInv, TypeOK, Good, FrameType, Verdict
<1> QED
  BY <1>1, <1>3, <1>4 DEF IInv, QuietIsOfRules, ReadingPast, Misses, Promised, LevelChargeIsCounted

\* The decision that replaces the rules.
LEMMA ReplacedKeeps ==
  ASSUME IInv, Good(Popped, depth), Top \in FrameType, Top.at <= now, NEW next \in Rules, DecidesReplace(next)
  PROVE  IInv'
<1>1. /\ frames' = Popped /\ rules' = next /\ quiet' = Quiet(next, callback)
      /\ verdict' = Verdict(IF Falls(next, work, pairs, Top.at) THEN "stopped" ELSE "on", next)
      /\ missed' = NoMiss /\ promise' = NoPromise
      /\ UNCHANGED <<now, work, pairs, levelCharge, depth, callback, reading>>
  BY DEF DecidesReplace, Answer
<1>2. Good(frames, depth)'
  BY <1>1 DEF Good
<1>3. Top.at \in Nat
  BY DEF FrameType
<1>4. NeverEarly'
  BY <1>1, <1>3, FallsLater DEF IInv, TypeOK, NeverEarly, Verdict
<1>5. NoMiss \in [tests : Nat, from : Meter, to : Meter] /\ NoPromise \in [given : BOOLEAN, work : Meter, pairs : Meter]
  BY UnboundedAssumption DEF NoMiss, NoPromise, Meter
<1>6. TypeOK'
  BY <1>1, <1>2, <1>5, QuietType DEF IInv, TypeOK, Good, FrameType, Verdict
<1> QED
  BY <1>1, <1>2, <1>4, <1>6
  DEF IInv, QuietIsOfRules, ReadingPast, Misses, Promised, LevelChargeIsCounted, NoMiss, NoPromise
------------------------------------------------------------------------------
\* It holds where an engine starts.
LEMMA InitIInv == Init => IInv
<1> SUFFICES ASSUME Init PROVE IInv
  OBVIOUS
<1>1. NoRules \in Rules /\ 0 \in Meter
  BY RulesAssumption, UnboundedAssumption DEF Meter
<1>2. frames = <<>> /\ Operations(frames) = {}
  BY DEF Init, Operations
<1>3. Good(frames, depth)
  <2>1. Cardinality(Operations(frames)) = 0 /\ IsFiniteSet(Operations(frames))
    BY <1>2, FS_EmptySet
  <2> QED
    BY <1>2, <2>1 DEF Init, Good
<1>4. /\ now = 0 /\ work = 0 /\ pairs = 0 /\ levelCharge = 0 /\ depth = 0
      /\ rules = NoRules /\ callback = FALSE /\ quiet = Quiet(NoRules, FALSE)
      /\ reading = NoReading /\ verdict = Silent /\ missed = NoMiss /\ promise = NoPromise
  BY DEF Init
<1>5. NoReading \in Reading /\ NoMiss \in [tests : Nat, from : Meter, to : Meter]
      /\ NoPromise \in [given : BOOLEAN, work : Meter, pairs : Meter]
      /\ Silent \in [kind : {"none", "on", "told", "stopped"}, rules : Rules]
  BY <1>1 DEF NoReading, NoMiss, NoPromise, Silent, Verdict, Reading
<1>6. TypeOK
  <2>1. FALSE \in BOOLEAN /\ quiet \in [work : Nat, pairs : Nat, pairsWork : Nat] /\ callback \in BOOLEAN
    BY <1>1, <1>4, QuietType, Zenon
  <2>2. now \in Nat /\ depth \in Nat /\ rules \in Rules /\ levelCharge \in Meter
    BY <1>1, <1>4
  <2>3. frames \in Seq([kind : {"operation", "scope", "test"}, rules : Rules, callback : BOOLEAN, at : Nat])
    BY <1>3 DEF Good, FrameType
  <2> QED
    BY <1>1, <1>4, <1>5, <2>1, <2>2, <2>3, Zenon DEF TypeOK
<1>7. ReadingPast /\ Misses
  BY <1>4, ClockAssumption DEF ReadingPast, Misses, NoReading, NoMiss
<1>8. QuietIsOfRules /\ NeverEarly /\ Promised /\ LevelChargeIsCounted
  <2>1. QuietIsOfRules
    BY <1>4, Zenon DEF QuietIsOfRules
  <2> QED
    BY <1>4, <2>1 DEF NeverEarly, Promised, LevelChargeIsCounted, Silent, Verdict, NoPromise
<1> QED
  BY <1>3, <1>6, <1>7, <1>8 DEF IInv

\* Every step keeps it.
LEMMA StepIInv == IInv /\ [Next]_vars => IInv'
<1> SUFFICES ASSUME IInv, [Next]_vars PROVE IInv'
  OBVIOUS
<1> USE DEF Meter
<1>1. /\ now \in Nat /\ work \in Meter /\ pairs \in Meter /\ levelCharge \in Meter /\ depth \in Nat
      /\ rules \in Rules /\ callback \in BOOLEAN /\ reading \in Reading /\ levelCharge <= pairs
      /\ Good(frames, depth)
  BY DEF IInv, TypeOK, LevelChargeIsCounted
<1>2. NoRules \in Rules /\ work <= work /\ now <= now /\ \A n \in Amounts : n \in Nat
  BY <1>1, RulesAssumption, AmountsAssumption, UnboundedAssumption
<1>3. Operation \in FrameType /\ Operation.kind = "operation" /\ Operation.at <= now
  BY <1>1, <1>2 DEF Operation, Frame, FrameType
<1>4. depth + 1 \in Nat /\ Good(Append(frames, Operation), depth + 1)
  BY <1>1, <1>3, Pushed
<1>5. ASSUME frames # <<>>
      PROVE  /\ Top \in FrameType /\ Top.at <= now
             /\ Top.kind = "operation" => depth - 1 \in Nat /\ Good(Popped, depth - 1)
             /\ Top.kind # "operation" => Good(Popped, depth)
  BY <1>1, <1>5, PoppedGood
<1>6. ASSUME NEW r \in Rules, NEW decides \in BOOLEAN, Install(r, decides) PROVE IInv'
  BY <1>1, <1>6, InstalledKeeps DEF Install
<1>7. ASSUME NEW r \in Rules, NEW decides \in BOOLEAN, OpenScope(r, decides) PROVE IInv'
  <2> DEFINE f == Frame("scope", rules, callback, 0)
  <2>1. f \in FrameType /\ f.kind # "operation" /\ f.at <= now
    BY <1>1 DEF Frame, FrameType
  <2>2. frames' = Append(frames, f) /\ Installed(r, decides)
    BY <1>7 DEF OpenScope
  <2>3. Good(frames', depth)
    BY <1>1, <2>1, <2>2, Pushed
  <2> QED
    BY <2>2, <2>3, InstalledKeeps
<1>8. CASE CloseScope
  <2>1. frames # <<>> /\ Top.kind = "scope" /\ frames' = Popped /\ Installed(Top.rules, Top.callback)
    BY <1>8 DEF CloseScope, Is
  <2>2. Top.rules \in Rules /\ Top.callback \in BOOLEAN /\ Good(frames', depth)
    BY <1>5, <2>1 DEF FrameType
  <2> QED
    BY <2>1, <2>2, InstalledKeeps
<1>9. CASE Enter
  <2>1. /\ depth' = depth + 1 /\ Zeroed(depth) /\ Test(Append(frames, Operation), work, PairsAfter(depth))
    BY <1>9 DEF Enter
  <2>2. PairsAfter(depth) \in Meter /\ levelCharge' \in Meter /\ levelCharge' <= PairsAfter(depth)
    BY <1>1, <2>1, ZeroedKeeps
  <2> QED
    BY <1>1, <1>2, <1>4, <2>1, <2>2, TestedKeeps
<1>10. CASE Begin
  <2>1. PairsAfter(depth) \in Meter /\ levelCharge' \in Meter /\ levelCharge' <= PairsAfter(depth)
    BY <1>1, <1>10, ZeroedKeeps DEF Begin
  <2> QED
    BY <1>1, <1>2, <1>4, <1>10, <2>1, QuietStepKeeps DEF Begin
<1>11. CASE NextPhase
  <2>1. depth - 1 \in Nat
    BY <1>5, <1>11 DEF NextPhase, Is
  <2>2. Zeroed(depth - 1) /\ Test(frames, work, PairsAfter(depth - 1)) /\ depth' = depth
    BY <1>11 DEF NextPhase
  <2>3. PairsAfter(depth - 1) \in Meter /\ levelCharge' \in Meter /\ levelCharge' <= PairsAfter(depth - 1)
    BY <2>1, <2>2, ZeroedKeeps
  <2> QED
    BY <1>1, <1>2, <2>2, <2>3, TestedKeeps
<1>12. CASE End
  <2>1. depth' = depth - 1 /\ depth - 1 \in Nat /\ Good(frames', depth')
    BY <1>5, <1>12 DEF End, Is
  <2> QED
    BY <1>1, <1>2, <1>12, <2>1, QuietStepKeeps DEF End
<1>13. ASSUME NEW n \in Amounts, Poll(n) PROVE IInv'
  <2>1. Add(work, n) \in Meter /\ work <= Add(work, n)
    BY <1>1, <1>2, AddType
  <2>2. Test(frames, Add(work, n), pairs) /\ levelCharge' = levelCharge /\ depth' = depth
    BY <1>13 DEF Poll
  <2> QED
    BY <1>1, <2>1, <2>2, TestedKeeps
<1>14. ASSUME NEW n \in Amounts, ChargeWork(n) PROVE IInv'
  <2>1. Add(work, n) \in Meter /\ work <= Add(work, n)
    BY <1>1, <1>2, AddType
  <2> QED
    BY <1>1, <1>2, <1>14, <2>1, QuietStepKeeps DEF ChargeWork
<1>15. ASSUME NEW n \in Amounts, ChargeOutputPairs(n) PROVE IInv'
  <2>1. Add(pairs, n) \in Meter /\ Add(levelCharge, n) \in Meter /\ Add(levelCharge, n) <= Add(pairs, n)
    BY <1>1, <1>2, UnboundedAssumption DEF Add
  <2> QED
    BY <1>1, <1>2, <1>15, <2>1, QuietStepKeeps DEF ChargeOutputPairs
<1>16. ASSUME NEW n \in Amounts, LevelSettled(n) PROVE IInv'
  <2>1. Sub(pairs, levelCharge) \in Meter
    BY <1>1, SubType
  <2>2. Add(Sub(pairs, levelCharge), n) \in Meter /\ 0 \in Meter /\ 0 <= Add(Sub(pairs, levelCharge), n)
    BY <1>2, <2>1, AddType, UnboundedAssumption
  <2> QED
    BY <1>1, <1>2, <1>16, <2>2, QuietStepKeeps DEF LevelSettled
<1>17. CASE DecidesStop
  <2>1. frames # <<>> /\ Top.kind = "test" /\ frames' = Popped /\ verdict' = Verdict("told", Top.rules)
        /\ UNCHANGED <<now, work, pairs, levelCharge, depth, rules, callback, quiet, reading, missed, promise>>
    BY <1>17 DEF DecidesStop, Is
  <2> QED
    BY <1>5, <2>1, DecidedKeeps DEF Verdict
<1>18. CASE DecidesContinue
  <2>1. frames # <<>> /\ Top.kind = "test" /\ frames' = Popped /\ Answer(Top.rules, Falls(Top.rules, work, pairs, Top.at))
        /\ UNCHANGED <<now, work, pairs, levelCharge, depth, rules, callback, quiet, reading, missed, promise>>
    BY <1>18 DEF DecidesContinue, Is
  <2> QED
    BY <1>5, <2>1, DecidedKeeps DEF Answer, Verdict, FrameType
<1>19. ASSUME NEW next \in Rules, DecidesReplace(next) PROVE IInv'
  <2>1. frames # <<>> /\ Top.kind = "test"
    BY <1>19 DEF DecidesReplace, Is
  <2> QED
    BY <1>5, <1>19, <2>1, ReplacedKeeps
<1>20. ASSUME NEW w \in Amounts, NEW p \in Amounts, Promise(w, p) PROVE IInv'
  <2>1. Add(work, w) \in Meter /\ Add(pairs, p) \in Meter
    BY <1>1, <1>2, AddType
  <2>2. promise' = [given |-> TRUE, work |-> Add(work, w), pairs |-> Add(pairs, p)]
        /\ UNCHANGED <<now, work, pairs, levelCharge, depth, rules, callback, quiet, reading, frames, verdict, missed>>
    BY <1>20 DEF Promise
  <2>3. promise' \in [given : BOOLEAN, work : Meter, pairs : Meter] /\ Promised'
    BY <1>20, <2>1, <2>2 DEF Promise, CannotStopWithin, Promised
  <2>4. TypeOK'
    BY <2>2, <2>3 DEF IInv, TypeOK
  <2> QED
    BY <2>2, <2>3, <2>4 DEF IInv, QuietIsOfRules, Good, ReadingPast, NeverEarly, Misses, LevelChargeIsCounted
<1>21. CASE Tick
  BY <1>1, <1>2, <1>21, QuietStepKeeps DEF Tick
<1>22. CASE UNCHANGED vars
  BY <1>1, <1>2, <1>22, QuietStepKeeps DEF vars
<1> QED
  BY <1>6, <1>7, <1>8, <1>9, <1>10, <1>11, <1>12, <1>13, <1>14, <1>15, <1>16, <1>17, <1>18, <1>19, <1>20, <1>21, <1>22
  DEF Next
------------------------------------------------------------------------------
(* The theorems. *)

\* Everything an engine's limits reach satisfies the invariant.
THEOREM Invariant == Spec => []IInv
<1>1. QED
  BY InitIInv, StepIInv, PTL DEF Spec

\* Meters saturate within their width, open operations are counted and
\* OperationScope's drop never takes the depth below zero.
THEOREM Types == Spec => []TypeOK
<1>1. IInv => TypeOK
  BY DEF IInv
<1> QED
  BY <1>1, Invariant, PTL

\* should_stop's early answer never hides a stop: the bounds cached with the
\* configuration stay those of the rules and the callback in force.
THEOREM QuietTestsAreSound == Spec => []QuietIsSound
<1>1. IInv => QuietIsSound
  BY QuietSound DEF IInv, TypeOK, QuietIsOfRules, QuietIsSound
<1> QED
  BY <1>1, Invariant, PTL

\* A reading that stands in for the clock stops nothing the clock would not.
THEOREM StopsAreNeverEarly == Spec => []NeverEarly
<1>1. IInv => NeverEarly
  BY DEF IInv
<1> QED
  BY <1>1, Invariant, PTL

\* Fewer than CLOCK_POLLS tests and less than CLOCK_POLL_WORK units let a due
\* stop pass.
THEOREM StopsAreBoundedlyLate == Spec => []LateBounded
<1>1. ASSUME IInv PROVE LateBounded
  <2>1. /\ missed.tests \in Nat /\ missed.from \in Nat /\ missed.to \in Nat /\ reading.work \in Nat
        /\ reading.left \in Nat /\ Misses
    BY <1>1, UnboundedAssumption DEF IInv, TypeOK, Reading, Meter
  <2> QED
    BY <2>1, ClockAssumption DEF LateBounded, Misses
<1> QED
  BY <1>1, Invariant, PTL

\* What cannot_stop_within promised holds until another configuration is put
\* in force or the meters pass what it was asked about.
THEOREM PromisesHold == Spec => []PromiseHolds
<1>1. ASSUME IInv PROVE PromiseHolds
  <2> SUFFICES ASSUME promise.given, work <= promise.work, pairs <= promise.pairs
               PROVE  ~callback /\ ~Falls(rules, work, pairs, now)
    BY DEF PromiseHolds
  <2>1. /\ rules \in Rules /\ work \in Nat /\ pairs \in Nat /\ promise.work \in Nat /\ promise.pairs \in Nat
    BY <1>1, UnboundedAssumption DEF IInv, TypeOK, Meter
  <2>2. \A s \in StopAt : Before(s, promise.work) => ~Reached(s, work, now)
    BY <2>1 DEF Before, Reached, StopAt
  <2> QED
    BY <1>1, <2>1, <2>2, RulesType DEF IInv, Promised, Falls
<1> QED
  BY <1>1, Invariant, PTL

\* Settling a level takes back only what that level was charged.
THEOREM LevelChargesAreCounted == Spec => []LevelChargeIsCounted
<1>1. IInv => LevelChargeIsCounted
  BY DEF IInv
<1> QED
  BY <1>1, Invariant, PTL
==============================================================================
