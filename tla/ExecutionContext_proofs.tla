------------------------ MODULE ExecutionContext_proofs ------------------------
(***************************************************************************)
(* Checkouts are exclusive and parked engines pristine for any number of   *)
(* threads, engines and nested calls.                                      *)
(***************************************************************************)
EXTENDS ExecutionContext, SequenceTheorems, TLAPS

\* The mutex is held exactly by a thread at a locked step, and every call under
\* another one waits in user code.
Nesting ==
  \A t \in Thread : /\ lock = t <=> At(t, Locked)
                    /\ \A i \in 1 .. Depth(t) : i # Depth(t) => frames[t][i].at \in UserStep

\* Which steps hold an engine.
Holding ==
  \A t \in Thread : \A i \in 1 .. Depth(t) :
    /\ frames[t][i].at \in UserStep \cup {"park", "swap"} => frames[t][i].engine # NoEngine
    /\ frames[t][i].at \in {"acquire", "take", "clear", "empty"} => frames[t][i].engine = NoEngine

Clean(e) == e \notin armed \cup bound \cup spoiled

\* Limits, context and spoiled scratch are only on engines in user code's
\* hands, and spoiled ones are about to be dropped.
Tidy ==
  /\ Clean(idle)
  /\ \A t \in Thread : \A i \in 1 .. Depth(t) :
       /\ frames[t][i].at \notin UserStep => Clean(frames[t][i].engine)
       /\ frames[t][i].at \in {"batch", "reset"} => frames[t][i].engine \notin spoiled
  /\ \A e \in Unused : Clean(e)

IInv == TypeOK /\ Nesting /\ Holding /\ EnginesAreExclusive /\ Tidy
------------------------------------------------------------------------------
\* A thread's calls are a stack of calls with a top.
LEMMA TopTyped ==
  ASSUME TypeOK, NEW t \in Thread
  PROVE  /\ frames[t] \in Seq(Call) /\ Depth(t) \in Nat
         /\ \A i \in 1 .. Depth(t) : frames[t][i] \in Call
         /\ frames[t] # <<>> => Depth(t) \in 1 .. Depth(t) /\ Top(t) \in Call
BY DEF TypeOK, Depth, Top

\* Pushing a call.
LEMMA EnterFacts ==
  ASSUME TypeOK, NEW t \in Thread, NEW step \in Steps, Enter(t, step)
  PROVE  /\ frames' \in [Thread -> Seq(Call)]
         /\ \A u \in Thread : Depth(u)' = IF u = t THEN Depth(u) + 1 ELSE Depth(u)
         /\ \A u \in Thread : \A i \in 1 .. Depth(u) : frames'[u][i] = frames[u][i]
         /\ frames'[t][Depth(t) + 1] = [at |-> step, engine |-> NoEngine, began |-> panicking[t]]
         /\ frames'[t] # <<>>
<1> DEFINE new == [at |-> step, engine |-> NoEngine, began |-> panicking[t]]
<1>1. new \in Call
  BY DEF Call, TypeOK
<1>2. frames' = [frames EXCEPT ![t] = Append(frames[t], new)] /\ frames \in [Thread -> Seq(Call)]
  BY DEF Enter, TypeOK
<1> HIDE DEF new
<1>3. \A u \in Thread : frames'[u] = IF u = t THEN Append(frames[t], new) ELSE frames[u]
  BY <1>2
<1>4. frames[t] \in Seq(Call) /\ Append(frames[t], new) \in Seq(Call)
  BY <1>1, <1>2
<1>5. frames' \in [Thread -> Seq(Call)]
  BY <1>2, <1>4
<1>6. /\ Len(Append(frames[t], new)) = Len(frames[t]) + 1
      /\ \A i \in 1 .. Len(frames[t]) : Append(frames[t], new)[i] = frames[t][i]
      /\ Append(frames[t], new)[Len(frames[t]) + 1] = new
  BY <1>4, <1>1
<1>7. frames'[t] # <<>>
  <2>1. frames'[t] = Append(frames[t], new)
    BY <1>3
  <2>2. Len(frames[t]) \in Nat
    BY <1>4
  <2>3. Len(Append(frames[t], new)) # 0
    BY <1>6, <2>2
  <2> QED  BY <2>1, <2>3
<1> QED  BY <1>3, <1>5, <1>6, <1>7 DEF Depth, new

\* Moving the top call on.
LEMMA GoFacts ==
  ASSUME TypeOK, NEW t \in Thread, frames[t] # <<>>,
         NEW step \in Steps, NEW e \in Engine \cup {NoEngine}, Go(t, step, e)
  PROVE  /\ frames' \in [Thread -> Seq(Call)]
         /\ \A u \in Thread : Depth(u)' = Depth(u) /\ (frames'[u] = <<>> <=> frames[u] = <<>>)
         /\ \A u \in Thread : \A i \in 1 .. Depth(u) :
              frames'[u][i] = IF u = t /\ i = Depth(t)
                              THEN [at |-> step, engine |-> e, began |-> Top(t).began]
                              ELSE frames[u][i]
<1> DEFINE new == [at |-> step, engine |-> e, began |-> Top(t).began]
           d   == Depth(t)
<1>1. new \in Call /\ d \in 1 .. Len(frames[t]) /\ frames[t] \in Seq(Call)
  BY TopTyped DEF Call, Depth
<1>2. frames' = [frames EXCEPT ![t] = [frames[t] EXCEPT ![d] = new]] /\ frames \in [Thread -> Seq(Call)]
  BY DEF Go, TypeOK
<1> HIDE DEF new, d
<1>3. [frames[t] EXCEPT ![d] = new] \in Seq(Call)
  BY <1>1
<1>4. /\ Len([frames[t] EXCEPT ![d] = new]) = Len(frames[t])
      /\ \A i \in 1 .. Len(frames[t]) : [frames[t] EXCEPT ![d] = new][i] = IF i = d THEN new ELSE frames[t][i]
  BY <1>1
<1>5. \A u \in Thread : frames'[u] = IF u = t THEN [frames[t] EXCEPT ![d] = new] ELSE frames[u]
  BY <1>2
<1>6. frames' \in [Thread -> Seq(Call)]
  BY <1>2, <1>3
<1>7. frames'[t] # <<>>
  BY <1>1, <1>3, <1>4, <1>5
<1> QED  BY <1>4, <1>5, <1>6, <1>7 DEF Depth, new, d

\* Popping it.
LEMMA LeaveFacts ==
  ASSUME TypeOK, NEW t \in Thread, frames[t] # <<>>, Leave(t)
  PROVE  /\ frames' \in [Thread -> Seq(Call)]
         /\ \A u \in Thread : Depth(u)' = IF u = t THEN Depth(u) - 1 ELSE Depth(u)
         /\ \A u \in Thread : \A i \in 1 .. Depth(u)' : i \in 1 .. Depth(u) /\ frames'[u][i] = frames[u][i]
         /\ frames'[t] # <<>> => Depth(t) - 1 \in 1 .. Depth(t) /\ Depth(t) - 1 # Depth(t)
<1> DEFINE d    == Depth(t)
           rest == SubSeq(frames[t], 1, d - 1)
<1>1. frames[t] \in Seq(Call) /\ d \in Nat /\ d >= 1 /\ d = Len(frames[t])
  BY TopTyped DEF Depth
<1>2. frames' = [frames EXCEPT ![t] = rest] /\ frames \in [Thread -> Seq(Call)]
  BY DEF Leave, TypeOK
<1> HIDE DEF d
<1>3. rest \in Seq(Call) /\ Len(rest) = d - 1 /\ \A i \in 1 .. d - 1 : rest[i] = frames[t][i]
  BY <1>1
<1> HIDE DEF rest
<1>4. \A u \in Thread : frames'[u] = IF u = t THEN rest ELSE frames[u]
  BY <1>2
<1>5. frames' \in [Thread -> Seq(Call)]
  BY <1>2, <1>3
<1>6. \A u \in Thread : Len(frames[u]) \in Nat
  BY <1>2
<1>7. rest # <<>> => d - 1 >= 1
  BY <1>1, <1>3
<1>8. \A u \in Thread : Len(frames'[u]) = IF u = t THEN Len(frames[u]) - 1 ELSE Len(frames[u])
  BY <1>1, <1>3, <1>4
<1>9. \A u \in Thread : \A i \in 1 .. Len(frames'[u]) :
        i \in 1 .. Len(frames[u]) /\ frames'[u][i] = frames[u][i]
  <2>1. ASSUME NEW u \in Thread, NEW i \in 1 .. Len(frames'[u]), u = t
        PROVE  i \in 1 .. Len(frames[u]) /\ frames'[u][i] = frames[u][i]
    <3>1. frames'[u] = rest /\ i \in 1 .. d - 1
      BY <1>3, <1>4, <2>1
    <3> QED  BY <1>1, <1>3, <2>1, <3>1
  <2>2. ASSUME NEW u \in Thread, NEW i \in 1 .. Len(frames'[u]), u # t
        PROVE  i \in 1 .. Len(frames[u]) /\ frames'[u][i] = frames[u][i]
    BY <1>4, <2>2
  <2> QED  BY <2>1, <2>2
<1>10. frames'[t] # <<>> => d - 1 \in 1 .. d /\ d - 1 # d
  BY <1>1, <1>4, <1>7
<1> QED  BY <1>5, <1>8, <1>9, <1>10 DEF Depth, d
------------------------------------------------------------------------------
LEMMA IInvInit == Init => IInv
<1> SUFFICES ASSUME Init PROVE IInv
  OBVIOUS
<1>1. /\ lock = NoThread /\ idle = NoEngine /\ armed = {} /\ bound = {} /\ spoiled = {}
      /\ frames = [t \in Thread |-> <<>>] /\ panicking \in [Thread -> BOOLEAN]
  BY DEF Init
<1>2. TypeOK
  BY <1>1 DEF TypeOK
<1>3. \A t \in Thread : Depth(t) = 0 /\ frames[t] = <<>>
  BY <1>1 DEF Depth
<1>4. Nesting /\ Holding /\ EnginesAreExclusive /\ Tidy
  BY <1>1, <1>3, NoneAssumption DEF Nesting, Holding, EnginesAreExclusive, Tidy, Clean, At
<1> QED  BY <1>2, <1>4 DEF IInv

\* A new call holds no engine and waits.
LEMMA EnterStep ==
  ASSUME IInv, NEW t \in Thread, NEW step \in {"acquire", "clear"}, UserCode(t), Enter(t, step),
         UNCHANGED <<lock, idle, armed, bound, panicking, spoiled>>
  PROVE  IInv'
<1> DEFINE new == [at |-> step, engine |-> NoEngine, began |-> panicking[t]]
<1>1. /\ frames' \in [Thread -> Seq(Call)]
      /\ \A u \in Thread : Depth(u)' = IF u = t THEN Depth(u) + 1 ELSE Depth(u)
      /\ \A u \in Thread : \A i \in 1 .. Depth(u) : frames'[u][i] = frames[u][i]
      /\ frames'[t][Depth(t) + 1] = new /\ frames'[t] # <<>>
  BY EnterFacts DEF IInv, Steps, Waiting
<1>2. TypeOK'
  BY <1>1 DEF IInv, TypeOK
<1>3. \A u \in Thread : Depth(u) \in Nat
  BY TopTyped DEF IInv
<1>4. \A u \in Thread : \A i \in 1 .. Depth(u)' :
         \/ i \in 1 .. Depth(u) /\ frames'[u][i] = frames[u][i]
         \/ u = t /\ i = Depth(t) + 1 /\ frames'[u][i] = new
  BY <1>1, <1>3
<1>5. new.engine = NoEngine /\ new.at \in {"acquire", "clear"}
  OBVIOUS
<1> HIDE DEF new
<1>6. Nesting'
  <2>1. ASSUME NEW u \in Thread PROVE (lock = u <=> At(u, Locked)')
    <3>1. CASE u # t
      <4>1. frames'[u] = frames[u]
        BY <3>1 DEF Enter, IInv, TypeOK
      <4> QED  BY <4>1 DEF IInv, Nesting, At, Top, Depth
    <3>2. CASE u = t
      <4>1. ~At(t, Locked)
        BY DEF UserCode, At, Locked
      <4>2. Top(t)' = new
        BY <1>1 DEF Top
      <4> QED  BY <1>5, <3>2, <4>1, <4>2 DEF IInv, Nesting, At, Locked
    <3> QED  BY <3>1, <3>2
  <2>2. ASSUME NEW u \in Thread, NEW i \in 1 .. Depth(u)', i # Depth(u)' PROVE frames'[u][i].at \in UserStep
    <3>1. i \in 1 .. Depth(u) /\ frames'[u][i] = frames[u][i]
      BY <1>1, <1>4, <2>2
    <3>2. CASE i # Depth(u)
      BY <3>1, <3>2 DEF IInv, Nesting
    <3>3. CASE i = Depth(u)
      <4>1. u = t /\ frames[t] # <<>>
        <5>1. u = t
          BY <1>1, <2>2, <3>3
        <5>2. frames[t] # <<>>
          BY <1>3, <3>1, <5>1 DEF Depth
        <5> QED  BY <5>1, <5>2
      <4>2. Top(t).at \in UserStep
        BY <4>1 DEF UserCode, At, UserStep
      <4> QED  BY <3>1, <3>3, <4>1, <4>2 DEF Top
    <3> QED  BY <3>2, <3>3
  <2> QED  BY <2>1, <2>2 DEF Nesting
<1>7. Holding'
  BY <1>4, <1>5 DEF IInv, Holding, UserStep
<1>8. Held' = Held
  <2>1. \A e \in Engine : e # NoEngine
    BY NoneAssumption
  <2>2. \A u \in Thread : \A i \in 1 .. Depth(u) : i \in 1 .. Depth(u)'
    BY <1>1, <1>3
  <2>3. ASSUME NEW e \in Engine, NEW u \in Thread, NEW i \in 1 .. Depth(u)', frames'[u][i].engine = e
        PROVE  i \in 1 .. Depth(u) /\ frames[u][i].engine = e
    BY <1>4, <1>5, <2>1, <2>3
  <2>4. ASSUME NEW e \in Engine, NEW u \in Thread, NEW i \in 1 .. Depth(u), frames[u][i].engine = e
        PROVE  i \in 1 .. Depth(u)' /\ frames'[u][i].engine = e
    BY <1>1, <2>2, <2>4
  <2>5. \A e \in Engine : (\E u \in Thread : \E i \in 1 .. Depth(u)' : frames'[u][i].engine = e)
                       <=> (\E u \in Thread : \E i \in 1 .. Depth(u) : frames[u][i].engine = e)
    BY <2>3, <2>4
  <2> QED  BY <2>5 DEF Held
<1>9. EnginesAreExclusive'
  BY <1>4, <1>5, <1>8 DEF IInv, EnginesAreExclusive
<1>10. Tidy'
  <2>1. Clean(NoEngine)
    BY NoneAssumption DEF Clean, IInv, TypeOK
  <2> QED  BY <1>4, <1>5, <1>8, <2>1 DEF IInv, Tidy, Clean, Unused, UserStep
<1> QED  BY <1>2, <1>6, <1>7, <1>9, <1>10 DEF IInv

\* The step of a thread's top call to another that leaves the mutex alone, with
\* the same engine: what has to be shown of the step.
LEMMA GoStep ==
  ASSUME IInv, NEW t \in Thread, NEW step \in Steps, NEW e \in Engine \cup {NoEngine},
         frames[t] # <<>>, Go(t, step, e),
         idle' \in Engine \cup {NoEngine}, lock' \in Thread \cup {NoThread},
         armed' \subseteq Engine, bound' \subseteq Engine, spoiled' \subseteq Engine,
         panicking' = panicking,
         \A u \in Thread : lock' = u <=> (IF u = t THEN step \in Locked ELSE lock = u),
         step \in UserStep \cup {"park", "swap"} => e # NoEngine,
         step \in {"acquire", "take", "clear", "empty"} => e = NoEngine,
         {e, idle'} \subseteq Unused \cup {NoEngine, Top(t).engine, idle},
         e # NoEngine => e # idle',
         \A x \in Engine \ {e} : Clean(x) => Clean(x)',
         \A x \in {Top(t).engine, idle} \ {e, idle'} : x \notin armed' \cup bound' \cup spoiled',
         Clean(idle)',
         step \notin UserStep => Clean(e)',
         step \in {"batch", "reset"} => e \notin spoiled',
         \A x \in Engine \ {e} : x \notin spoiled => x \notin spoiled'
  PROVE  IInv'
<1> DEFINE d   == Depth(t)
           new == [at |-> step, engine |-> e, began |-> Top(t).began]
           old == Top(t).engine
<1>1. /\ frames' \in [Thread -> Seq(Call)]
      /\ \A u \in Thread : Depth(u)' = Depth(u) /\ (frames'[u] = <<>> <=> frames[u] = <<>>)
      /\ \A u \in Thread : \A i \in 1 .. Depth(u) :
           frames'[u][i] = IF u = t /\ i = d THEN new ELSE frames[u][i]
  BY GoFacts DEF IInv
<1>2. TypeOK'
  BY <1>1 DEF IInv, TypeOK
<1>3. /\ d \in 1 .. d /\ frames[t][d] = Top(t) /\ Top(t) \in Call
      /\ \A u \in Thread : frames[u] # <<>> => Depth(u) \in 1 .. Depth(u)
      /\ \A u \in Thread : \A i \in 1 .. Depth(u) : frames[u][i] \in Call
  BY TopTyped DEF IInv, Top
<1>4. new.engine = e /\ new.at = step
  OBVIOUS
<1>5. Nesting'
  <2>1. ASSUME NEW u \in Thread PROVE lock' = u <=> At(u, Locked)'
    <3>1. Top(u)' = frames'[u][Depth(u)]
      BY <1>1 DEF Top
    <3>2. CASE u = t
      BY <1>1, <1>3, <1>4, <3>1, <3>2 DEF At
    <3>3. CASE u # t /\ frames[u] # <<>>
      <4>1. Top(u)' = Top(u)
        BY <1>1, <1>3, <3>1, <3>3 DEF Top
      <4> QED  BY <1>1, <3>3, <4>1 DEF At, IInv, Nesting
    <3>4. CASE u # t /\ frames[u] = <<>>
      BY <1>1, <3>4 DEF At, IInv, Nesting
    <3> QED  BY <3>2, <3>3, <3>4
  <2>2. ASSUME NEW u \in Thread, NEW i \in 1 .. Depth(u)', i # Depth(u)' PROVE frames'[u][i].at \in UserStep
    BY <1>1, <2>2 DEF IInv, Nesting
  <2> QED  BY <2>1, <2>2 DEF Nesting
<1> HIDE DEF new
<1>6. \A u \in Thread : \A i \in 1 .. Depth(u)' :
         \/ u = t /\ i = d /\ frames'[u][i] = new
         \/ (u # t \/ i # d) /\ i \in 1 .. Depth(u) /\ frames'[u][i] = frames[u][i]
  BY <1>1
<1>7. Holding'
  BY <1>4, <1>6 DEF IInv, Holding
\* Only the top call's engine, the idle one and unused ones move.
<1>8. ASSUME NEW u \in Thread, NEW i \in 1 .. Depth(u), u # t \/ i # d, frames[u][i].engine # NoEngine
      PROVE  frames[u][i].engine \in Engine /\ frames[u][i].engine \notin {old, idle, e, idle'}
  <2> DEFINE x == frames[u][i].engine
  <2>1. x \in Engine /\ x \in Held
    BY <1>3, <1>8 DEF Call, Held
  <2>2. x # idle /\ x \notin Unused
    BY <1>8, <2>1 DEF IInv, EnginesAreExclusive, Unused
  <2>3. x # old
    <3>1. SUFFICES ASSUME frames[u][i].engine = frames[t][d].engine PROVE FALSE
      BY <1>3
    <3>2. d \in 1 .. Depth(t)
      BY <1>3
    <3> HIDE DEF d, x
    <3> QED  BY <1>8, <3>1, <3>2 DEF IInv, EnginesAreExclusive
  <2> QED  BY <1>8, <2>1, <2>2, <2>3
<1>9. ASSUME NEW x \in Held' PROVE x = e \/ (x \in Held /\ \E u \in Thread : \E i \in 1 .. Depth(u) :
                                               (u # t \/ i # d) /\ frames[u][i].engine = x)
  BY <1>4, <1>6, <1>9 DEF Held
<1>10. EnginesAreExclusive'
  <2>1. ASSUME idle' # NoEngine, idle' \in Held' PROVE FALSE
    BY <1>8, <1>9, <2>1
  <2>2. ASSUME NEW u \in Thread, NEW v \in Thread, NEW i \in 1 .. Depth(u)', NEW j \in 1 .. Depth(v)',
               frames'[u][i].engine = frames'[v][j].engine, frames'[u][i].engine # NoEngine
        PROVE  u = v /\ i = j
    <3>1. CASE u = t /\ i = d
      BY <1>4, <1>6, <1>8, <2>2, <3>1
    <3>2. CASE v = t /\ j = d
      BY <1>4, <1>6, <1>8, <2>2, <3>2
    <3>3. CASE (u # t \/ i # d) /\ (v # t \/ j # d)
      BY <1>6, <2>2, <3>3 DEF IInv, EnginesAreExclusive
    <3> QED  BY <3>1, <3>2, <3>3
  <2> QED  BY <2>1, <2>2 DEF EnginesAreExclusive
<1>11. Clean(NoEngine) /\ Clean(NoEngine)'
  BY NoneAssumption DEF Clean, IInv, TypeOK
<1>12. ASSUME NEW x \in Unused' PROVE Clean(x)'
  <2>1. x \in Engine /\ x \notin Held' /\ x # idle'
    BY <1>12 DEF Unused
  <2>2. x # e
    <3>1. e \in Engine => e \in Held'
      BY <1>1, <1>3, <1>4 DEF Held
    <3> QED  BY <2>1, <3>1
  <2>3. CASE x = old \/ x = idle
    BY <2>1, <2>2, <2>3 DEF Clean
  <2>4. CASE x # old /\ x # idle
    <3>1. x \notin Held
      <4>1. ASSUME NEW u \in Thread, NEW i \in 1 .. Depth(u), frames[u][i].engine = x PROVE FALSE
        <5>1. u # t \/ i # d
          BY <1>3, <2>4, <4>1
        <5>2. frames'[u][i] = frames[u][i] /\ i \in 1 .. Depth(u)'
          BY <1>1, <5>1
        <5> QED  BY <2>1, <4>1, <5>2 DEF Held
      <4> QED  BY <4>1 DEF Held
    <3>2. Clean(x)
      BY <2>1, <2>4, <3>1 DEF IInv, Tidy, Unused
    <3> QED  BY <2>1, <2>2, <3>2
  <2> QED  BY <2>3, <2>4
<1>13. ASSUME NEW u \in Thread, NEW i \in 1 .. Depth(u)'
       PROVE  /\ frames'[u][i].at \notin UserStep => frames'[u][i].engine \notin armed' \cup bound' \cup spoiled'
              /\ frames'[u][i].at \in {"batch", "reset"} => frames'[u][i].engine \notin spoiled'
  <2>1. CASE u = t /\ i = d
    BY <1>4, <1>6, <2>1 DEF Clean
  <2>2. CASE (u # t \/ i # d) /\ frames[u][i].engine = NoEngine
    <3>1. NoEngine \notin spoiled'
      BY <1>11 DEF Clean
    <3>2. frames'[u][i] = frames[u][i]
      BY <1>6, <2>2
    <3> QED  BY <1>11, <2>2, <3>1, <3>2 DEF Clean
  <2>3. CASE (u # t \/ i # d) /\ frames[u][i].engine # NoEngine
    <3>1. frames'[u][i] = frames[u][i] /\ i \in 1 .. Depth(u)
      BY <1>6, <2>3
    <3>2. frames[u][i].engine \in Engine \ {e}
      BY <1>8, <2>3, <3>1
    <3>3. \A x \in Engine \ {e} : x \notin armed \cup bound \cup spoiled => x \notin armed' \cup bound' \cup spoiled'
      BY DEF Clean
    <3>4. /\ frames[u][i].at \notin UserStep => frames[u][i].engine \notin armed \cup bound \cup spoiled
          /\ frames[u][i].at \in {"batch", "reset"} => frames[u][i].engine \notin spoiled
      BY <3>1 DEF IInv, Tidy, Clean
    <3> QED  BY <3>1, <3>2, <3>3, <3>4
  <2> QED  BY <2>1, <2>2, <2>3
<1>14. Tidy'
  BY <1>12, <1>13 DEF Tidy, Clean
<1> QED  BY <1>2, <1>5, <1>7, <1>10, <1>14 DEF IInv

\* The end of a call: its engine goes down, and the caller's code goes on.
LEMMA LeaveStep ==
  ASSUME IInv, NEW t \in Thread, frames[t] # <<>>, Top(t).at \notin Locked,
         Leave(t), Freed(Top(t).engine),
         UNCHANGED <<lock, idle>>, panicking' \in [Thread -> BOOLEAN]
  PROVE  IInv'
<1> DEFINE old == Top(t).engine
<1>1. /\ frames' \in [Thread -> Seq(Call)]
      /\ \A u \in Thread : Depth(u)' = IF u = t THEN Depth(u) - 1 ELSE Depth(u)
      /\ \A u \in Thread : \A i \in 1 .. Depth(u)' : i \in 1 .. Depth(u) /\ frames'[u][i] = frames[u][i]
      /\ frames'[t] # <<>> => Depth(t) - 1 \in 1 .. Depth(t) /\ Depth(t) - 1 # Depth(t)
  BY LeaveFacts DEF IInv
<1>2. armed' = armed \ {old} /\ bound' = bound \ {old} /\ spoiled' = spoiled \ {old}
  BY DEF Freed
<1>3. TypeOK'
  BY <1>1, <1>2 DEF IInv, TypeOK
<1>4. /\ \A u \in Thread : Depth(u) \in Nat
      /\ Depth(t) \in 1 .. Depth(t) /\ frames[t][Depth(t)] = Top(t)
      /\ \A u \in Thread : \A i \in 1 .. Depth(u) : frames[u][i] \in Call
  BY TopTyped DEF IInv, Top
<1>5. Nesting'
  <2>1. ASSUME NEW u \in Thread PROVE lock' = u <=> At(u, Locked)'
    <3>1. CASE u # t
      <4>1. frames'[u] = frames[u]
        BY <3>1 DEF Leave, IInv, TypeOK
      <4> QED  BY <4>1 DEF IInv, Nesting, At, Top, Depth
    <3>2. CASE u = t
      <4>1. lock # t
        BY DEF IInv, Nesting, At
      <4>2. ASSUME frames'[t] # <<>> PROVE Top(t)'.at \in UserStep
        <5>1. Depth(t)' = Depth(t) - 1 /\ Depth(t)' \in 1 .. Depth(t) /\ Depth(t)' # Depth(t)
          BY <1>1, <4>2
        <5>2. Depth(t)' \in 1 .. Depth(t)'
          BY <1>4, <5>1
        <5>3. frames'[t][Depth(t)'] = frames[t][Depth(t)']
          BY <1>1, <5>2
        <5>4. frames[t][Depth(t)'].at \in UserStep
          BY <5>1 DEF IInv, Nesting
        <5> QED  BY <5>3, <5>4 DEF Top
      <4> QED  BY <3>2, <4>1, <4>2 DEF At, Locked, UserStep
    <3> QED  BY <3>1, <3>2
  <2>2. ASSUME NEW u \in Thread, NEW i \in 1 .. Depth(u)', i # Depth(u)' PROVE frames'[u][i].at \in UserStep
    <3>1. i \in 1 .. Depth(u) /\ i # Depth(u) /\ frames'[u][i] = frames[u][i]
      BY <1>1, <1>4, <2>2
    <3> QED  BY <3>1 DEF IInv, Nesting
  <2> QED  BY <2>1, <2>2 DEF Nesting
<1>6. Holding'
  BY <1>1 DEF IInv, Holding
<1>7. Held' \subseteq Held
  BY <1>1 DEF Held
<1>8. EnginesAreExclusive'
  <2>1. idle' # NoEngine => idle' \notin Held'
    BY <1>7 DEF IInv, EnginesAreExclusive
  <2>2. ASSUME NEW u \in Thread, NEW v \in Thread, NEW i \in 1 .. Depth(u)', NEW j \in 1 .. Depth(v)',
               frames'[u][i].engine = frames'[v][j].engine, frames'[u][i].engine # NoEngine
        PROVE  u = v /\ i = j
    <3>1. /\ i \in 1 .. Depth(u) /\ frames'[u][i] = frames[u][i]
          /\ j \in 1 .. Depth(v) /\ frames'[v][j] = frames[v][j]
      BY <1>1
    <3> QED  BY <2>2, <3>1 DEF IInv, EnginesAreExclusive
  <2> QED  BY <2>1, <2>2 DEF EnginesAreExclusive
<1>9. ASSUME NEW x \in Unused' PROVE Clean(x)'
  <2>1. x \in Engine /\ x \notin Held' /\ x # idle
    BY <1>9 DEF Unused
  <2>2. CASE x = old
    BY <1>2, <2>2 DEF Clean
  <2>3. CASE x # old
    <3>1. x \notin Held
      <4>1. ASSUME NEW u \in Thread, NEW i \in 1 .. Depth(u), frames[u][i].engine = x PROVE FALSE
        <5>1. u # t \/ i # Depth(t)
          BY <1>4, <2>3, <4>1
        <5>2. i \in 1 .. Depth(u)'
          BY <1>1, <1>4, <5>1
        <5> QED  BY <1>1, <2>1, <4>1, <5>2 DEF Held
      <4> QED  BY <4>1 DEF Held
    <3> QED  BY <1>2, <2>1, <3>1 DEF IInv, Tidy, Unused, Clean
  <2> QED  BY <2>2, <2>3
<1>10. Tidy'
  <2>1. /\ idle' \notin armed' \cup bound' \cup spoiled'
        /\ \A u \in Thread : \A i \in 1 .. Depth(u)' :
             /\ frames'[u][i].at \notin UserStep => frames'[u][i].engine \notin armed' \cup bound' \cup spoiled'
             /\ frames'[u][i].at \in {"batch", "reset"} => frames'[u][i].engine \notin spoiled'
    BY <1>1, <1>2 DEF IInv, Tidy, Clean
  <2> QED  BY <1>9, <2>1 DEF Tidy, Clean
<1> QED  BY <1>3, <1>5, <1>6, <1>8, <1>10 DEF IInv
------------------------------------------------------------------------------
\* What the invariant says of a thread's top call.
LEMMA TopFacts ==
  ASSUME IInv, NEW t \in Thread, frames[t] # <<>>
  PROVE  /\ Top(t) \in Call
         /\ lock = t <=> Top(t).at \in Locked
         /\ Top(t).at \in UserStep \cup {"park", "swap"} => Top(t).engine # NoEngine
         /\ Top(t).at \in {"acquire", "take", "clear", "empty"} => Top(t).engine = NoEngine
         /\ Top(t).at \notin UserStep => Clean(Top(t).engine)
         /\ Top(t).at \in {"batch", "reset"} => Top(t).engine \notin spoiled
         /\ Top(t).engine # NoEngine => Top(t).engine \in Held /\ Top(t).engine # idle
         /\ Clean(idle) /\ idle \in Engine \cup {NoEngine}
<1>1. Depth(t) \in 1 .. Depth(t) /\ Top(t) \in Call /\ Top(t) = frames[t][Depth(t)]
  BY TopTyped DEF IInv, Top
<1>2. Top(t).engine # NoEngine => Top(t).engine \in Held
  BY <1>1 DEF Held, Call
<1>3. Top(t).engine # NoEngine => Top(t).engine # idle
  BY <1>2 DEF IInv, EnginesAreExclusive
<1>4. /\ Top(t).at \in UserStep \cup {"park", "swap"} => Top(t).engine # NoEngine
      /\ Top(t).at \in {"acquire", "take", "clear", "empty"} => Top(t).engine = NoEngine
  BY <1>1 DEF IInv, Holding
<1>5. /\ Clean(idle)
      /\ Top(t).at \notin UserStep => Clean(Top(t).engine)
      /\ Top(t).at \in {"batch", "reset"} => Top(t).engine \notin spoiled
  BY <1>1 DEF IInv, Tidy
<1>6. lock = t <=> Top(t).at \in Locked
  BY DEF IInv, Nesting, At
<1> QED  BY <1>1, <1>2, <1>3, <1>4, <1>5, <1>6 DEF IInv, TypeOK

\* Only the batch's own engine gets limits, and no other call has it.
LEMMA ArmStep == ASSUME IInv, NEW t \in Thread, Arm(t) PROVE IInv'
<1> DEFINE e == Top(t).engine
<1>1. /\ frames[t] # <<>> /\ Top(t).at = "batch"
      /\ armed' = armed \cup {e} \/ armed' = armed \ {e}
      /\ UNCHANGED <<lock, idle, bound, frames, panicking, spoiled>>
  BY DEF Arm, At
<1>2. /\ Depth(t) \in 1 .. Depth(t) /\ frames[t][Depth(t)] = Top(t)
      /\ e # NoEngine /\ e \in Engine /\ e \in Held /\ e # idle
  BY <1>1, TopTyped, TopFacts DEF IInv, Top, UserStep, Call
<1>3. TypeOK'
  BY <1>1, <1>2 DEF IInv, TypeOK
<1>4. \A u \in Thread : Depth(u)' = Depth(u) /\ \A S : At(u, S)' <=> At(u, S)
  BY <1>1 DEF Depth, At, Top
<1>5. Held' = Held /\ Unused' = Unused
  BY <1>1 DEF Held, Unused, Depth
<1>6. Nesting' /\ Holding' /\ EnginesAreExclusive'
  BY <1>1, <1>4, <1>5 DEF IInv, Nesting, Holding, EnginesAreExclusive
<1>7. ASSUME NEW u \in Thread, NEW i \in 1 .. Depth(u), frames[u][i].at \notin UserStep
      PROVE  frames[u][i].engine # e
  <2>1. SUFFICES ASSUME frames[u][i].engine = frames[t][Depth(t)].engine PROVE FALSE
    BY <1>2
  <2>2. frames[u][i].engine # NoEngine
    BY <1>2, <2>1
  <2>3. u = t /\ i = Depth(t)
    BY <1>2, <2>1, <2>2 DEF IInv, EnginesAreExclusive
  <2> QED  BY <1>1, <1>2, <1>7, <2>3 DEF UserStep
<1> HIDE DEF e
<1>8. Tidy'
  <2>1. idle \notin armed' \cup bound \cup spoiled
    BY <1>1, <1>2 DEF IInv, Tidy, Clean
  <2>2. \A x \in Unused : x # e
    BY <1>2 DEF Unused
  <2>3. \A x \in Unused : x \notin armed' \cup bound \cup spoiled
    BY <1>1, <2>2 DEF IInv, Tidy, Clean
  <2>4. \A u \in Thread : \A i \in 1 .. Depth(u) :
          /\ frames[u][i].at \notin UserStep => frames[u][i].engine \notin armed' \cup bound \cup spoiled
          /\ frames[u][i].at \in {"batch", "reset"} => frames[u][i].engine \notin spoiled
    BY <1>1, <1>7 DEF IInv, Tidy, Clean
  <2> QED  BY <1>1, <1>4, <1>5, <2>1, <2>3, <2>4 DEF Tidy, Clean
<1> QED  BY <1>3, <1>6, <1>8 DEF IInv

\* Unwinding, and being caught, is not a step of a call.
LEMMA PanickingStep ==
  ASSUME IInv, panicking' \in [Thread -> BOOLEAN], UNCHANGED <<lock, idle, armed, bound, frames, spoiled>>
  PROVE  IInv'
<1>1. TypeOK'
  BY DEF IInv, TypeOK
<1>2. Held' = Held /\ \A u \in Thread : Depth(u)' = Depth(u) /\ (At(u, Locked)' <=> At(u, Locked))
  BY DEF Held, Depth, At, Top
<1>3. Nesting' /\ Holding' /\ EnginesAreExclusive'
  BY <1>2 DEF IInv, Nesting, Holding, EnginesAreExclusive
<1>4. Tidy'
  BY <1>2 DEF IInv, Tidy, Unused, Clean
<1> QED  BY <1>1, <1>3, <1>4 DEF IInv

\* An engine that was some call's is not unused, so it keeps what it is.
LEMMA LockStep == ASSUME IInv, NEW t \in Thread, Lock(t) PROVE IInv'
<1>1. PICK e \in Engine \cup {NoEngine}, step \in {"take", "empty", "swap"} :
        /\ e = Top(t).engine /\ Go(t, step, e)
        /\ step = CASE Top(t).at = "acquire" -> "take" [] Top(t).at = "clear" -> "empty" [] OTHER -> "swap"
        /\ frames[t] # <<>> /\ Top(t).at \in Waiting /\ lock = NoThread /\ lock' = t
        /\ UNCHANGED <<idle, armed, bound, panicking, spoiled>>
  <2>1. frames[t] # <<>> /\ Top(t).engine \in Engine \cup {NoEngine}
    BY TopFacts DEF Lock, At, Call
  <2> QED  BY <2>1 DEF Lock, At
<1>2. /\ (Top(t).at # "park" => e = NoEngine) /\ (Top(t).at = "park" => e # NoEngine)
      /\ e \notin armed \cup bound \cup spoiled /\ (e # NoEngine => e # idle)
      /\ idle \notin armed \cup bound \cup spoiled
  BY <1>1, TopFacts DEF Waiting, UserStep, Clean
<1>3. step = "swap" <=> Top(t).at = "park"
  BY <1>1 DEF Waiting
<1>4. step \in Steps /\ step \in Locked /\ step \notin UserStep
  BY DEF Steps, Locked, UserStep
<1>5. \A u \in Thread : lock' = u <=> (IF u = t THEN step \in Locked ELSE lock = u)
  BY <1>1, <1>4, NoneAssumption
<1>6. /\ {e, idle'} \subseteq Unused \cup {NoEngine, Top(t).engine, idle}
      /\ \A x \in {Top(t).engine, idle} \ {e, idle'} : x \notin armed' \cup bound' \cup spoiled'
      /\ \A x \in Engine \ {e} : (Clean(x) => Clean(x)') /\ (x \notin spoiled => x \notin spoiled')
      /\ Clean(idle)' /\ e \notin armed' \cup bound' \cup spoiled'
  BY <1>1, <1>2 DEF Clean
<1>7. /\ idle' \in Engine \cup {NoEngine} /\ lock' \in Thread \cup {NoThread}
      /\ armed' \subseteq Engine /\ bound' \subseteq Engine /\ spoiled' \subseteq Engine
  BY <1>1 DEF IInv, TypeOK
<1>8. /\ step \in UserStep \cup {"park", "swap"} => e # NoEngine
      /\ step \in {"acquire", "take", "clear", "empty"} => e = NoEngine
      /\ step \in {"batch", "reset"} => e \notin spoiled'
      /\ e # NoEngine => e # idle'
  BY <1>1, <1>2, <1>3, <1>4
<1> QED  BY <1>1, <1>4, <1>5, <1>6, <1>7, <1>8, GoStep DEF Clean

\* The parked engine becomes the call's.
LEMMA TakeStep == ASSUME IInv, NEW t \in Thread, Take(t) PROVE IInv'
<1> DEFINE step == IF Top(t).at = "take" THEN "bind" ELSE "drop"
<1>1. /\ frames[t] # <<>> /\ Top(t).at \in {"take", "empty"} /\ lock' = NoThread /\ idle' = NoEngine
      /\ Go(t, step, idle) /\ UNCHANGED <<armed, bound, panicking, spoiled>>
  BY DEF Take, At
<1>2. /\ lock = t /\ Top(t).engine = NoEngine
      /\ idle \in Engine \cup {NoEngine} /\ idle \notin armed \cup bound \cup spoiled
  BY <1>1, TopFacts DEF Locked, Clean
<1>3. NoEngine \notin armed \cup bound \cup spoiled
  BY NoneAssumption DEF IInv, TypeOK
<1>4. step \in {"bind", "drop"} /\ step \in Steps /\ step \notin Locked /\ step \notin UserStep
  BY DEF Steps, Locked, UserStep
<1> HIDE DEF step
<1>5. \A u \in Thread : lock' = u <=> (IF u = t THEN step \in Locked ELSE lock = u)
  BY <1>1, <1>2, <1>4, NoneAssumption
<1>6. /\ {idle, idle'} \subseteq Unused \cup {NoEngine, Top(t).engine, idle}
      /\ \A x \in {Top(t).engine, idle} \ {idle, idle'} : x \notin armed' \cup bound' \cup spoiled'
      /\ \A x \in Engine \ {idle} : (Clean(x) => Clean(x)') /\ (x \notin spoiled => x \notin spoiled')
      /\ Clean(idle)' /\ idle \notin armed' \cup bound' \cup spoiled'
  BY <1>1, <1>2, <1>3 DEF Clean
<1>7. /\ idle' \in Engine \cup {NoEngine} /\ lock' \in Thread \cup {NoThread}
      /\ armed' \subseteq Engine /\ bound' \subseteq Engine /\ spoiled' \subseteq Engine
  BY <1>1 DEF IInv, TypeOK
<1>8. PICK e \in Engine \cup {NoEngine} : e = idle
  BY <1>2
<1>9. /\ step \in UserStep \cup {"park", "swap"} => e # NoEngine
      /\ step \in {"acquire", "take", "clear", "empty"} => e = NoEngine
      /\ step \in {"batch", "reset"} => e \notin spoiled'
      /\ e # NoEngine => e # idle'
  BY <1>1, <1>4
<1>10. /\ Go(t, step, e) /\ {e, idle'} \subseteq Unused \cup {NoEngine, Top(t).engine, idle}
       /\ \A x \in {Top(t).engine, idle} \ {e, idle'} : x \notin armed' \cup bound' \cup spoiled'
       /\ \A x \in Engine \ {e} : (Clean(x) => Clean(x)') /\ (x \notin spoiled => x \notin spoiled')
       /\ e \notin armed' \cup bound' \cup spoiled'
  BY <1>1, <1>6, <1>8
<1> QED  BY <1>1, <1>4, <1>5, <1>6, <1>7, <1>9, <1>10, GoStep DEF Clean

\* A new engine, or the one taken, gets the context.
LEMMA BindStep == ASSUME IInv, NEW t \in Thread, Bind(t) PROVE IInv'
<1>1. PICK e \in Engine \cup {NoEngine} :
        /\ e = IF Top(t).engine = NoEngine THEN CHOOSE new \in Unused : TRUE ELSE Top(t).engine
        /\ (Top(t).engine = NoEngine => e \in Unused) /\ e # NoEngine
        /\ bound' = bound \cup {e} /\ Go(t, "batch", e)
        /\ frames[t] # <<>> /\ Top(t).at = "bind" /\ UNCHANGED <<lock, idle, armed, panicking, spoiled>>
  <2>1. frames[t] # <<>> /\ Top(t).at = "bind" /\ Top(t) \in Call /\ Top(t).engine \in Engine \cup {NoEngine}
    BY TopFacts DEF Bind, At, Call
  <2>2. CASE Top(t).engine = NoEngine
    <3>1. (CHOOSE new \in Unused : TRUE) \in Unused
      BY <2>2 DEF Bind
    <3>2. (CHOOSE new \in Unused : TRUE) \in Engine
      BY <3>1 DEF Unused
    <3> QED  BY <2>1, <2>2, <3>1, <3>2, NoneAssumption DEF Bind
  <2>3. CASE Top(t).engine # NoEngine
    BY <2>1, <2>3 DEF Bind
  <2> QED  BY <2>2, <2>3
<1>2. /\ Top(t).engine \notin armed \cup bound \cup spoiled /\ lock # t
      /\ (Top(t).engine # NoEngine => Top(t).engine # idle) /\ idle \notin armed \cup bound \cup spoiled
  BY <1>1, TopFacts DEF UserStep, Locked, Clean
<1>3. e \in Engine /\ e # idle /\ e \notin spoiled
  BY <1>1, <1>2 DEF Unused, IInv, Tidy, Clean
<1>4. /\ {e, idle'} \subseteq Unused \cup {NoEngine, Top(t).engine, idle}
      /\ \A x \in {Top(t).engine, idle} \ {e, idle'} : x \notin armed' \cup bound' \cup spoiled'
      /\ \A x \in Engine \ {e} : (Clean(x) => Clean(x)') /\ (x \notin spoiled => x \notin spoiled')
      /\ Clean(idle)' /\ e # idle' /\ e \notin spoiled'
  BY <1>1, <1>2, <1>3 DEF Clean
<1>5. /\ idle' \in Engine \cup {NoEngine} /\ lock' \in Thread \cup {NoThread}
      /\ armed' \subseteq Engine /\ bound' \subseteq Engine /\ spoiled' \subseteq Engine
  BY <1>1, <1>3 DEF IInv, TypeOK
<1>6. "batch" \in Steps /\ "batch" \notin Locked /\ "batch" \in UserStep
  BY DEF Steps, UserStep, Locked
<1>7. \A u \in Thread : lock' = u <=> (IF u = t THEN "batch" \in Locked ELSE lock = u)
  BY <1>1, <1>2, <1>6
<1> QED  BY <1>1, <1>4, <1>5, <1>6, <1>7, GoStep

\* A batch that unwound spoils its engine, on the way to drop it.
LEMMA EndStep == ASSUME IInv, NEW t \in Thread, End(t) PROVE IInv'
<1>1. PICK e \in Engine \cup {NoEngine}, step \in {"discard", "reset"} :
        /\ e = Top(t).engine /\ Go(t, step, e)
        /\ step = IF panicking[t] THEN "discard" ELSE "reset"
        /\ spoiled' = IF Unwinding(t) THEN spoiled \cup {e} ELSE spoiled
        /\ frames[t] # <<>> /\ Top(t).at = "batch"
        /\ UNCHANGED <<lock, idle, armed, bound, panicking>>
  <2>1. frames[t] # <<>> /\ Top(t).engine \in Engine \cup {NoEngine}
    BY TopFacts DEF End, At, Call
  <2> QED  BY <2>1 DEF End, At
<1>2. /\ e # NoEngine /\ e \in Engine /\ e # idle /\ e \notin spoiled /\ lock # t
      /\ idle \notin armed \cup bound \cup spoiled
  BY <1>1, TopFacts DEF UserStep, Locked, Clean
<1>3. step = "reset" => spoiled' = spoiled
  BY <1>1 DEF Unwinding
<1>4. step \in Steps /\ step \notin Locked /\ step \in UserStep
  BY DEF Steps, Locked, UserStep
<1>5. \A u \in Thread : lock' = u <=> (IF u = t THEN step \in Locked ELSE lock = u)
  BY <1>1, <1>2, <1>4
<1>6. /\ {e, idle'} \subseteq Unused \cup {NoEngine, Top(t).engine, idle}
      /\ \A x \in {Top(t).engine, idle} \ {e, idle'} : x \notin armed' \cup bound' \cup spoiled'
      /\ \A x \in Engine \ {e} : (Clean(x) => Clean(x)') /\ (x \notin spoiled => x \notin spoiled')
      /\ Clean(idle)' /\ (step = "reset" => e \notin spoiled')
  BY <1>1, <1>2, <1>3 DEF Clean
<1>7. /\ idle' \in Engine \cup {NoEngine} /\ lock' \in Thread \cup {NoThread}
      /\ armed' \subseteq Engine /\ bound' \subseteq Engine /\ spoiled' \subseteq Engine
  BY <1>1, <1>2 DEF IInv, TypeOK
<1> QED  BY <1>1, <1>2, <1>4, <1>5, <1>6, <1>7, GoStep

\* The limits and the context go before the engine is parked.
LEMMA ResetStep == ASSUME IInv, NEW t \in Thread, Reset(t) PROVE IInv'
<1>1. PICK e \in Engine \cup {NoEngine} :
        /\ e = Top(t).engine /\ Go(t, "park", e)
        /\ armed' = armed \ {e} /\ bound' = bound \ {e}
        /\ frames[t] # <<>> /\ Top(t).at = "reset"
        /\ UNCHANGED <<lock, idle, panicking, spoiled>>
  <2>1. frames[t] # <<>> /\ Top(t).engine \in Engine \cup {NoEngine}
    BY TopFacts DEF Reset, At, Call
  <2> QED  BY <2>1 DEF Reset, At
<1>2. /\ e # NoEngine /\ e # idle /\ e \notin spoiled /\ lock # t
      /\ idle \notin armed \cup bound \cup spoiled
  BY <1>1, TopFacts DEF UserStep, Locked, Clean
<1>3. "park" \in Steps /\ "park" \notin Locked /\ "park" \notin UserStep
  BY DEF Steps, Waiting, Locked, UserStep
<1>4. \A u \in Thread : lock' = u <=> (IF u = t THEN "park" \in Locked ELSE lock = u)
  BY <1>1, <1>2, <1>3
<1>5. /\ {e, idle'} \subseteq Unused \cup {NoEngine, Top(t).engine, idle}
      /\ \A x \in {Top(t).engine, idle} \ {e, idle'} : x \notin armed' \cup bound' \cup spoiled'
      /\ \A x \in Engine \ {e} : (Clean(x) => Clean(x)') /\ (x \notin spoiled => x \notin spoiled')
      /\ Clean(idle)' /\ e \notin armed' \cup bound' \cup spoiled'
  BY <1>1, <1>2 DEF Clean
<1>6. /\ idle' \in Engine \cup {NoEngine} /\ lock' \in Thread \cup {NoThread}
      /\ armed' \subseteq Engine /\ bound' \subseteq Engine /\ spoiled' \subseteq Engine
  BY <1>1 DEF IInv, TypeOK
<1> QED  BY <1>1, <1>2, <1>3, <1>4, <1>5, <1>6, GoStep DEF Clean

\* The engine parked and the one that was there change places.
LEMMA SwapStep == ASSUME IInv, NEW t \in Thread, Swap(t) PROVE IInv'
<1>1. PICK e \in Engine \cup {NoEngine} :
        /\ e = idle /\ Go(t, "drop", e) /\ idle' = Top(t).engine
        /\ frames[t] # <<>> /\ Top(t).at = "swap" /\ Top(t) \in Call /\ lock' = NoThread
        /\ UNCHANGED <<armed, bound, panicking, spoiled>>
  BY TopFacts DEF Swap, At
<1>2. /\ Top(t).engine \in Engine \cup {NoEngine} /\ Top(t).engine # NoEngine /\ Top(t).engine # idle /\ lock = t
      /\ Top(t).engine \notin armed \cup bound \cup spoiled /\ idle \notin armed \cup bound \cup spoiled
  BY <1>1, TopFacts DEF UserStep, Locked, Clean, Call
<1>3. "drop" \in Steps /\ "drop" \notin Locked /\ "drop" \notin UserStep
  BY DEF Steps, Locked, UserStep
<1>4. \A u \in Thread : lock' = u <=> (IF u = t THEN "drop" \in Locked ELSE lock = u)
  BY <1>1, <1>2, <1>3, NoneAssumption
<1>5. /\ {e, idle'} \subseteq Unused \cup {NoEngine, Top(t).engine, idle}
      /\ \A x \in {Top(t).engine, idle} \ {e, idle'} : x \notin armed' \cup bound' \cup spoiled'
      /\ \A x \in Engine \ {e} : (Clean(x) => Clean(x)') /\ (x \notin spoiled => x \notin spoiled')
      /\ Clean(idle)' /\ e # idle' /\ e \notin armed' \cup bound' \cup spoiled'
  BY <1>1, <1>2 DEF Clean
<1>6. /\ idle' \in Engine \cup {NoEngine} /\ lock' \in Thread \cup {NoThread}
      /\ armed' \subseteq Engine /\ bound' \subseteq Engine /\ spoiled' \subseteq Engine
  BY <1>1, <1>2 DEF IInv, TypeOK
<1> QED  BY <1>1, <1>3, <1>4, <1>5, <1>6, GoStep DEF Clean
------------------------------------------------------------------------------
LEMMA IInvNext == IInv /\ [Next]_vars => IInv'
<1> SUFFICES ASSUME IInv, [Next]_vars PROVE IInv'
  OBVIOUS
<1>1. CASE UNCHANGED vars
  <2>1. panicking' \in [Thread -> BOOLEAN] /\ UNCHANGED <<lock, idle, armed, bound, frames, spoiled>>
    BY <1>1 DEF vars, IInv, TypeOK
  <2> QED  BY <2>1, PanickingStep
<1>2. ASSUME NEW t \in Thread, Run(t) \/ ClearScratch(t) PROVE IInv'
  BY <1>2, EnterStep DEF Run, ClearScratch
<1>3. ASSUME NEW t \in Thread, Panic(t) \/ Catch(t) PROVE IInv'
  <2>1. panicking' \in [Thread -> BOOLEAN] /\ UNCHANGED <<lock, idle, armed, bound, frames, spoiled>>
    BY <1>3 DEF Panic, Catch, IInv, TypeOK
  <2> QED  BY <2>1, PanickingStep
<1>4. ASSUME NEW t \in Thread, Discard(t) \/ ResetPanics(t) \/ Drop(t) PROVE IInv'
  <2>1. /\ frames[t] # <<>> /\ Top(t).at \in {"discard", "reset", "drop"}
        /\ Freed(Top(t).engine) /\ Leave(t) /\ UNCHANGED <<lock, idle>>
        /\ panicking' \in [Thread -> BOOLEAN]
    BY <1>4 DEF Discard, ResetPanics, Drop, At, IInv, TypeOK
  <2>2. Top(t).at \notin Locked
    BY <2>1 DEF Locked
  <2> QED  BY <2>1, <2>2, LeaveStep
<1>5. ASSUME NEW t \in Thread, Arm(t) \/ End(t) \/ Lock(t) \/ Reset(t) PROVE IInv'
  BY <1>5, ArmStep, EndStep, LockStep, ResetStep
<1>6. ASSUME NEW t \in Thread, Take(t) \/ Bind(t) \/ Swap(t) PROVE IInv'
  BY <1>6, TakeStep, BindStep, SwapStep
<1> QED  BY <1>1, <1>2, <1>3, <1>4, <1>5, <1>6 DEF Next, User, Library

THEOREM Inductive == Spec => []IInv
BY IInvInit, IInvNext, PTL DEF Spec

\* Every variable has its type.
THEOREM TypeCorrect == Spec => []TypeOK
<1>1. IInv => TypeOK
  BY DEF IInv
<1> QED  BY <1>1, Inductive, PTL

\* No two calls of any threads have the same engine, and the idle one is
\* nobody's (Context::run).
THEOREM Exclusive == Spec => []EnginesAreExclusive
<1>1. IInv => EnginesAreExclusive
  BY DEF IInv
<1> QED  BY <1>1, Inductive, PTL

\* A parked engine has no limits, no context and nothing of a batch that
\* unwound (Checkout::drop).
THEOREM Pristine == Spec => []ParkedIsPristine
<1>1. IInv => ParkedIsPristine
  BY DEF IInv, Tidy, Clean, ParkedIsPristine
<1> QED  BY <1>1, Inductive, PTL

\* No batch, callback or destructor runs under the context's mutex.
THEOREM Unlocked == Spec => []UserCodeIsUnlocked
<1>1. IInv => UserCodeIsUnlocked
  BY DEF IInv, Nesting, UserCodeIsUnlocked, UserCode, At, Locked, UserStep
<1> QED  BY <1>1, Inductive, PTL
==============================================================================
