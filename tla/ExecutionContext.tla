--------------------------- MODULE ExecutionContext ---------------------------
(***************************************************************************)
(* The engine checkout of a shared `Context` (execution/context.rs).       *)
(*                                                                         *)
(* Threads lend themselves engines through `run`, nested as deep as they   *)
(* like: a stop callback, the destructor of what a callback captured and   *)
(* the batch itself are user code and may all call `run` again.  A batch   *)
(* returns, or unwinds; user code below it may catch the panic.  The       *)
(* context keeps one idle engine behind a mutex that is not reentrant.     *)
(***************************************************************************)
EXTENDS Naturals, Sequences, FiniteSets

CONSTANTS Thread, Engine,
          NoThread, NoEngine,
          MaxDepth           \* bound: context calls a thread has in progress

ASSUME NoneAssumption  == NoThread \notin Thread /\ NoEngine \notin Engine
ASSUME DepthAssumption == MaxDepth \in [Thread -> Nat]

VARIABLES lock,              \* who holds the mutex around `idle`
          idle,
          armed,             \* engines with limits or a callback installed
          bound,             \* engines whose `context` upgrades
          frames,            \* Thread -> stack of context calls in progress
          panicking,         \* std::thread::panicking()
          spoiled            \* history: engines of batches that unwound

vars == <<lock, idle, armed, bound, frames, panicking, spoiled>>

\* A call waits for the mutex, holds it, or runs without it.  "reset" and
\* "discard" are the two ends of Checkout::drop before the engine is parked.
Waiting  == {"acquire", "clear", "park"}
Locked   == {"take", "empty", "swap"}
UserStep == {"batch", "reset", "discard"}
Steps    == Waiting \cup Locked \cup UserStep \cup {"bind", "drop"}

\* began: the thread was already panicking when the call was made.
Call == [at : Steps, engine : Engine \cup {NoEngine}, began : BOOLEAN]

Depth(t)     == Len(frames[t])
Top(t)       == frames[t][Depth(t)]
At(t, steps) == frames[t] # <<>> /\ Top(t).at \in steps
Held         == {e \in Engine : \E t \in Thread : \E i \in 1 .. Depth(t) : frames[t][i].engine = e}
Unused       == Engine \ (Held \cup {idle})
Unwinding(t) == panicking[t] /\ ~Top(t).began

Enter(t, step) == frames' = [frames EXCEPT ![t] = Append(@, [at |-> step, engine |-> NoEngine, began |-> panicking[t]])]
Go(t, step, e) == frames' = [frames EXCEPT ![t][Depth(t)] = [at |-> step, engine |-> e, began |-> Top(t).began]]
Leave(t)       == frames' = [frames EXCEPT ![t] = SubSeq(@, 1, Depth(t) - 1)]

Freed(e) == armed' = armed \ {e} /\ bound' = bound \ {e} /\ spoiled' = spoiled \ {e}

Init == /\ lock = NoThread
        /\ idle = NoEngine
        /\ armed = {} /\ bound = {} /\ spoiled = {}
        /\ frames = [t \in Thread |-> <<>>]
        /\ panicking = [t \in Thread |-> FALSE]
------------------------------------------------------------------------------
(* What user code may do, with the thread's top call in its hands. *)

\* User code runs outside every call, in a batch, and where an engine's limits
\* are dropped with a callback in them.
UserCode(t) == frames[t] = <<>> \/ At(t, {"batch"}) \/ (At(t, {"reset", "discard"}) /\ Top(t).engine \in armed)

Run(t) == /\ UserCode(t) /\ Depth(t) < MaxDepth[t]
          /\ Enter(t, "acquire")
          /\ UNCHANGED <<lock, idle, armed, bound, panicking, spoiled>>

ClearScratch(t) == /\ UserCode(t) /\ Depth(t) < MaxDepth[t]
                   /\ Enter(t, "clear")
                   /\ UNCHANGED <<lock, idle, armed, bound, panicking, spoiled>>

\* with_limits, or Limits::install in the batch; and the end of a scope.
Arm(t) == /\ At(t, {"batch"})
          /\ \/ armed' = armed \cup {Top(t).engine}
             \/ armed' = armed \ {Top(t).engine}
          /\ UNCHANGED <<lock, idle, bound, frames, panicking, spoiled>>

\* A second panic in a thread already panicking aborts the process.
Panic(t) == /\ At(t, {"batch"}) /\ ~panicking[t]
            /\ panicking' = [panicking EXCEPT ![t] = TRUE]
            /\ UNCHANGED <<lock, idle, armed, bound, frames, spoiled>>

\* catch_unwind in user code, below the calls that have unwound.
Catch(t) == /\ panicking[t]
            /\ frames[t] = <<>> \/ (At(t, {"batch", "reset"}) /\ Unwinding(t))
            /\ panicking' = [panicking EXCEPT ![t] = FALSE]
            /\ UNCHANGED <<lock, idle, armed, bound, frames, spoiled>>
------------------------------------------------------------------------------
(* The library's steps. *)

\* lock().unwrap_or_else(into_inner)
Lock(t) == /\ lock = NoThread /\ At(t, Waiting)
           /\ lock' = t
           /\ Go(t, CASE Top(t).at = "acquire" -> "take"
                      [] Top(t).at = "clear"   -> "empty"
                      [] OTHER                 -> "swap", Top(t).engine)
           /\ UNCHANGED <<idle, armed, bound, panicking, spoiled>>

\* Mutant: the engine is used where it is parked.
TakeLeavesIdle(t) ==
  /\ At(t, {"take", "empty"})
  /\ lock' = NoThread
  /\ Go(t, IF Top(t).at = "take" THEN "bind" ELSE "drop", idle)
  /\ UNCHANGED <<idle, armed, bound, panicking, spoiled>>

\* Mutant: `if let Some(engine) = lock().take()` keeps the guard for its body.
TakeKeepsLock(t) ==
  /\ At(t, {"take", "empty"})
  /\ lock' = IF Top(t).at = "take" /\ idle # NoEngine THEN lock ELSE NoThread
  /\ idle' = NoEngine
  /\ Go(t, IF Top(t).at = "take" THEN "bind" ELSE "drop", idle)
  /\ UNCHANGED <<armed, bound, panicking, spoiled>>

\* `.take()` of the parked engine; the guard goes at the end of the statement.
Take(t) == /\ At(t, {"take", "empty"})
           /\ lock' = NoThread
           /\ idle' = NoEngine
           /\ Go(t, IF Top(t).at = "take" THEN "bind" ELSE "drop", idle)
           /\ UNCHANGED <<armed, bound, panicking, spoiled>>

\* Mutant: the slot's contents are used as they are.
BindWithoutDefault(t) ==
  /\ At(t, {"bind"})
  /\ bound' = bound \cup {Top(t).engine}
  /\ Go(t, "batch", Top(t).engine)
  /\ UNCHANGED <<lock, idle, armed, panicking, spoiled>>

\* Mutant: a call that finds the slot empty waits for an engine to be parked.
BindWaits(t) ==
  /\ At(t, {"bind"})
  /\ IF Top(t).engine = NoEngine
     THEN Go(t, "acquire", NoEngine) /\ UNCHANGED bound
     ELSE Go(t, "batch", Top(t).engine) /\ bound' = bound \cup {Top(t).engine}
  /\ UNCHANGED <<lock, idle, armed, panicking, spoiled>>

\* unwrap_or_default, the weak context, and the call of the batch.  Which
\* engine a new one is does not matter.
Bind(t) == /\ At(t, {"bind"})
           /\ Top(t).engine # NoEngine \/ Unused # {}
           /\ LET e == IF Top(t).engine = NoEngine THEN CHOOSE new \in Unused : TRUE ELSE Top(t).engine
              IN  /\ bound' = bound \cup {e}
                  /\ Go(t, "batch", e)
           /\ UNCHANGED <<lock, idle, armed, panicking, spoiled>>

\* Mutant: an unwinding batch parks its engine like any other.
EndAlwaysParks(t) ==
  /\ At(t, {"batch"})
  /\ Go(t, "reset", Top(t).engine)
  /\ spoiled' = IF Unwinding(t) THEN spoiled \cup {Top(t).engine} ELSE spoiled
  /\ UNCHANGED <<lock, idle, armed, bound, panicking>>

\* The batch returned or unwound, and Checkout::drop begins: it asks whether the
\* thread is panicking, not whether this batch is.
End(t) == /\ At(t, {"batch"})
          /\ Go(t, IF panicking[t] THEN "discard" ELSE "reset", Top(t).engine)
          /\ spoiled' = IF Unwinding(t) THEN spoiled \cup {Top(t).engine} ELSE spoiled
          /\ UNCHANGED <<lock, idle, armed, bound, panicking>>

\* The engine goes down with its limits.
Discard(t) == /\ At(t, {"discard"})
              /\ Freed(Top(t).engine)
              /\ Leave(t)
              /\ UNCHANGED <<lock, idle, panicking>>

\* Mutant: the callback stays on the parked engine.
ResetKeepsLimits(t) ==
  /\ At(t, {"reset"}) /\ ~panicking[t]
  /\ bound' = bound \ {Top(t).engine}
  /\ Go(t, "park", Top(t).engine)
  /\ UNCHANGED <<lock, idle, armed, panicking, spoiled>>

\* limits = Limits::new(); context = Weak::new()
Reset(t) == /\ At(t, {"reset"}) /\ ~panicking[t]
            /\ armed' = armed \ {Top(t).engine}
            /\ bound' = bound \ {Top(t).engine}
            /\ Go(t, "park", Top(t).engine)
            /\ UNCHANGED <<lock, idle, panicking, spoiled>>

\* The destructor of a callback's captures panics, or a call it made did: drop
\* unwinds with its engine.
ResetPanics(t) == /\ At(t, {"reset"}) /\ Top(t).engine \in armed
                  /\ panicking' = [panicking EXCEPT ![t] = TRUE]
                  /\ Freed(Top(t).engine)
                  /\ Leave(t)
                  /\ UNCHANGED <<lock, idle>>

\* `.replace(engine)`
Swap(t) == /\ At(t, {"swap"})
           /\ lock' = NoThread
           /\ idle' = Top(t).engine
           /\ Go(t, "drop", idle)
           /\ UNCHANGED <<armed, bound, panicking, spoiled>>

\* drop(previous), drop(parked)
Drop(t) == /\ At(t, {"drop"})
           /\ Freed(Top(t).engine)
           /\ Leave(t)
           /\ UNCHANGED <<lock, idle, panicking>>
------------------------------------------------------------------------------
User(t)    == Run(t) \/ ClearScratch(t) \/ Arm(t) \/ Panic(t) \/ Catch(t) \/ End(t) \/ ResetPanics(t)
Library(t) == Take(t) \/ Bind(t) \/ Swap(t) \/ Drop(t)
Next       == \E t \in Thread : User(t) \/ Lock(t) \/ Library(t) \/ Reset(t) \/ Discard(t)

Spec == Init /\ [][Next]_vars

\* The library's code runs on; the mutex lets a waiting thread in sooner or
\* later; destructors of what callbacks captured come back.
FairSpec == /\ Spec
            /\ \A t \in Thread : /\ WF_vars(Library(t) \/ Reset(t) \/ Discard(t))
                                 /\ SF_vars(Lock(t))
------------------------------------------------------------------------------
(* Properties. *)

\* Every variable has its type.
TypeOK == /\ lock \in Thread \cup {NoThread}
          /\ idle \in Engine \cup {NoEngine}
          /\ armed \subseteq Engine /\ bound \subseteq Engine /\ spoiled \subseteq Engine
          /\ frames \in [Thread -> Seq(Call)]
          /\ panicking \in [Thread -> BOOLEAN]

\* No two calls of any threads, nested or concurrent, have the same engine, and
\* the idle one is nobody's: an engine is not Sync and its pools are unlocked
\* (Context: "Nested and concurrent calls use separate engines").
EnginesAreExclusive ==
  /\ idle # NoEngine => idle \notin Held
  /\ \A t, u \in Thread : \A i \in 1 .. Depth(t), j \in 1 .. Depth(u) :
       frames[t][i].engine = frames[u][j].engine /\ frames[t][i].engine # NoEngine => t = u /\ i = j

\* What a batch leaves behind it is no limit, no callback, no context and
\* nothing of a batch that unwound, however its end interleaves with others:
\* the next batch starts as on a new engine (Checkout::drop).
ParkedIsPristine == idle \notin armed \cup bound \cup spoiled

\* User code never runs under the mutex: a batch, a callback or a destructor
\* that calls `run` again would wait for itself.
UserCodeIsUnlocked == \A t \in Thread : lock = t => ~UserCode(t) /\ ~At(t, UserStep)

\* Every call gets its engine, and every batch that ended gives its own back,
\* whatever other threads and nested calls do meanwhile.
CallsProceed ==
  \A t \in Thread : \A d \in 1 .. MaxDepth[t] :
    /\ (Depth(t) = d /\ At(t, {"acquire", "take", "bind"})) ~> (Depth(t) = d /\ At(t, {"batch"}))
    /\ (Depth(t) = d /\ At(t, {"clear", "park", "swap", "drop"})) ~> (Depth(t) < d)
==============================================================================
