------------------------------- MODULE Reduction -------------------------------
(***************************************************************************)
(* One diagram and the calls its owner makes on it: the operations build a *)
(* result and reduce it, minimize and reduce work in place (reduce/        *)
(* driver.rs, reduce/contract/sweep.rs).  A call may be refused at every   *)
(* reservation and stopped at every poll; what it then leaves of a diagram *)
(* reduced in place is what the next call finds.                           *)
(*                                                                         *)
(* A call is a record: what was asked, the plan and scope of its           *)
(* reduction, the step it is at, and the sweep's working set.              *)
(***************************************************************************)
EXTENDS Pruning, Contraction, Conjunction, Negation

CONSTANTS Operand,    \* bound: the diagrams calls load or conjoin with
          Plans,      \* bound: the reduction plans calls ask for
          MaxCalls,   \* bound: calls
          ListedWholeMinWidth   \* LISTED_WHOLE_MIN_WIDTH

ASSUME ReductionAssumption == /\ Plans \subseteq {"Prune", "Contract", "Full"}
                              /\ MaxCalls \in Nat
                              /\ ListedWholeMinWidth \in Nat \ {0}

\* What a caller hands in was built by an operation, or as the builder asks.
ASSUME OperandAssumption == \A d \in Operand : /\ WellFormed(d) /\ Deterministic(d.levels)
                                               /\ NodesLive(d.levels) /\ Tidy(d)

VARIABLES held,       \* the owner's diagram
          work,       \* the diagram a call is building or reducing
          call,       \* the call in flight
          calls       \* history: calls made

vars == <<held, work, call, calls>>

Idle == [name |-> "idle"]
NotSweeping == [pending |-> {}, whole |-> {}, changed |-> [t \in Leaf \cup Internal |-> {}],
                at |-> 0, left |-> TRUE, listed |-> FALSE]
InPlace == call.name = "minimize"

Init == /\ held \in Operand
        /\ work = held
        /\ call = Idle
        /\ calls = 0

\* `ask` are the fields the caller chose; rewrote: whether a leaf changed in
\* this call's contraction; old: negation's old output.
Begin(ask, plan, scope, step, old, diagram) ==
  /\ call = Idle /\ calls < MaxCalls
  /\ call' = [name |-> ask.name, ask |-> ask, plan |-> plan, scope |-> scope, step |-> step,
              old |-> old, rewrote |-> FALSE, leaves |-> {}, sweep |-> NotSweeping]
  /\ work' = diagram
  /\ calls' = calls + 1
  /\ UNCHANGED held

At(step)    == call # Idle /\ call.step = step
Goto(step)  == call' = [call EXCEPT !.step = step]
Stay        == UNCHANGED <<held, calls>>

\* An error drops a result under construction, and leaves a diagram reduced in
\* place as `left`.
RefuseWith(left) ==
  /\ call' = Idle
  /\ held' = IF InPlace THEN left ELSE held
  /\ work' = held'
  /\ UNCHANGED calls

Return == /\ At("done")
          /\ held' = work /\ UNCHANGED work
          /\ call' = Idle
          /\ UNCHANGED calls
-------------------------------------------------------------------------------
(* The calls. *)

Load == \E d \in Operand :
  Begin([name |-> "load", operand |-> d], "none", "none", "done", 0, d)

\* Engine::and leaves its result unreduced.
And ==
  /\ call = Idle
  /\ \E d \in Operand : \E made \in Conjunctions(held, d) :
       Begin([name |-> "and", operand |-> d], "none", "none", "done", 0, made)

FirstStep(plan, d) ==
  IF plan = "Contract" THEN "sweep"
  ELSE IF plan = "Full" /\ d.certified /\ d.contract = {} /\ d.leaves = {} THEN "done" ELSE "prune"

\* minimize (Full) and reduce.
Minimize == \E plan \in Plans :
  Begin([name |-> "minimize"], plan, "Whole", FirstStep(plan, held), 0, held)

\* Mutant: every complement is certified.
CertifiesAny(operand, plan) == plan # "Contract"

\* The complement of a canonical operand needs no contraction.
Certifies(operand, plan) == operand.certified /\ plan # "Contract"

\* negate_with
Negate == \E plan \in Plans :
  LET made == Complement(held)
  IN  Begin([name |-> "negate"], plan, "BelowRoot",
            IF Certifies(held, plan) THEN "complement" ELSE FirstStep(plan, made.result),
            made.old, made.result)

\* A false diagram comes back as it was.
ConditionOn == \E c \in Leaf, value \in BOOLEAN :
  LET cut == Condition(held, c, value)
      ask == [name |-> "condition", var |-> c, value |-> value]
  IN  IF held.out = Zero THEN Begin(ask, "none", "none", "done", 0, held)
      ELSE Begin(ask, "Full", "Whole", FirstStep("Full", cut), 0, cut)
-------------------------------------------------------------------------------
(* Reduction::run_passes *)

\* Every reservation of the prune precedes its first change.
PruneRefused == At("prune") /\ RefuseWith(work)

PrunePass == /\ At("prune")
             /\ work' = Prune(work, call.scope = "BelowRoot")
             /\ Goto(IF call.plan = "Prune" THEN "done" ELSE "sweep")
             /\ Stay

Certified(d) == [d EXCEPT !.loose = {}, !.contract = {}, !.leaves = {}, !.certified = TRUE]

\* certify_complement
CertifyComplement ==
  /\ At("complement")
  /\ LET pruned == IF call.old # 0 THEN PruneComplement(work, call.old) ELSE Prune(work, TRUE)
     IN  work' = Certified(pruned)
  /\ Goto("done")
  /\ Stay

(* The twin sweep. *)
Sweeps == call.sweep
\* Mutant: the parents still pending are forgotten.
GivenBackNothing(d) == d

\* restore_pending_dirty
GivenBack(d) == [d EXCEPT !.contract = @ \cup Sweeps.pending
                                          \cup (IF Sweeps.at = 0 THEN {} ELSE {Sweeps.at})]

\* The sweep takes its list; refused, it puts it back.
SweepRefused == At("sweep") /\ RefuseWith(work)

SweepStart ==
  /\ At("sweep")
  /\ work' = [work EXCEPT !.contract = {}]
  /\ call' = [call EXCEPT !.step = IF work.contract = {} THEN "swept" ELSE "sweeping",
                          !.sweep = [NotSweeping EXCEPT
                             !.pending = {p \in work.contract : MultiPair(work.levels, p)},
                             !.whole = work.contract]]
  /\ Stay

\* The polls before a parent is popped and after its children were searched.
SweepStopped == /\ At("sweeping") /\ Sweeps.at = 0 /\ (Sweeps.pending # {} \/ ~Sweeps.left)
                /\ RefuseWith(GivenBack(work))

\* LISTED_MAX_PAIR_SHARE of a wide parent's pairs are at its changed nodes: a
\* whole search is no dearer.  The pairs are bounded by the arena's length,
\* which counts dead ones too, so the test may fail where this holds.
NoDearer(p) ==
  LET pairs(i) == Cardinality(work.levels[p][i])
  IN  /\ Len(work.levels[p]) >= ListedWholeMinWidth
      /\ 4 * SumOver(Sweeps.changed[p], pairs) > Len(work.levels[p]) + SumOver(DOMAIN work.levels[p], pairs)

\* Parents are popped from the top of the vtree down.  One the worklist names
\* has its children searched whole, another at what its changed nodes name.
PopParent ==
  /\ At("sweeping") /\ Sweeps.at = 0 /\ Sweeps.pending # {}
  /\ LET p == CHOOSE p \in Sweeps.pending : \A q \in Sweeps.pending : q <= p
     IN  \E dear \in {TRUE} \cup {~NoDearer(p)} :
           call' = [call EXCEPT !.sweep = [Sweeps EXCEPT
                      !.pending = @ \ {p},
                      !.at = IF MultiPair(work.levels, p) THEN p ELSE 0,
                      !.left = TRUE,
                      !.listed = p \notin Sweeps.whole /\ dear]]
  /\ UNCHANGED work /\ Stay

\* Mutant: a parent reached through a merge has its children searched only at
\* the nodes merged there.
ReachOfChanged(c) == IF Sweeps.listed THEN Sweeps.changed[c] ELSE DOMAIN work.levels[c]

\* list_changed_children
Reach(c) == IF Sweeps.listed THEN NamedFrom(work.levels, c, Sweeps.changed[Parent[c]])
            ELSE DOMAIN work.levels[c]

\* contract_child at c, and what the sweep notes of it.
Contracts(c, finding) ==
  LET among  == Reach(c)
      keeper == Keeper(work.levels, c, among)
      groups == {i \in DOMAIN keeper : keeper[i] = i /\ \E j \in DOMAIN keeper : j # i /\ keeper[j] = i}
      fires  == Fires(work, c, among, finding)
  IN  /\ work' = IF Searched(work, c) THEN ContractChild(work, c, among, finding) ELSE work
      /\ call' = [call EXCEPT !.sweep = [Sweeps EXCEPT
           !.left = FALSE,
           !.at = IF Side(c) = 1 THEN @ ELSE 0,
           !.listed = Side(c) = 1 /\ @,
           !.pending = IF fires /\ MultiPair(work'.levels, c) THEN @ \cup {c} ELSE @,
           !.changed = IF fires THEN [Sweeps.changed EXCEPT ![c] = {Moved(keeper, finding.dropped, i) : i \in @ \cup groups}]
                       ELSE @,
           !.whole = IF finding.dropped # {} THEN @ \cup {c} ELSE @]]

Searching(side) == At("sweeping") /\ Sweeps.at # 0 /\ Sweeps.left = (side = 1)

FindingsAt(c) == IF c \in Leaf \/ Sweeps.listed THEN ListedFindings ELSE Findings(work, c)

\* The children of one parent, left then right.
ContractLeft ==
  /\ Searching(1)
  /\ \E finding \in FindingsAt(Left[Sweeps.at]) : Contracts(Left[Sweeps.at], finding)
  /\ Stay

ContractRight ==
  /\ Searching(2)
  /\ \E finding \in FindingsAt(Right[Sweeps.at]) : Contracts(Right[Sweeps.at], finding)
  /\ Stay

\* A refused search or merge: before the left child, or between the two.
ContractRefused == (Searching(1) \/ Searching(2)) /\ RefuseWith(GivenBack(work))

\* What the list holds at the end is what the merges pushed, each at its
\* fixpoint.
SweepEnd == /\ At("sweeping") /\ Sweeps.at = 0 /\ Sweeps.pending = {}
            /\ work' = [work EXCEPT !.contract = {}]
            /\ call' = [call EXCEPT !.step = "swept", !.sweep = NotSweeping]
            /\ Stay

AfterSweep == /\ At("swept")
              /\ Goto(IF call.plan = "Contract" THEN "done"
                      ELSE IF call.rewrote THEN "finish" ELSE "leaves")
              /\ UNCHANGED work /\ Stay

(* The leaf pass. *)
LeavesStart == /\ At("leaves")
               /\ work' = [work EXCEPT !.leaves = {}]
               /\ call' = [call EXCEPT !.step = IF work.leaves = {} THEN "finish" ELSE "contracting",
                                       !.leaves = work.leaves]
               /\ Stay

NextLeaf == CHOOSE t \in call.leaves : \A u \in call.leaves : t <= u

LeafLevel == /\ At("contracting") /\ call.leaves # {}
             /\ work' = ContractLeafSides(work, NextLeaf)
             /\ call' = [call EXCEPT !.leaves = @ \ {NextLeaf},
                                     !.rewrote = @ \/ work'.levels # work.levels]
             /\ Stay

\* Mutant: the level refused is not queued again.
LeafQueueTail == call.leaves \ {NextLeaf}

LeafQueue == call.leaves

\* Refused at a level's left or right leaf: it and the levels after it stay
\* queued.
LeafRefused ==
  /\ At("contracting") /\ call.leaves # {}
  /\ \E d \in {work} \cup (IF Left[NextLeaf] \in Leaf THEN {ContractLeaf(work, Left[NextLeaf])} ELSE {}) :
       RefuseWith([d EXCEPT !.leaves = @ \cup LeafQueue])

LeavesEnd == /\ At("contracting") /\ call.leaves = {}
             /\ Goto(IF call.rewrote THEN "sweep" ELSE "finish")
             /\ UNCHANGED work /\ Stay

Finish == /\ At("finish")
          /\ work' = IF call.scope = "Whole"
                     THEN Certified(work)
                     ELSE [work EXCEPT !.loose = {}]
          /\ Goto("done")
          /\ Stay
-------------------------------------------------------------------------------
Steps == \/ Return \/ PrunePass \/ CertifyComplement
         \/ SweepStart \/ PopParent \/ ContractLeft \/ ContractRight \/ SweepEnd \/ AfterSweep
         \/ LeavesStart \/ LeafLevel \/ LeavesEnd \/ Finish

Refusals == PruneRefused \/ SweepRefused \/ SweepStopped \/ ContractRefused \/ LeafRefused

Next == Load \/ And \/ Minimize \/ Negate \/ ConditionOn \/ Steps \/ Refusals

Spec == Init /\ [][Next]_vars
-------------------------------------------------------------------------------
(* Properties. *)

TypeOK == /\ WellFormed(held) /\ Deterministic(held.levels)
          /\ WellFormed(work) /\ Deterministic(work.levels)
          /\ calls \in 0 .. MaxCalls
          /\ call # Idle => /\ call.plan \in Plans \cup {"none", "Full"}
                           /\ call.old \in Nat
                           /\ call.leaves \subseteq Internal /\ Sweeps.pending \subseteq Internal

OperandFns == {Fn(d) : d \in Operand}

\* What the owner is promised, whatever passes run and wherever they are
\* refused: reduction changes no function, an operation gives exactly its own
\* or nothing.
Promise == INSTANCE BooleanFunctions WITH
  Variable <- Leaf,
  Operand  <- OperandFns,
  fn       <- Fn(IF call # Idle /\ InPlace THEN work ELSE held),
  asked    <- IF call = Idle THEN call
              ELSE [k \in DOMAIN call.ask |->
                      IF k \in {"operand", "otherwise"} THEN Fn(call.ask[k]) ELSE call.ask[k]]

Refines == Promise!Spec

Settled == IF call # Idle /\ InPlace THEN {work} ELSE {held, work}

\* Counting never looks at a model twice: the sums of products the counting
\* walk takes (query/count) are the models, in every diagram a query may be
\* asked of, between any two passes and after any refusal.
CountIsExact == \A d \in Settled : Count(d) = Cardinality(Fn(d))

\* A level on no worklist has nothing to contract below it, also in the middle
\* of a sweep and after any refusal (sweep.rs, restore_pending_dirty: a parent
\* dropped would keep its twins until something else lists it).
OffListIsFixpoint ==
  \A d \in {held, work} : \A t \in Internal :
    LET taken == d = work /\ call # Idle
    IN  /\ t \notin d.contract \cup (IF taken THEN Sweeps.pending \cup {Sweeps.at} ELSE {})
              => TwinFreeAt(d.levels, t)
        /\ t \notin d.leaves \cup (IF taken THEN call.leaves ELSE {}) => LeafTwinFreeAt(d.levels, t)

\* A diagram that knows its loose levels knows every level holding a node no
\* pair names (debug_assert_loose_listed): the next prune starts from them.
LooseIsListed == \A d \in {held, work} : d.loose # Unknown => HasUnnamed(d) \subseteq d.loose

\* The certificate (Levels::certify) is on canonical diagrams only: a full
\* reduction returns at once on it.
CertifiedIsCanonical == \A d \in {held, work} : d.certified => Canonical(d)

\* A full reduction ends with a node for every residual class and no other:
\* the canonical form Tdd::minimize documents, from any worklists a sequence
\* of operations and refusals left.
FullIsMinimal == At("done") /\ call.plan = "Full" => OneNodeAClass(work)
===============================================================================
