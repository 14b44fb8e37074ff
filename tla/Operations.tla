------------------------------ MODULE Operations ------------------------------
(***************************************************************************)
(* The operations put together from products, overlays, projections and    *)
(* reductions (apply/compose.rs, apply/project/mod.rs, apply/overlay.rs,   *)
(* apply/conjoin_in_place.rs), as further calls of Reduction's owner.      *)
(*                                                                         *)
(* A call may run in phases, each building on what the one before reduced. *)
(* `rest` holds the phases to come and `aside` a result an earlier one set *)
(* aside; an error anywhere drops them all.                                *)
(***************************************************************************)
EXTENDS Reduction, Disjunction, Projection, InPlaceConjunction

CONSTANTS VarSets,     \* bound: the sets of variables calls quantify
          Otherwise,   \* bound: the diagrams ite falls back to
          PushRatio    \* PUSH_RATIO

ASSUME OperationsAssumption == /\ VarSets \subseteq SUBSET Leaf
                               /\ Otherwise \subseteq Operand
                               /\ PushRatio \in Nat \ {0}

VARIABLES rest,    \* the phases left of the call in flight
          aside    \* what its earlier phases set aside

opVars == <<vars, rest, aside>>

OpInit == Init /\ rest = <<>> /\ aside = <<>>

Start(ask, plan, scope, step, diagram, phases) ==
  /\ Begin(ask, plan, scope, step, 0, diagram)
  /\ rest' = phases
  /\ aside' = <<>>

Phase(do, plan, how) == [do |-> do, plan |-> plan, how |-> how]
-------------------------------------------------------------------------------
(* Operations of one phase. *)

StartOverlay(ask, made, phases) ==
  Start(ask, "Full", "Whole", IF made.shared THEN "shared model" ELSE FirstStep("Full", made.result),
        made.result, phases)

\* overlay_on; a sum of operands that share a model is refused.
Overlaid == \E op \in {"or", "and_not", "add"}, d \in Operand :
  /\ call = Idle
  /\ StartOverlay([name |-> op, operand |-> d], Overlay(op, held, d), <<>>)

\* A projection the sweep ran for ends with its plan, another as it is.
ProjectionPlan(made, plan) == IF made.reduces THEN plan ELSE "none"
ProjectionStep(made, plan) == IF made.reduces THEN FirstStep(plan, made.result) ELSE "done"

StartProjection(ask, made, plan, phases) ==
  Start(ask, ProjectionPlan(made, plan), "Whole", ProjectionStep(made, plan), made.result, phases)

\* exists_vars_on
ExistsVars == \E vs \in VarSets, plan \in Plans :
  /\ call = Idle
  /\ StartProjection([name |-> "exists", vars |-> vs], Project(held, vs, FALSE), plan, <<>>)

\* and_in_place, and_in_place_loose where no prune follows.
AndInPlace == \E d \in Operand, prune \in BOOLEAN :
  /\ call = Idle
  /\ StartProjection([name |-> "and", operand |-> d], ConjoinInPlace(held, d, prune), "Prune", <<>>)
-------------------------------------------------------------------------------
(* Operations of several phases: the first. *)

\* Engine::xor: f and not g, then g and not f, then either.
Xor == \E d \in Operand :
  /\ call = Idle
  /\ StartOverlay([name |-> "xor", operand |-> d], Overlay("and_not", held, d),
                  <<Phase("only the other", "Full", "none"), Phase("either", "Full", "none")>>)

\* Engine::ite
Ite == \E d \in Operand, o \in Otherwise :
  /\ call = Idle
  /\ \E made \in Conjunctions(held, d) :
       Start([name |-> "ite", operand |-> d, otherwise |-> o], "none", "none", "done", made,
             <<Phase("otherwise", "Full", "none"), Phase("either", "Full", "none")>>)

\* forall_vars_on: not exists not.
ForallVars == \E vs \in VarSets :
  /\ call = Idle
  /\ Start([name |-> "forall", vars |-> vs], "none", "none", "done",
           IF vs = {} THEN held ELSE Complement(held).result,
           IF vs = {} THEN <<>> ELSE <<Phase("exists", "Full", "none"), Phase("negate", "Full", "none")>>)

(***************************************************************************)
(* push_local_targets: the targets each operand of an and_exists may lose  *)
(* before the product.                                                     *)
(***************************************************************************)
\* Mutant: a subtree either operand constrains is covered.
CoveredBy(free, leaves, targets) == leaves \subseteq targets

\* Every leaf a target that at most one operand constrains.
Covered(free, leaves, targets) == \A c \in leaves : c \in targets /\ (c \in free[1] \/ c \in free[2])

PairsHeld(d, levels) == SumOver(levels, LAMBDA t : SumOver(DOMAIN d.levels[t],
                                  LAMBDA i : Cardinality(d.levels[t][i])))

\* The leaves pushed into operand k: of each covered subtree no larger one
\* holds, that the operand is not constant over; if the whole of it would not
\* go for free with a larger quantified one, or holds more of the operand's
\* pairs than lie above it.
Pushed(operands, targets, k) ==
  LET free == Table([j \in 1 .. 2 |-> {c \in Leaf : LeafIdentity(operands[j], c)}])
      d    == operands[k]
      pairs(levels) == PairsHeld(d, levels)
      far  == PairsHeld(d, Internal) > PushRatio * PairsHeld(operands[3 - k], Internal)
      covered == {t \in Leaf \cup Internal : Covered(free, VarsBelow(t), targets)}
      maximal == {t \in covered : t = Root \/ Parent[t] \notin covered}
      inside(t) == {u \in Internal : VarsBelow(u) \subseteq VarsBelow(t)}
      above(t)  == {u \in Internal \ {t} : VarsBelow(t) \subseteq VarsBelow(u)}
      alone(t)  == t = Root \/ ~(VarsBelow(Parent[t]) \subseteq targets)
  IN  IF far \/ \E j \in 1 .. 2 : operands[j].out = Zero THEN {}
      ELSE UNION {VarsBelow(t) : t \in {u \in maximal :
             ~(VarsBelow(u) \subseteq free[k]) /\ (alone(u) \/ pairs(inside(u)) > pairs(above(u)))}}

\* and_exists_with_reduction: Quantification::Product forms the product, the
\* fused settings push first.
AndExists == \E d \in Operand, vs \in VarSets, plan \in Plans, how \in {"Fused", "FusedSubtrees", "Product"} :
  /\ call = Idle
  /\ LET ask == [name |-> "and_exists", operand |-> d, vars |-> vs]
     IN  IF how = "Product"
         THEN \E made \in Conjunctions(held, d) :
                Start(ask, "none", "none", "done", made, <<Phase("quantify", plan, "none")>>)
         ELSE StartProjection(ask, Project(held, Pushed(<<held, d>>, vs, 1), FALSE), "Full",
                              <<Phase("push", "Full", "none"), Phase("product", plan, how)>>)
-------------------------------------------------------------------------------
(* The phases that follow. *)

Now(do)  == At("done") /\ rest # <<>> /\ Head(rest).do = do
Proceed(plan, scope, step, old, diagram, phases) ==
  /\ call' = [call EXCEPT !.plan = plan, !.scope = scope, !.step = step, !.old = old, !.rewrote = FALSE]
  /\ work' = diagram
  /\ rest' = phases
  /\ Stay

Reduced(diagram) == Proceed("Full", "Whole", FirstStep("Full", diagram), 0, diagram, Tail(rest))

OverlayNext(do, op, f, g, keep) ==
  /\ Now(do)
  /\ Reduced(Overlay(op, f, g).result)
  /\ aside' = keep

OnlyTheOther == OverlayNext("only the other", "and_not", call.ask.operand, held, <<work>>)
OtherwiseNot == OverlayNext("otherwise", "and_not", call.ask.otherwise, held, <<work>>)
Either       == OverlayNext("either", "or", aside[1], work, <<>>)

ProjectNext(made, plan) ==
  Proceed(ProjectionPlan(made, plan), "Whole", ProjectionStep(made, plan), 0, made.result, Tail(rest))

ExistsNot == /\ Now("exists")
             /\ ProjectNext(Project(work, call.ask.vars, FALSE), "Full")
             /\ UNCHANGED aside

Negated(made) ==
  Proceed("Full", "BelowRoot",
          IF Certifies(work, "Full") THEN "complement" ELSE FirstStep("Full", made.result),
          made.old, made.result, Tail(rest))

NegateNext ==
  /\ Now("negate")
  /\ Negated(Complement(work))
  /\ UNCHANGED aside

PushOther ==
  /\ Now("push")
  /\ ProjectNext(Project(call.ask.operand, Pushed(<<held, call.ask.operand>>, call.ask.vars, 2), FALSE),
                 "Full")
  /\ aside' = <<work>>

ThenQuantify(diagram, collapsed) ==
  Proceed("none", "none", "done", 0, diagram,
          <<Phase("quantify", Head(rest).plan, IF collapsed THEN "collapsed" ELSE "none")>>)

Product ==
  /\ Now("product")
  /\ IF Head(rest).how = "FusedSubtrees"
     THEN \E fused \in {FusedConjunction(aside[1], work, call.ask.vars)} :
            ThenQuantify(fused.result, fused.collapsed)
     ELSE \E made \in Conjunctions(aside[1], work) : ThenQuantify(made, FALSE)
  /\ aside' = <<>>

\* With nothing to quantify, or nothing left, no sweep reduces the product.
QuantifyNext ==
  /\ Now("quantify")
  /\ LET plan == Head(rest).plan
     IN  IF call.ask.vars = {} \/ work.out = Zero
         THEN Proceed(plan, "Whole", FirstStep(plan, work), 0, work, Tail(rest))
         ELSE ProjectNext(Project(work, call.ask.vars, Head(rest).how = "collapsed"), plan)
  /\ UNCHANGED aside

Phases == OnlyTheOther \/ OtherwiseNot \/ Either \/ ExistsNot \/ NegateNext \/ PushOther \/ Product \/ QuantifyNext

\* A phase refused as it builds, or a sum of operands that share a model: the
\* operands and all that was set aside go.
PhaseRefused == /\ \/ At("shared model")
                   \/ At("done") /\ rest # <<>>
                /\ RefuseWith(work)
-------------------------------------------------------------------------------
OpCalls == Overlaid \/ ExistsVars \/ AndInPlace \/ Xor \/ Ite \/ ForallVars \/ AndExists

OpNext == \/ OpCalls
          \/ Phases
          \/ (And \/ Minimize) /\ UNCHANGED <<rest, aside>>
          \/ (At("done") => rest = <<>>) /\ Steps /\ UNCHANGED <<rest, aside>>
          \/ (Refusals \/ PhaseRefused) /\ rest' = <<>> /\ aside' = <<>>

OpSpec == OpInit /\ [][OpNext]_opVars
-------------------------------------------------------------------------------
(* Properties. *)

\* The functions of a level's nodes, read from the bottom up.
LevelFns(levels) ==
  LET below[t \in Leaf \cup Internal] ==
        IF t \in Leaf THEN <<{{t}}, {{}}, {{}, {t}}>>
        ELSE [i \in DOMAIN levels[t] |->
                UNION {Joined(below[Left[t]][p[1]], below[Right[t]][p[2]]) : p \in levels[t][i]}]
  IN  Table([t \in Internal |-> below[t]])

\* The diagrams later operations read.  One about to be pruned may still hold
\* what its products replaced, and a product with collapsed levels overlaps
\* itself until the projection that follows.
Standing == {held} \cup Range(aside) \cup (IF At("prune") \/ rest # <<>> THEN {} ELSE {work})

\* No two nodes of a level below the root share a model, and a level names a
\* leaf in one form: what the products, covers and lookups of every operation
\* assume of their operands (prune_under: an operation that runs no prune must
\* itself drop what its products replaced).  The root's other nodes, which
\* only a prune drops, may overlap the output, and so may the nodes a false
\* diagram has yet to drop.
NodesDisjoint ==
  \A d \in {e \in Standing : e.out # Zero} :
    LET fns == LevelFns(d.levels)
    IN  \A t \in Internal :
          /\ t # Root => \A i, j \in DOMAIN d.levels[t] : i # j => fns[t][i] \cap fns[t][j] = {}
          /\ \A c \in Children(t) \cap Leaf : Named(d.levels, c) \in SUBSET {One} \cup SUBSET {Pos, Neg}

\* What each operation says its result's prune need not walk is so: a level
\* it does not list loose holds no node the level above leaves unnamed.
LooseStaysListed == \A d \in Standing : d.loose # Unknown => HasUnnamed(d) \subseteq d.loose
===============================================================================
