--------------------------- MODULE Reduction_refinement ---------------------------
(***************************************************************************)
(* Reduction implements BooleanFunctions: an operation gives exactly the   *)
(* function asked for or is refused, and no pass of a reduction, run,      *)
(* refused or stopped, changes what the owner's diagram computes.          *)
(*                                                                         *)
(* A pass keeps the function because it keeps, for every assignment, which *)
(* nodes of which level it satisfies (Holds).  For each operation there is *)
(* a lemma of what it computes: ConjunctionsFn, ComplementFn, ConditionFn; *)
(* for each pass one that it computes the same: PruneFn, PruneComplementFn,*)
(* ContractChildFn, ContractLeafFn.                                        *)
(*                                                                         *)
(* The next sections read the canonical form off a diagram's pairs: twins  *)
(* of a level off its parent's (Cell, Names, Same), so that a pass is a    *)
(* map of the parent's pairs and what maps preserve (Follows) decides what *)
(* the pass keeps; what the prunes leave of it; and that a diagram in its  *)
(* best form has a node for each residual class (AsManyClasses).           *)
(*                                                                         *)
(* At the end, the overlay of two diagrams: that disjunction, difference   *)
(* and sum compute exactly what they are named for (OverlaysExact).        *)
(***************************************************************************)
EXTENDS Reduction_proofs, Disjunction

-------------------------------------------------------------------------------
(* Keeping some nodes. *)
\* What a diagram computes is at its output slot.
LEMMA FnIs ==
  ASSUME NEW d, Sound(d)
  PROVE  Fn(d) = IF d.out = Zero THEN {} ELSE ModelsBelow(d.levels)[Root][d.out]
<1>1. InRange(d.levels)
  BY SoundIs
<1> QED  BY <1>1, ModelsAre DEF Fn

\* Each pair of either has a pair of the other naming the same models.
Matched(a, l, r, b, m, s) ==
  /\ \A p \in a : \E q \in b : l[p[1]] = m[q[1]] /\ r[p[2]] = s[q[2]]
  /\ \A q \in b : \E p \in a : l[p[1]] = m[q[1]] /\ r[p[2]] = s[q[2]]

\* Nodes with matched pairs have the same models.
LEMMA MatchedModels ==
  ASSUME NEW a, NEW l, NEW r, NEW b, NEW m, NEW s, Matched(a, l, r, b, m, s)
  PROVE  NodeModels(a, l, r) = NodeModels(b, m, s)
<1>1. ASSUME NEW p \in a PROVE \E q \in b : Joined(l[p[1]], r[p[2]]) = Joined(m[q[1]], s[q[2]])
  <2>1. PICK q \in b : l[p[1]] = m[q[1]] /\ r[p[2]] = s[q[2]]
    BY DEF Matched
  <2> QED  BY <2>1
<1>2. ASSUME NEW q \in b PROVE \E p \in a : Joined(l[p[1]], r[p[2]]) = Joined(m[q[1]], s[q[2]])
  <2>1. PICK p \in a : l[p[1]] = m[q[1]] /\ r[p[2]] = s[q[2]]
    BY DEF Matched
  <2> QED  BY <2>1
<1>3. ASSUME NEW z, z \in NodeModels(a, l, r) PROVE z \in NodeModels(b, m, s)
  <2>1. PICK p \in a : z \in Joined(l[p[1]], r[p[2]])
    BY <1>3 DEF NodeModels
  <2>2. PICK q \in b : Joined(l[p[1]], r[p[2]]) = Joined(m[q[1]], s[q[2]])
    BY <1>1
  <2> QED  BY <2>1, <2>2 DEF NodeModels
<1>4. ASSUME NEW z, z \in NodeModels(b, m, s) PROVE z \in NodeModels(a, l, r)
  <2>1. PICK q \in b : z \in Joined(m[q[1]], s[q[2]])
    BY <1>4 DEF NodeModels
  <2>2. PICK p \in a : Joined(l[p[1]], r[p[2]]) = Joined(m[q[1]], s[q[2]])
    BY <1>2
  <2> QED  BY <2>1, <2>2 DEF NodeModels
<1> QED  BY <1>3, <1>4

\* The nodes a compaction keeps mean what they meant.
SameKept(levels, kept, t) ==
  /\ t \in Leaf => ModelsBelow(Compact(levels, kept))[t] = ModelsBelow(levels)[t]
  /\ t \notin Leaf => \A k \in 1 .. Cardinality(kept[t]) :
       ModelsBelow(Compact(levels, kept))[t][k] = ModelsBelow(levels)[t][Was(kept, t, k)]

\* A half of a pair, renumbered with its level, names what it named.
LEMMA SameKeptHalf ==
  ASSUME NEW levels, InRange(levels), NEW kept, Closed(levels, kept), NEW c \in Vtree, SameKept(levels, kept, c),
         NEW ref, c \notin Leaf => ref \in kept[c]
  PROVE  ModelsBelow(Compact(levels, kept))[c][To(kept, c, ref)] = ModelsBelow(levels)[c][ref]
<1>1. CASE c \in Leaf
  BY <1>1 DEF SameKept, To
<1>2. CASE c \notin Leaf
  <2>1. c \in Internal /\ ref \in kept[c]
    BY <1>2 DEF Vtree
  <2>2. Rank(kept[c], ref) \in 1 .. Cardinality(kept[c]) /\ Was(kept, c, Rank(kept[c], ref)) = ref
    BY <2>1, WasIs
  <2>3. To(kept, c, ref) = Rank(kept[c], ref)
    BY <1>2 DEF To
  <2> QED  BY <1>2, <2>2, <2>3 DEF SameKept
<1> QED  BY <1>1, <1>2

\* Keeping a closed set of nodes changes the models of none of them.
LEMMA KeptModels ==
  ASSUME NEW levels, InRange(levels), NEW kept, Closed(levels, kept), NEW t \in Vtree
  PROVE  SameKept(levels, kept, t)
<1> DEFINE new == Compact(levels, kept)
           P == {u \in Vtree : SameKept(levels, kept, u)}
<1>0. InRange(new)
  BY CompactInRange
<1>1. Leaf \subseteq P
  <2>1. ASSUME NEW u \in Leaf PROVE SameKept(levels, kept, u)
    <3>1. ModelsBelow(new)[u] = LeafModels(u) /\ ModelsBelow(levels)[u] = LeafModels(u)
      BY <1>0, ModelsAre
    <3> QED  BY <3>1 DEF SameKept
  <2> QED  BY <2>1 DEF Vtree
<1>2. ASSUME NEW u \in Internal, SameKept(levels, kept, Left[u]), SameKept(levels, kept, Right[u])
      PROVE  SameKept(levels, kept, u)
  <2>0. u \notin Leaf /\ Left[u] \in Vtree /\ Right[u] \in Vtree
    BY InternalIs
  <2>1. SUFFICES ASSUME NEW k \in 1 .. Cardinality(kept[u])
                 PROVE  ModelsBelow(new)[u][k] = ModelsBelow(levels)[u][Was(kept, u, k)]
    BY <2>0 DEF SameKept
  <2> DEFINE i == Was(kept, u, k)
             nl == ModelsBelow(new)[Left[u]]
             nr == ModelsBelow(new)[Right[u]]
             ol == ModelsBelow(levels)[Left[u]]
             or == ModelsBelow(levels)[Right[u]]
  <2>2. k \in DOMAIN new[u] /\ i \in kept[u] /\ i \in DOMAIN levels[u]
    BY CompactShape, WasIs
  <2>3. /\ \A q \in new[u][k] : \E p \in levels[u][i] : q = MovedPair(kept, u, p)
        /\ \A p \in levels[u][i] : MovedPair(kept, u, p) \in new[u][k]
    BY <2>2, CompactPair
  <2>4. ASSUME NEW p \in levels[u][i]
        PROVE  nl[MovedPair(kept, u, p)[1]] = ol[p[1]] /\ nr[MovedPair(kept, u, p)[2]] = or[p[2]]
    <3>1. (Left[u] \notin Leaf => p[1] \in kept[Left[u]]) /\ (Right[u] \notin Leaf => p[2] \in kept[Right[u]])
      BY <2>2 DEF Closed
    <3>2. MovedPair(kept, u, p)[1] = To(kept, Left[u], p[1]) /\ MovedPair(kept, u, p)[2] = To(kept, Right[u], p[2])
      BY DEF MovedPair
    <3>3. ModelsBelow(new)[Left[u]][To(kept, Left[u], p[1])] = ModelsBelow(levels)[Left[u]][p[1]]
      BY <1>2, <2>0, <3>1, SameKeptHalf
    <3>4. ModelsBelow(new)[Right[u]][To(kept, Right[u], p[2])] = ModelsBelow(levels)[Right[u]][p[2]]
      BY <1>2, <2>0, <3>1, SameKeptHalf
    <3> QED  BY <3>2, <3>3, <3>4
  <2>5. Matched(new[u][k], nl, nr, levels[u][i], ol, or)
    <3> HIDE DEF nl, nr, ol, or, new, i
    <3>1. ASSUME NEW q \in new[u][k] PROVE \E p \in levels[u][i] : nl[q[1]] = ol[p[1]] /\ nr[q[2]] = or[p[2]]
      BY <2>3, <2>4
    <3>2. ASSUME NEW p \in levels[u][i] PROVE \E q \in new[u][k] : nl[q[1]] = ol[p[1]] /\ nr[q[2]] = or[p[2]]
      BY <2>3, <2>4
    <3> QED  BY <3>1, <3>2 DEF Matched
  <2>6. ModelsBelow(new)[u][k] = NodeModels(new[u][k], nl, nr)
    BY <1>0, <2>2, ModelsAre
  <2>7. ModelsBelow(levels)[u][i] = NodeModels(levels[u][i], ol, or)
    BY <2>2, ModelsAre
  <2> HIDE DEF nl, nr, ol, or, new, i
  <2>8. NodeModels(new[u][k], nl, nr) = NodeModels(levels[u][i], ol, or)
    BY <2>5, MatchedModels
  <2> QED  BY <2>6, <2>7, <2>8 DEF i
<1>3. t \in P
  <2>1. \A u \in Internal : Left[u] \in P /\ Right[u] \in P => u \in P
    BY <1>2 DEF Vtree
  <2> HIDE DEF P
  <2> QED  BY <1>1, <2>1, UpInduction
<1> QED  BY <1>3

\* What is left of a diagram its nodes are dropped from.
LEMMA KeptParts ==
  ASSUME NEW d, Sound(d), NEW kept
  PROVE  /\ Kept(d, kept).levels = LeftLevels(d, kept) /\ Kept(d, kept).out = LeftOut(d, kept)
         /\ Kept(d, kept).contract = d.contract \cup Lost(d, kept) /\ Kept(d, kept).leaves = d.leaves \cup Lost(d, kept)
         /\ Kept(d, kept).loose = IF Lost(d, kept) = {} THEN d.loose ELSE Unknown
         /\ Kept(d, kept).certified = IF Lost(d, kept) = {} THEN d.certified ELSE FALSE
<1> DEFINE s == IF Lost(d, kept) = {} THEN d.loose ELSE Unknown
           e == IF Lost(d, kept) = {} THEN d.certified ELSE FALSE
           c == d.contract \cup Lost(d, kept)
           v == d.leaves \cup Lost(d, kept)
<1>1. Kept(d, kept) = Diagram(LeftLevels(d, kept), LeftOut(d, kept), c, v, s, e)
  BY KeptForm
<1>2. SUFFICES /\ Kept(d, kept).levels = LeftLevels(d, kept) /\ Kept(d, kept).out = LeftOut(d, kept)
               /\ Kept(d, kept).contract = c /\ Kept(d, kept).leaves = v
               /\ Kept(d, kept).loose = s /\ Kept(d, kept).certified = e
  OBVIOUS
<1> HIDE DEF s, e, c, v
<1> QED  BY <1>1, DiagramIs

\* Cutting a diagram down changes neither its function nor what is empty.
LEMMA KeptFn ==
  ASSUME NEW d, Sound(d), NEW kept, Closed(d.levels, kept), d.out \in kept[Root], d.out # Zero
  PROVE  Fn(Kept(d, kept)) = Fn(d)
<1>1. /\ Kept(d, kept).levels = LeftLevels(d, kept)
      /\ Kept(d, kept).out = Rank(kept[Root], d.out)
  BY KeptParts DEF LeftOut
<1>2. InRange(d.levels) /\ Root \in Internal /\ Root \notin Leaf /\ Root \in Vtree /\ d.out \in DOMAIN d.levels[Root]
  BY SoundIs, RootIs, InternalIs DEF Vtree
<1>3. Sound(Kept(d, kept)) /\ Kept(d, kept).out # Zero
  BY KeptRoot
<1>4. /\ Fn(d) = ModelsBelow(d.levels)[Root][d.out]
      /\ Fn(Kept(d, kept)) = ModelsBelow(LeftLevels(d, kept))[Root][Rank(kept[Root], d.out)]
  BY <1>1, <1>3, FnIs
<1>5. CASE Lost(d, kept) = {}
  <2>1. kept[Root] = DOMAIN d.levels[Root] /\ LeftLevels(d, kept) = d.levels
    BY <1>2, <1>5 DEF Lost, LeftLevels
  <2>2. DOMAIN d.levels[Root] = 1 .. Len(d.levels[Root]) /\ Len(d.levels[Root]) \in Nat
    BY <1>2, LevelIs
  <2>3. Rank(1 .. Len(d.levels[Root]), d.out) = d.out
    BY <1>2, <2>2, RankOfAll
  <2> QED  BY <1>4, <2>1, <2>2, <2>3
<1>6. CASE Lost(d, kept) # {}
  <2>1. LeftLevels(d, kept) = Compact(d.levels, kept)
    BY <1>6 DEF LeftLevels
  <2>2. Rank(kept[Root], d.out) \in 1 .. Cardinality(kept[Root]) /\ Was(kept, Root, Rank(kept[Root], d.out)) = d.out
    BY <1>2, WasIs
  <2>3. SameKept(d.levels, kept, Root)
    BY <1>2, KeptModels
  <2> QED  BY <1>2, <1>4, <2>1, <2>2, <2>3 DEF SameKept
<1> QED  BY <1>5, <1>6

\* Of nodes that are kept, those that are empty stay so.
KeptLive(levels, kept) == \A t \in Internal : \A i \in kept[t] : levels[t][i] # {}

\* No kept node is emptied.
LEMMA KeptNodesLive ==
  ASSUME NEW d, Sound(d), NEW kept, Closed(d.levels, kept), KeptLive(d.levels, kept)
  PROVE  NodesLive(Kept(d, kept).levels)
<1>1. Kept(d, kept).levels = LeftLevels(d, kept)
  BY KeptParts
<1>2. CASE Lost(d, kept) = {}
  BY <1>1, <1>2 DEF Lost, LeftLevels, NodesLive, KeptLive
<1>3. CASE Lost(d, kept) # {}
  <2>1. LeftLevels(d, kept) = Compact(d.levels, kept) /\ InRange(d.levels)
    BY <1>3, SoundIs DEF LeftLevels
  <2>2. ASSUME NEW t \in Internal, NEW k \in DOMAIN Compact(d.levels, kept)[t]
        PROVE  Compact(d.levels, kept)[t][k] # {}
    <3>1. /\ Was(kept, t, k) \in kept[t]
          /\ \A p \in d.levels[t][Was(kept, t, k)] : MovedPair(kept, t, p) \in Compact(d.levels, kept)[t][k]
      BY <2>1, CompactNode, CompactPair
    <3>2. PICK p \in d.levels[t][Was(kept, t, k)] : TRUE
      BY <3>1 DEF KeptLive
    <3> QED  BY <3>1, <3>2
  <2> QED  BY <1>1, <2>1, <2>2 DEF NodesLive
<1> QED  BY <1>2, <1>3

\* A walk that keeps what the output reaches changes no function.
LEMMA CutFn ==
  ASSUME NEW d, Sound(d), d.out # Zero, NEW made, Cut(d, made)
  PROVE  Fn(made) = Fn(d) /\ (NodesLive(d.levels) => NodesLive(made.levels))
<1>1. PICK kept : Closed(d.levels, kept) /\ d.out \in kept[Root] /\ made = Kept(d, kept)
  BY DEF Cut
<1>2. Fn(made) = Fn(d)
  BY <1>1, KeptFn
<1>3. ASSUME NodesLive(d.levels) PROVE NodesLive(made.levels)
  <2>1. KeptLive(d.levels, kept)
    BY <1>1, <1>3 DEF KeptLive, Closed, NodesLive
  <2> QED  BY <1>1, <2>1, KeptNodesLive
<1> QED  BY <1>2, <1>3

\* No pair names an empty node: what conditioning leaves for the prune.
NamesLive(levels) ==
  \A t \in Internal : \A i \in DOMAIN levels[t] : \A p \in levels[t][i] :
    /\ Left[t] \notin Leaf => levels[Left[t]][p[1]] # {}
    /\ Right[t] \notin Leaf => levels[Right[t]][p[2]] # {}

\* What a prune of every level needs of a diagram to leave no empty node.
Prunable(d) == d.loose = Unknown /\ NamesLive(d.levels) /\ (d.out # Zero => d.levels[Root][d.out] # {})

\* The walk of the whole diagram (prune_whole); after a conditioning it also
\* drops every node left empty.
LEMMA PruneWholeFn ==
  ASSUME NEW d, Sound(d), d.out # Zero
  PROVE  /\ Fn(PruneWhole(d)) = Fn(d)
         /\ NodesLive(d.levels) \/ Prunable(d) => NodesLive(PruneWhole(d).levels)
<1> DEFINE kept == Reached(d.levels, d.out)
<1>0. InRange(d.levels) /\ d.out \in DOMAIN d.levels[Root] /\ Root \in Internal
  BY SoundIs, RootIs
<1>1. Closed(d.levels, kept) /\ d.out \in kept[Root] /\ PruneWhole(d) = Kept(d, kept)
  BY PruneWholeSound DEF PruneWhole
<1>2. /\ kept[Root] = {d.out}
      /\ \A t \in Internal \ {Root} : kept[t] = NamedFrom(d.levels, t, kept[Parent[t]])
  BY <1>0, ReachedIs
<1> HIDE DEF kept
<1>3. Cut(d, PruneWhole(d))
  BY <1>1 DEF Cut
<1>4. ASSUME Prunable(d) PROVE NodesLive(PruneWhole(d).levels)
  <2>1. ASSUME NEW t \in Internal, NEW i \in kept[t] PROVE d.levels[t][i] # {}
    <3>1. CASE t = Root
      BY <1>2, <1>4, <3>1 DEF Prunable
    <3>2. CASE t # Root
      <4> DEFINE u == Parent[t]
      <4>1. u \in Internal /\ t \in Children(u)
        BY <3>2, HasParent DEF Vtree
      <4>2. i \in NamedFrom(d.levels, t, kept[u]) /\ kept[u] \subseteq DOMAIN d.levels[u]
        BY <1>1, <1>2, <3>2, <4>1 DEF Closed
      <4>3. NamedFrom(d.levels, t, kept[u]) = {p[Side(t)] : p \in UNION {d.levels[u][k] : k \in kept[u]}}
        BY <1>0, <4>1, NamedIs
      <4>4. PICK k \in kept[u] : \E p \in d.levels[u][k] : i = p[Side(t)]
        BY <4>2, <4>3
      <4>5. PICK p \in d.levels[u][k] : i = p[Side(t)]
        BY <4>4
      <4>6. (t = Left[u] /\ Side(t) = 1) \/ (t = Right[u] /\ Side(t) = 2)
        <5>1. t = Left[u] \/ t = Right[u]
          BY <4>1 DEF Children
        <5> QED  BY <4>1, <5>1, SidesOf
      <4>7. t \notin Leaf /\ k \in DOMAIN d.levels[u]
        BY <4>2, InternalIs
      <4> HIDE DEF u
      <4>8. /\ Left[u] \notin Leaf => d.levels[Left[u]][p[1]] # {}
            /\ Right[u] \notin Leaf => d.levels[Right[u]][p[2]] # {}
        BY <1>4, <4>1, <4>5, <4>7 DEF Prunable, NamesLive
      <4> QED  BY <4>5, <4>6, <4>7, <4>8
    <3> QED  BY <3>1, <3>2
  <2>2. KeptLive(d.levels, kept)
    BY <2>1 DEF KeptLive
  <2> QED  BY <1>1, <2>2, KeptNodesLive
<1> QED  BY <1>3, <1>4, CutFn

\* The walk from the loose levels (settle_loose).
LEMMA PruneSeededFn ==
  ASSUME NEW d, Sound(d), d.out # Zero
  PROVE  /\ Fn(PruneSeeded(d)) = Fn(d)
         /\ NodesLive(d.levels) => NodesLive(PruneSeeded(d).levels)
BY PruneSeededSound, CutFn

\* The walk along the dying nodes (prune_complement).
LEMMA PruneComplementFn ==
  ASSUME NEW d, Sound(d), NEW old, Beside(d, old)
  PROVE  /\ Fn(PruneComplement(d, old)) = Fn(d)
         /\ NodesLive(d.levels) => NodesLive(PruneComplement(d, old).levels)
<1>1. d.out # Zero
  BY DEF Beside, Zero
<1> QED  BY <1>1, PruneComplementSound, CutFn

\* A diagram without nodes has none that is empty.
LEMMA NothingLive == NodesLive(NoLevels)
BY DEF NodesLive, NoLevels

\* A function is computed from the levels and the output alone.
LEMMA FnOf ==
  ASSUME NEW d, NEW e, d.levels = e.levels, d.out = e.out
  PROVE  Fn(d) = Fn(e)
BY DEF Fn

\* A prune changes no function and leaves no empty node.
LEMMA PruneFn ==
  ASSUME NEW d, Sound(d), NEW belowRoot
  PROVE  LET made == Prune(d, belowRoot)
         IN  /\ Fn(made) = Fn(d)
             /\ NodesLive(d.levels) \/ (Prunable(d) /\ ~belowRoot) => NodesLive(made.levels)
<1>1. CASE d.out = Zero
  <2>1. d = Diagram(d.levels, d.out, d.contract, d.leaves, d.loose, d.certified)
    BY SoundIs
  <2>2. Prune(d, belowRoot) = Diagram(NoLevels, Zero, d.contract, d.leaves, {}, FALSE)
    BY <1>1, <2>1 DEF Prune, Diagram
  <2>3. Prune(d, belowRoot).levels = NoLevels /\ Prune(d, belowRoot).out = Zero
    BY <2>2 DEF Diagram
  <2>4. Sound(Prune(d, belowRoot))
    BY PruneSound
  <2> QED  BY <1>1, <2>3, <2>4, FnIs, NothingLive
<1>2. CASE d.out # Zero
  <2> DEFINE pruned == IF belowRoot THEN PruneBelowRoot(d)
                       ELSE IF d.loose # Unknown THEN PruneSeeded(d) ELSE PruneWhole(d)
  <2>1. Sound(PruneBelowRoot(d)) /\ Cut(d, PruneBelowRoot(d))
    BY <1>2, WalkSound DEF PruneBelowRoot
  <2>2. Sound(pruned)
    BY <1>2, <2>1, PruneSeededSound, PruneWholeSound
  <2>3. Fn(pruned) = Fn(d) /\ (NodesLive(d.levels) \/ (Prunable(d) /\ ~belowRoot) => NodesLive(pruned.levels))
    <3>1. CASE belowRoot
      BY <1>2, <2>1, <3>1, CutFn
    <3>2. CASE ~belowRoot /\ d.loose # Unknown
      BY <1>2, <3>2, PruneSeededFn DEF Prunable
    <3>3. CASE ~belowRoot /\ d.loose = Unknown
      BY <1>2, <3>3, PruneWholeFn
    <3> QED  BY <3>1, <3>2, <3>3
  <2>4. Prune(d, belowRoot) = [pruned EXCEPT !.loose = {}]
    BY <1>2 DEF Prune
  <2> HIDE DEF pruned
  <2>5. [pruned EXCEPT !.loose = {}].levels = pruned.levels /\ [pruned EXCEPT !.loose = {}].out = pruned.out
    BY <2>2, WithoutLoose
  <2>6. Fn([pruned EXCEPT !.loose = {}]) = Fn(pruned)
    BY <2>5, FnOf
  <2> QED  BY <2>3, <2>4, <2>5, <2>6
<1> QED  BY <1>1, <1>2

-------------------------------------------------------------------------------
(* Satisfaction, level by level. *)
\* The root's scope is every leaf.
LEMMA RootScope == Scope[Root] = Leaf
<1> DEFINE P == {t \in Internal : Scope[t] \subseteq Scope[Root]}
<1>1. Root \in Internal
  BY RootIs
<1>2. Scope \in [Vtree -> SUBSET Leaf] /\ ScopesOf(Scope)
  BY ScopeIs
<1>3. ASSUME NEW c \in Vtree, c # Root PROVE Scope[c] \subseteq Scope[Parent[c]]
  <2>1. Parent[c] \in Internal /\ c \in Children(Parent[c])
    BY <1>3, HasParent
  <2>2. Scope[Parent[c]] = Scope[Left[Parent[c]]] \cup Scope[Right[Parent[c]]]
    BY <1>2, <2>1 DEF ScopesOf
  <2>3. c = Left[Parent[c]] \/ c = Right[Parent[c]]
    BY <2>1 DEF Children
  <2> QED  BY <2>2, <2>3
<1>4. ASSUME NEW t \in Internal \ {Root}, Parent[t] \in P PROVE t \in P
  BY <1>3, <1>4 DEF Vtree
<1>5. Root \in P
  BY <1>1
<1>6. Internal \subseteq P
  <2> HIDE DEF P
  <2> QED  BY <1>4, <1>5, DownInduction
<1>7. ASSUME NEW c \in Leaf PROVE c \in Scope[Root]
  <2>1. c \in Vtree /\ c # Root
    BY <1>1, InternalIs DEF Vtree
  <2>2. Parent[c] \in Internal
    BY <2>1, HasParent
  <2>3. Scope[c] = {c}
    BY <1>2 DEF ScopesOf
  <2> QED  BY <1>3, <1>6, <2>1, <2>2, <2>3
<1>8. Scope[Root] \subseteq Leaf
  BY <1>1, <1>2 DEF Vtree
<1> QED  BY <1>7, <1>8

\* Whether an assignment satisfies a node: by its part in the node's scope.
Holds(levels, t, i, z) == z \cap Scope[t] \in ModelsBelow(levels)[t][i]

\* What the three nodes of a leaf say of its variable.
LEMMA LeafHolds ==
  ASSUME NEW levels, InRange(levels), NEW t \in Leaf, NEW i \in {1, 2, 3}, NEW z
  PROVE  Holds(levels, t, i, z) <=> (i = 1 /\ t \in z) \/ (i = 2 /\ t \notin z) \/ i = 3
<1>1. ModelsBelow(levels)[t] = LeafModels(t)
  BY ModelsAre
<1>2. Scope[t] = {t}
  BY ScopeIs DEF ScopesOf
<1>3. LeafModels(t)[1] = {{t}} /\ LeafModels(t)[2] = {{}} /\ LeafModels(t)[3] = {{}, {t}}
  BY DEF LeafModels
<1>4. z \cap {t} = IF t \in z THEN {t} ELSE {}
  OBVIOUS
<1>5. {t} # {}
  OBVIOUS
<1> QED  BY <1>1, <1>2, <1>3, <1>4, <1>5 DEF Holds

\* A union of two assignments of disjoint scopes, taken apart.
LEMMA JoinedSplit ==
  ASSUME NEW X, NEW Y, Apart2(X, Y), NEW a, a \subseteq SUBSET X, NEW b, b \subseteq SUBSET Y, NEW z, z \subseteq X \cup Y
  PROVE  z \in Joined(a, b) <=> z \cap X \in a /\ z \cap Y \in b
<1>1. ASSUME z \in Joined(a, b) PROVE z \cap X \in a /\ z \cap Y \in b
  <2>1. PICK q \in a \X b : z = q[1] \cup q[2]
    BY <1>1 DEF Joined
  <2>2. q[1] \in a /\ q[2] \in b /\ q[1] \subseteq X /\ q[2] \subseteq Y
    BY <2>1
  <2>3. z \cap X = q[1] /\ z \cap Y = q[2]
    BY <2>1, <2>2 DEF Apart2
  <2> QED  BY <2>2, <2>3
<1>2. ASSUME z \cap X \in a, z \cap Y \in b PROVE z \in Joined(a, b)
  <2> DEFINE q == <<z \cap X, z \cap Y>>
  <2>1. q \in a \X b /\ q[1] \cup q[2] = z
    BY <1>2
  <2> HIDE DEF q
  <2> QED  BY <2>1 DEF Joined
<1> QED  BY <1>1, <1>2

\* An assignment satisfies a node when it satisfies both halves of a pair.
LEMMA NodeHolds ==
  ASSUME NEW levels, InRange(levels), NEW t \in Internal, NEW i \in DOMAIN levels[t], NEW z
  PROVE  Holds(levels, t, i, z) <=>
           \E p \in levels[t][i] : Holds(levels, Left[t], p[1], z) /\ Holds(levels, Right[t], p[2], z)
<1> DEFINE X == Scope[Left[t]]
           Y == Scope[Right[t]]
           l == ModelsBelow(levels)[Left[t]]
           r == ModelsBelow(levels)[Right[t]]
           zt == z \cap Scope[t]
<1>1. Scope[t] = X \cup Y /\ Apart2(X, Y)
  BY ScopeIs, ScopesApart DEF ScopesOf, Apart2
<1>2. ModelsBelow(levels)[t][i] = NodeModels(levels[t][i], l, r)
  BY ModelsAre
<1>3. Left[t] \in Vtree /\ Right[t] \in Vtree
  BY InternalIs
<1>4. zt \subseteq X \cup Y /\ zt \cap X = z \cap X /\ zt \cap Y = z \cap Y
  BY <1>1
<1>5. ASSUME NEW p \in levels[t][i]
      PROVE  zt \in Joined(l[p[1]], r[p[2]]) <=> Holds(levels, Left[t], p[1], z) /\ Holds(levels, Right[t], p[2], z)
  <2>1. p[1] \in Slots(levels, Left[t]) /\ p[2] \in Slots(levels, Right[t])
    BY PairIs
  <2>2. l[p[1]] \subseteq SUBSET X /\ r[p[2]] \subseteq SUBSET Y
    BY <1>3, <2>1, ModelsWithin
  <2> HIDE DEF l, r, X, Y, zt
  <2>3. zt \in Joined(l[p[1]], r[p[2]]) <=> zt \cap X \in l[p[1]] /\ zt \cap Y \in r[p[2]]
    <3> DEFINE a == l[p[1]]
               b == r[p[2]]
    <3>1. a \subseteq SUBSET X /\ b \subseteq SUBSET Y /\ zt \subseteq X \cup Y /\ Apart2(X, Y)
      BY <1>1, <1>4, <2>2
    <3> HIDE DEF a, b
    <3>2. zt \in Joined(a, b) <=> zt \cap X \in a /\ zt \cap Y \in b
      BY <3>1, JoinedSplit
    <3> QED  BY <3>2 DEF a, b
  <2> QED  BY <1>4, <2>3 DEF Holds, X, Y, l, r
<1>6. Holds(levels, t, i, z) <=> \E p \in levels[t][i] : zt \in Joined(l[p[1]], r[p[2]])
  BY <1>2 DEF Holds, NodeModels
<1> QED  BY <1>5, <1>6

\* The same by a child and its sibling.
LEMMA SidesHold ==
  ASSUME NEW levels, InRange(levels), NEW t \in Internal, NEW c \in Children(t), NEW i \in DOMAIN levels[t], NEW z
  PROVE  Holds(levels, t, i, z) <=>
           \E p \in levels[t][i] : Holds(levels, c, p[Side(c)], z) /\ Holds(levels, Sibling(c), p[Side(Sibling(c))], z)
<1>1. Holds(levels, t, i, z) <=>
        \E p \in levels[t][i] : Holds(levels, Left[t], p[1], z) /\ Holds(levels, Right[t], p[2], z)
  BY NodeHolds
<1>2. c = Left[t] \/ c = Right[t]
  BY DEF Children
<1>3. CASE c = Left[t]
  <2>1. Sibling(c) = Right[t] /\ Side(c) = 1 /\ Side(Sibling(c)) = 2
    BY <1>3, SiblingOf
  <2> QED  BY <1>1, <1>3, <2>1
<1>4. CASE c = Right[t]
  <2>1. Sibling(c) = Left[t] /\ Side(c) = 2 /\ Side(Sibling(c)) = 1
    BY <1>4, SiblingOf
  <2> QED  BY <1>1, <1>4, <2>1
<1> QED  BY <1>2, <1>3, <1>4

\* A diagram's function by the assignments that satisfy its output.
LEMMA FnHolds ==
  ASSUME NEW d, Sound(d)
  PROVE  /\ Fn(d) \subseteq SUBSET Leaf
         /\ \A z \in SUBSET Leaf : z \in Fn(d) <=> d.out # Zero /\ Holds(d.levels, Root, d.out, z)
<1>1. Fn(d) = IF d.out = Zero THEN {} ELSE ModelsBelow(d.levels)[Root][d.out]
  BY FnIs
<1>2. Scope[Root] = Leaf
  BY RootScope
<1>3. ASSUME d.out # Zero PROVE ModelsBelow(d.levels)[Root][d.out] \subseteq SUBSET Scope[Root]
  <2>1. InRange(d.levels) /\ d.out \in Slots(d.levels, Root) /\ Root \in Vtree
    BY <1>3, SoundIs, RootIs, InternalIs DEF Slots, Vtree
  <2> QED  BY <2>1, ModelsWithin
<1>4. ASSUME NEW z \in SUBSET Leaf PROVE z \cap Scope[Root] = z
  BY <1>2
<1>5. Fn(d) \subseteq SUBSET Leaf
  BY <1>1, <1>2, <1>3
<1>6. ASSUME NEW z \in SUBSET Leaf
      PROVE  z \in Fn(d) <=> d.out # Zero /\ Holds(d.levels, Root, d.out, z)
  BY <1>1, <1>4 DEF Holds
<1> QED  BY <1>5, <1>6

\* Two diagrams whose outputs the same assignments satisfy.
LEMMA SameFn ==
  ASSUME NEW d, Sound(d), NEW e, Sound(e), d.out = e.out,
         d.out # Zero => \A z \in SUBSET Leaf : Holds(d.levels, Root, d.out, z) <=> Holds(e.levels, Root, e.out, z)
  PROVE  Fn(d) = Fn(e)
BY FnHolds

\* The nodes of a level are satisfied alike in two sets of levels.
Alike2(a, b, t, z) == \A i \in Slots(a, t) : Holds(a, t, i, z) <=> Holds(b, t, i, z)

\* Leaves are satisfied alike in any two diagrams.
LEMMA LeafAlike ==
  ASSUME NEW a, InRange(a), NEW b, InRange(b), NEW t \in Leaf, NEW z
  PROVE  Alike2(a, b, t, z)
<1>1. Slots(a, t) = {1, 2, 3}
  BY LeafSlots
<1> QED  BY <1>1, LeafHolds DEF Alike2

\* A level left as it was, over children satisfied alike, is satisfied alike.
LEMMA Untouched ==
  ASSUME NEW a, InRange(a), NEW b, InRange(b), NEW t \in Internal, a[t] = b[t], NEW z,
         Alike2(a, b, Left[t], z), Alike2(a, b, Right[t], z)
  PROVE  Alike2(a, b, t, z)
<1>1. Slots(a, t) = DOMAIN a[t]
  BY InternalIs DEF Slots
<1>2. ASSUME NEW i \in DOMAIN a[t] PROVE Holds(a, t, i, z) <=> Holds(b, t, i, z)
  <2>1. Holds(a, t, i, z) <=> \E p \in a[t][i] : Holds(a, Left[t], p[1], z) /\ Holds(a, Right[t], p[2], z)
    BY NodeHolds
  <2>2. Holds(b, t, i, z) <=> \E p \in a[t][i] : Holds(b, Left[t], p[1], z) /\ Holds(b, Right[t], p[2], z)
    BY NodeHolds
  <2>3. ASSUME NEW p \in a[t][i]
        PROVE  /\ Holds(a, Left[t], p[1], z) <=> Holds(b, Left[t], p[1], z)
               /\ Holds(a, Right[t], p[2], z) <=> Holds(b, Right[t], p[2], z)
    <3>1. p[1] \in Slots(a, Left[t]) /\ p[2] \in Slots(a, Right[t])
      BY PairIs
    <3> QED  BY <3>1 DEF Alike2
  <2> QED  BY <2>1, <2>2, <2>3
<1> QED  BY <1>1, <1>2 DEF Alike2

-------------------------------------------------------------------------------
(* Merging twins (reduce/contract). *)
\* After a merge a named node is satisfied when one it is united with was.
UnitedHold(levels, new, c, keeper, dropped, z) ==
  \A i \in DOMAIN levels[c] : Context(levels, c, i) # {} =>
    (Holds(new, c, Moved(keeper, dropped, i), z) <=> \E j \in DOMAIN levels[c] : keeper[j] = keeper[i] /\ Holds(levels, c, j, z))

\* What a keeper stands for: the nodes of a level named from the same places.
KeepsAlike(levels, c, keeper) ==
  /\ keeper \in [DOMAIN levels[c] -> DOMAIN levels[c]]
  /\ \A i \in DOMAIN levels[c] : /\ Context(levels, c, keeper[i]) = Context(levels, c, i)
                                 /\ keeper[keeper[i]] = keeper[i]
                                 /\ Context(levels, c, i) = {} => keeper[i] = i

\* The premises of the lemmas on one merge.
Merge(levels, new, c, keeper, dropped) ==
  /\ InRange(levels) /\ InRange(new) /\ \A t \in Internal \ {c} : DOMAIN new[t] = DOMAIN levels[t]
  /\ \A i \in DOMAIN levels[c] : Context(levels, c, i) # {} => Moved(keeper, dropped, i) \in DOMAIN new[c]
  /\ MergedAs(levels, new, c, keeper, dropped) /\ KeepsAlike(levels, c, keeper)

\* A keeper is satisfied where one of its group was.
LEMMA UnitedHolds ==
  ASSUME NEW levels, NEW new, NEW c \in Internal, c # Root, NEW keeper, NEW dropped,
         Merge(levels, new, c, keeper, dropped), NEW z,
         Alike2(levels, new, Left[c], z), Alike2(levels, new, Right[c], z)
  PROVE  UnitedHold(levels, new, c, keeper, dropped, z)
<1>0. InRange(levels) /\ InRange(new) /\ DOMAIN keeper = DOMAIN levels[c]
  BY DEF Merge, KeepsAlike
<1>1. SUFFICES ASSUME NEW i \in DOMAIN levels[c], Context(levels, c, i) # {}
               PROVE  Holds(new, c, Moved(keeper, dropped, i), z)
                        <=> \E j \in DOMAIN levels[c] : keeper[j] = keeper[i] /\ Holds(levels, c, j, z)
  BY DEF UnitedHold
<1> DEFINE m == Moved(keeper, dropped, i)
<1>2. new[c][m] = United(levels, c, keeper, keeper[i]) /\ m \in DOMAIN new[c]
  BY <1>1 DEF Merge, MergedAs
<1>3. \A p : p \in new[c][m] <=> \E j \in DOMAIN levels[c] : keeper[j] = keeper[i] /\ p \in levels[c][j]
  BY <1>0, <1>2 DEF United
<1> HIDE DEF m
<1>4. Holds(new, c, m, z) <=> \E p \in new[c][m] : Holds(new, Left[c], p[1], z) /\ Holds(new, Right[c], p[2], z)
  BY <1>0, <1>2, NodeHolds
<1>5. ASSUME NEW j \in DOMAIN levels[c]
      PROVE  Holds(levels, c, j, z) <=> \E p \in levels[c][j] : Holds(new, Left[c], p[1], z) /\ Holds(new, Right[c], p[2], z)
  <2>1. Holds(levels, c, j, z) <=> \E p \in levels[c][j] : Holds(levels, Left[c], p[1], z) /\ Holds(levels, Right[c], p[2], z)
    BY <1>0, NodeHolds
  <2>2. ASSUME NEW p \in levels[c][j]
        PROVE  /\ Holds(levels, Left[c], p[1], z) <=> Holds(new, Left[c], p[1], z)
               /\ Holds(levels, Right[c], p[2], z) <=> Holds(new, Right[c], p[2], z)
    <3>1. p[1] \in Slots(levels, Left[c]) /\ p[2] \in Slots(levels, Right[c])
      BY <1>0, PairIs
    <3> QED  BY <3>1 DEF Alike2
  <2> QED  BY <2>1, <2>2
<1>6. Holds(new, c, m, z) <=> \E j \in DOMAIN levels[c] : keeper[j] = keeper[i] /\ Holds(levels, c, j, z)
  BY <1>3, <1>4, <1>5
<1> QED  BY <1>6 DEF m

\* The parent, its pairs renamed to the keepers, is satisfied as it was: a
\* group is named from the same places.
LEMMA MergedParent ==
  ASSUME NEW levels, NEW new, NEW c \in Internal, c # Root, NEW keeper, NEW dropped,
         Merge(levels, new, c, keeper, dropped), NEW z,
         UnitedHold(levels, new, c, keeper, dropped, z), Alike2(levels, new, Sibling(c), z)
  PROVE  Alike2(levels, new, Parent[c], z)
<1> DEFINE p == Parent[c]
           s == Sibling(c)
<1>0. /\ p \in Internal /\ c \in Children(p) /\ s \in Children(p) /\ p # c /\ 3 - Side(c) = Side(s)
      /\ InRange(levels) /\ InRange(new) /\ DOMAIN new[p] = DOMAIN levels[p]
      /\ Slots(levels, p) = DOMAIN levels[p] /\ Slots(levels, c) = DOMAIN levels[c]
  BY AroundIs, InternalIs DEF Merge, Slots
<1>1. SUFFICES ASSUME NEW k \in DOMAIN levels[p] PROVE Holds(levels, p, k, z) <=> Holds(new, p, k, z)
  BY <1>0 DEF Alike2
<1>2. Holds(levels, p, k, z) <=> \E q \in levels[p][k] : Holds(levels, c, q[Side(c)], z) /\ Holds(levels, s, q[Side(s)], z)
  BY <1>0, SidesHold
<1>3. Holds(new, p, k, z) <=> \E q \in new[p][k] : Holds(new, c, q[Side(c)], z) /\ Holds(new, s, q[Side(s)], z)
  BY <1>0, SidesHold
<1>4. ASSUME NEW r \in levels[p][k]
      PROVE  /\ r[Side(c)] \in DOMAIN levels[c] /\ <<k, r[Side(s)]>> \in Context(levels, c, r[Side(c)])
             /\ Holds(levels, s, r[Side(s)], z) <=> Holds(new, s, r[Side(s)], z)
  <2>1. r[Side(c)] \in Slots(levels, c) /\ r[Side(s)] \in Slots(levels, s)
    BY <1>0, SidesIs
  <2>2. <<k, r[Side(s)]>> \in Context(levels, c, r[Side(c)])
    BY <1>0, ContextIs
  <2> QED  BY <1>0, <2>1, <2>2 DEF Alike2
<1>5. /\ \A q \in new[p][k] : \E r \in levels[p][k] : q[Side(c)] = Moved(keeper, dropped, r[Side(c)]) /\ q[Side(s)] = r[Side(s)]
      /\ \A r \in levels[p][k] : \E q \in new[p][k] : q[Side(c)] = Moved(keeper, dropped, r[Side(c)]) /\ q[Side(s)] = r[Side(s)]
  BY DEF Merge, MergedAs
<1> HIDE DEF p, s
<1>6. ASSUME Holds(levels, p, k, z) PROVE Holds(new, p, k, z)
  <2>1. PICK r \in levels[p][k] : Holds(levels, c, r[Side(c)], z) /\ Holds(levels, s, r[Side(s)], z)
    BY <1>2, <1>6
  <2>2. Holds(new, c, Moved(keeper, dropped, r[Side(c)]), z) /\ Holds(new, s, r[Side(s)], z)
    BY <1>4, <2>1 DEF UnitedHold
  <2>3. PICK q \in new[p][k] : q[Side(c)] = Moved(keeper, dropped, r[Side(c)]) /\ q[Side(s)] = r[Side(s)]
    BY <1>5
  <2> QED  BY <1>3, <2>2, <2>3
<1>7. ASSUME Holds(new, p, k, z) PROVE Holds(levels, p, k, z)
  <2>1. PICK q \in new[p][k] : Holds(new, c, q[Side(c)], z) /\ Holds(new, s, q[Side(s)], z)
    BY <1>3, <1>7
  <2>2. PICK r \in levels[p][k] : q[Side(c)] = Moved(keeper, dropped, r[Side(c)]) /\ q[Side(s)] = r[Side(s)]
    BY <1>5
  <2>3. Context(levels, c, r[Side(c)]) # {} /\ Holds(levels, s, r[Side(s)], z)
    BY <1>4, <2>1, <2>2
  <2>4. PICK j \in DOMAIN levels[c] : keeper[j] = keeper[r[Side(c)]] /\ Holds(levels, c, j, z)
    BY <1>4, <2>1, <2>2, <2>3 DEF UnitedHold
  <2>5. Context(levels, c, j) = Context(levels, c, r[Side(c)])
    BY <1>4, <2>4 DEF Merge, KeepsAlike
  <2>6. <<k, r[Side(s)]>> \in Context(levels, c, j)
    BY <1>4, <2>5
  <2>7. PICK l \in DOMAIN levels[p] : \E q3 \in levels[p][l] : q3[Side(c)] = j /\ <<k, r[Side(s)]>> = <<l, q3[3 - Side(c)]>>
    BY <2>6, ContextIs DEF p
  <2>8. PICK q3 \in levels[p][k] : q3[Side(c)] = j /\ q3[Side(s)] = r[Side(s)]
    BY <2>7, <1>0 DEF s
  <2> QED  BY <1>2, <2>3, <2>4, <2>8
<1> QED  BY <1>6, <1>7

\* A merge changes what no node above the merged level computes.
LEMMA MergeHolds ==
  ASSUME NEW levels, NEW new, NEW c \in Internal, c # Root, NEW keeper, NEW dropped,
         Merge(levels, new, c, keeper, dropped), NEW z, NEW t \in Vtree, t # c
  PROVE  Alike2(levels, new, t, z)
<1> DEFINE p == Parent[c]
           P == {u \in Vtree : IF u = c THEN UnitedHold(levels, new, c, keeper, dropped, z) ELSE Alike2(levels, new, u, z)}
<1>0. /\ InRange(levels) /\ InRange(new) /\ \A u \in Internal \ {c, p} : new[u] = levels[u]
  BY DEF Merge, MergedAs
<1>1. /\ Left[c] # c /\ Right[c] # c /\ p \in Internal /\ c \in Children(p) /\ Sibling(c) \in Children(p) /\ Sibling(c) # c
      /\ \A u \in Internal : u # p => Left[u] # c /\ Right[u] # c
  BY AroundIs
<1>2. Leaf \subseteq P
  <2>1. ASSUME NEW u \in Leaf PROVE u # c /\ Alike2(levels, new, u, z) /\ u \in Vtree
    BY <1>0, LeafAlike, InternalIs DEF Vtree
  <2> QED  BY <2>1
<1>3. ASSUME NEW u \in Internal, Left[u] \in P, Right[u] \in P PROVE u \in P
  <2>0. u \in Vtree
    BY DEF Vtree
  <2>1. CASE u = c
    <3>1. Alike2(levels, new, Left[c], z) /\ Alike2(levels, new, Right[c], z)
      BY <1>1, <1>3, <2>1
    <3>2. UnitedHold(levels, new, c, keeper, dropped, z)
      BY <3>1, UnitedHolds
    <3> QED  BY <2>0, <2>1, <3>2
  <2>2. CASE u = p
    <3>1. {Left[u], Right[u]} = {c, Sibling(c)}
      BY <1>1, <2>2 DEF Children
    <3>2. c \in P /\ Sibling(c) \in P
      BY <1>3, <3>1
    <3>3. UnitedHold(levels, new, c, keeper, dropped, z) /\ Alike2(levels, new, Sibling(c), z)
      BY <1>1, <3>2
    <3>4. Alike2(levels, new, Parent[c], z)
      BY <3>3, MergedParent
    <3>5. u # c
      BY <2>2, AroundIs
    <3> QED  BY <2>0, <2>2, <3>4, <3>5
  <2>3. CASE u \notin {c, p}
    <3>1. Left[u] # c /\ Right[u] # c
      BY <1>1, <2>3
    <3>2. Alike2(levels, new, Left[u], z) /\ Alike2(levels, new, Right[u], z)
      BY <1>3, <3>1
    <3>3. levels[u] = new[u]
      BY <1>0, <2>3
    <3>4. Alike2(levels, new, u, z)
      BY <1>0, <3>2, <3>3, Untouched
    <3> QED  BY <2>0, <2>3, <3>4
  <2> QED  BY <2>1, <2>2, <2>3
<1>4. t \in P
  <2> HIDE DEF P
  <2> QED  BY <1>2, <1>3, UpInduction
<1> QED  BY <1>4

\* A merge empties no node.
LEMMA MergeLive ==
  ASSUME NEW levels, NEW new, NEW c \in Internal, c # Root, NEW keeper, NEW dropped,
         Merge(levels, new, c, keeper, dropped), NodesLive(levels)
  PROVE  NodesLive(new)
<1> DEFINE p == Parent[c]
<1>1. SUFFICES ASSUME NEW t \in Internal, NEW k \in DOMAIN new[t] PROVE new[t][k] # {}
  BY DEF NodesLive
<1>2. CASE t = c
  <2>1. PICK i \in DOMAIN levels[c] : keeper[i] = i /\ new[c][k] = United(levels, c, keeper, i)
    BY <1>2 DEF Merge, MergedAs
  <2>2. PICK q : q \in levels[c][i]
    BY DEF NodesLive
  <2>3. DOMAIN keeper = DOMAIN levels[c]
    BY DEF Merge, KeepsAlike
  <2>4. q \in United(levels, c, keeper, i)
    BY <2>1, <2>2, <2>3 DEF United
  <2> QED  BY <1>2, <2>1, <2>4
<1>3. CASE t = p /\ t # c
  <2>1. k \in DOMAIN levels[p]
    BY <1>3 DEF Merge
  <2>2. PICK r : r \in levels[p][k]
    BY <1>3, <2>1 DEF NodesLive
  <2>3. \E q \in new[p][k] : TRUE
    BY <2>1, <2>2 DEF Merge, MergedAs
  <2> QED  BY <1>3, <2>3
<1>4. CASE t \notin {c, p}
  <2>1. new[t] = levels[t]
    BY <1>4 DEF Merge, MergedAs
  <2> QED  BY <2>1 DEF NodesLive
<1> QED  BY <1>2, <1>3, <1>4

\* Merging twins changes no function and leaves no empty node.
LEMMA ContractChildFn ==
  ASSUME NEW d, Sound(d), NEW c \in Internal, c # Root, NEW among, among \subseteq DOMAIN d.levels[c],
         NEW finding, finding.dropped \subseteq Unnamed(d.levels, c)
  PROVE  LET made == ContractChild(d, c, among, finding)
         IN  Fn(made) = Fn(d) /\ (NodesLive(d.levels) => NodesLive(made.levels))
<1> DEFINE made == ContractChild(d, c, among, finding)
           levels == d.levels
           dropped == finding.dropped
           new == MergedLevels(levels, c, among, dropped)
           keeper == Keeper(levels, c, among)
<1>0. SUFFICES Fn(made) = Fn(d) /\ (NodesLive(d.levels) => NodesLive(made.levels))
  OBVIOUS
<1>1. /\ Sound(made) /\ made.out = d.out
      /\ made.levels = d.levels \/ made.levels = MergedLevels(d.levels, c, among, finding.dropped)
  <2> HIDE DEF made
  <2>1. LET it == ContractChild(d, c, among, finding)
        IN  /\ Sound(it) /\ it.out = d.out
            /\ \A t \in Internal \ {c} : DOMAIN it.levels[t] = DOMAIN d.levels[t]
            /\ \/ it.levels = d.levels /\ ~HasTwins(d.levels, c, among) /\ finding.dropped = {}
               \/ \A i \in DOMAIN d.levels[c] : Context(d.levels, c, i) # {} =>
                    Moved(Keeper(d.levels, c, among), finding.dropped, i) \in DOMAIN it.levels[c]
            /\ it.levels = d.levels \/ it.levels = MergedLevels(d.levels, c, among, finding.dropped)
    BY ContractChildSound
  <2> QED  BY <2>1 DEF made
<1>2. InRange(levels) /\ Deterministic(levels) /\ among \subseteq DOMAIN levels[c] /\ dropped \subseteq Unnamed(levels, c)
  BY SoundIs
<1> HIDE DEF made
<1>3. CASE made.levels = d.levels
  BY <1>1, <1>3, FnOf
<1>4. CASE made.levels = new
  <2>1. Merge(levels, new, c, keeper, dropped)
    <3> HIDE DEF levels, dropped
    <3>1. LET it == MergedLevels(levels, c, among, dropped)
          IN  /\ InRange(it) /\ Deterministic(it)
              /\ \A t \in Internal \ {c} : DOMAIN it[t] = DOMAIN levels[t]
              /\ \A i \in DOMAIN levels[c] : Context(levels, c, i) # {} =>
                   Moved(Keeper(levels, c, among), dropped, i) \in DOMAIN it[c]
              /\ MergedAs(levels, it, c, Keeper(levels, c, among), dropped)
      BY <1>2, MergedSound
    <3>2. KeepsAlike(levels, c, keeper)
      BY <1>2, KeeperIs DEF KeepsAlike
    <3> HIDE DEF new, keeper
    <3>3. /\ InRange(new) /\ \A t \in Internal \ {c} : DOMAIN new[t] = DOMAIN levels[t]
          /\ \A i \in DOMAIN levels[c] : Context(levels, c, i) # {} => Moved(keeper, dropped, i) \in DOMAIN new[c]
          /\ MergedAs(levels, new, c, keeper, dropped)
      BY <3>1 DEF new, keeper
    <3> QED  BY <1>2, <3>2, <3>3 DEF Merge
  <2>2. ASSUME d.out # Zero, NEW z \in SUBSET Leaf
        PROVE  Holds(d.levels, Root, d.out, z) <=> Holds(made.levels, Root, made.out, z)
    <3>1. d.out \in Slots(levels, Root) /\ Root \in Vtree
      BY <2>2, SoundIs, RootIs, InternalIs DEF Slots, Vtree
    <3>2. Alike2(levels, new, Root, z)
      <4> HIDE DEF levels, new, keeper, dropped
      <4> QED  BY <2>1, <3>1, MergeHolds
    <3> HIDE DEF new
    <3> QED  BY <1>1, <1>4, <3>1, <3>2 DEF Alike2
  <2>3. Fn(made) = Fn(d)
    <3> HIDE DEF levels, new, keeper, dropped
    <3> QED  BY <1>1, <2>2, SameFn
  <2>4. NodesLive(levels) => NodesLive(new)
    <3> HIDE DEF levels, new, keeper, dropped
    <3> QED  BY <2>1, MergeLive
  <2> HIDE DEF new
  <2> QED  BY <1>4, <2>3, <2>4
<1> HIDE DEF new, keeper
<1>5. made.levels = d.levels \/ made.levels = new
  BY <1>1 DEF new
<1> QED  BY <1>3, <1>4, <1>5

-------------------------------------------------------------------------------
(* Contracting a leaf (contract_leaf.rs). *)
\* A level rewritten so that its nodes are satisfied as before where those
\* below it are.
Rewritten(a, b, t, z) ==
  /\ InRange(a) /\ InRange(b) /\ \A u \in Internal \ {t} : a[u] = b[u]
  /\ Alike2(a, b, Left[t], z) /\ Alike2(a, b, Right[t], z) => Alike2(a, b, t, z)

\* Rewriting one level leaves every node satisfied as it was.
LEMMA RewrittenHolds ==
  ASSUME NEW a, NEW b, NEW t \in Internal, NEW z, Rewritten(a, b, t, z), NEW u \in Vtree
  PROVE  Alike2(a, b, u, z)
<1> DEFINE P == {v \in Vtree : Alike2(a, b, v, z)}
<1>0. InRange(a) /\ InRange(b) /\ \A v \in Internal \ {t} : a[v] = b[v]
  BY DEF Rewritten
<1>1. Leaf \subseteq P
  BY <1>0, LeafAlike DEF Vtree
<1>2. ASSUME NEW v \in Internal, Left[v] \in P, Right[v] \in P PROVE v \in P
  <2>1. Alike2(a, b, Left[v], z) /\ Alike2(a, b, Right[v], z) /\ v \in Vtree
    BY <1>2 DEF Vtree
  <2>2. CASE v = t
    BY <2>1, <2>2 DEF Rewritten
  <2>3. CASE v # t
    BY <1>0, <2>1, <2>3, Untouched
  <2> QED  BY <2>2, <2>3
<1>3. u \in P
  <2> HIDE DEF P
  <2> QED  BY <1>1, <1>2, UpInduction
<1> QED  BY <1>3

\* Diagrams that differ in a level rewritten so compute the same.
LEMMA RewrittenFn ==
  ASSUME NEW d, Sound(d), NEW e, Sound(e), d.out = e.out, NEW t \in Internal,
         \A z \in SUBSET Leaf : Rewritten(d.levels, e.levels, t, z)
  PROVE  Fn(d) = Fn(e)
<1>1. ASSUME d.out # Zero, NEW z \in SUBSET Leaf
      PROVE  Holds(d.levels, Root, d.out, z) <=> Holds(e.levels, Root, e.out, z)
  <2>1. d.out \in Slots(d.levels, Root) /\ Root \in Vtree
    BY <1>1, SoundIs, RootIs, InternalIs DEF Slots, Vtree
  <2>2. Alike2(d.levels, e.levels, Root, z)
    BY <2>1, RewrittenHolds
  <2> QED  BY <2>1, <2>2 DEF Alike2
<1> QED  BY <1>1, SameFn

\* A level that names the leaf c as One where a node admits it.
AsOne(level, c) == [k \in DOMAIN level |-> {Renamed(pair, c, One) : pair \in level[k]}]

\* Naming a leaf by one node where both its polarities have the same partners
\* changes nothing.
LEMMA AsOneRewritten ==
  ASSUME NEW a, InRange(a), NEW b, InRange(b), NEW t \in Internal, NEW c \in Children(t), c \in Leaf,
         \A u \in Internal \ {t} : a[u] = b[u], b[t] = AsOne(a[t], c),
         \A k \in DOMAIN a[t] : Admits(a[t][k], c), NEW z
  PROVE  Rewritten(a, b, t, z)
<1> DEFINE s == Sibling(c)
<1>0. /\ Slots(a, t) = DOMAIN a[t] /\ DOMAIN b[t] = DOMAIN a[t] /\ s \in Children(t) /\ 3 - Side(c) = Side(s)
  <2>1. c = Left[t] \/ c = Right[t]
    BY DEF Children
  <2> QED  BY <2>1, InternalIs, SiblingOf DEF Slots, AsOne
<1>1. SUFFICES ASSUME Alike2(a, b, Left[t], z), Alike2(a, b, Right[t], z), NEW k \in DOMAIN a[t]
               PROVE  Holds(a, t, k, z) <=> Holds(b, t, k, z)
  BY <1>0 DEF Rewritten, Alike2
<1>2. Alike2(a, b, s, z)
  BY <1>0, <1>1 DEF Children
<1>3. Holds(a, t, k, z) <=> \E p \in a[t][k] : Holds(a, c, p[Side(c)], z) /\ Holds(a, s, p[Side(s)], z)
  BY SidesHold
<1>4. Holds(b, t, k, z) <=> \E p \in b[t][k] : Holds(b, c, p[Side(c)], z) /\ Holds(b, s, p[Side(s)], z)
  BY <1>0, SidesHold
<1>5. b[t][k] = {Renamed(pair, c, One) : pair \in a[t][k]}
  BY DEF AsOne
<1>6. ASSUME NEW p \in a[t][k]
      PROVE  /\ Renamed(p, c, One)[Side(c)] = 3 /\ Renamed(p, c, One)[Side(s)] = p[Side(s)]
             /\ p[Side(c)] \in {1, 2, 3}
             /\ Holds(a, s, p[Side(s)], z) <=> Holds(b, s, p[Side(s)], z)
  <2>1. LET q == Renamed(p, c, One)
        IN  /\ q = <<q[1], q[2]>>
            /\ q[Side(c)] = One /\ q[Side(Sibling(c))] = p[Side(Sibling(c))]
    BY RenamedIs
  <2>2. p[Side(c)] \in {1, 2, 3} /\ p[Side(s)] \in Slots(a, s)
    BY SidesIs, LeafSlots
  <2> QED  BY <1>2, <2>1, <2>2 DEF Alike2, One
<1>7. \A ref : Partners(a[t][k], c, ref) = {p[Side(s)] : p \in {x \in a[t][k] : x[Side(c)] = ref}}
  BY <1>0 DEF Partners
<1> HIDE DEF s
<1>8. Holds(b, t, k, z) <=> \E p \in a[t][k] : Holds(b, s, p[Side(s)], z)
  <2>1. Holds(b, c, 3, z)
    BY LeafHolds
  <2>2. \A q \in b[t][k] : \E p \in a[t][k] : q = Renamed(p, c, One)
    BY <1>5
  <2>3. \A p \in a[t][k] : Renamed(p, c, One) \in b[t][k]
    BY <1>5
  <2> QED  BY <1>4, <1>6, <2>1, <2>2, <2>3
<1>9. ASSUME NEW p \in a[t][k], Holds(a, s, p[Side(s)], z) PROVE Holds(a, t, k, z)
  <2>1. CASE p[Side(c)] = 3
    <3>1. Holds(a, c, 3, z)
      BY LeafHolds
    <3> QED  BY <1>3, <1>9, <2>1, <3>1
  <2>2. CASE p[Side(c)] # 3
    <3>1. p[Side(c)] \in {1, 2} /\ p[Side(s)] \in Partners(a[t][k], c, p[Side(c)])
      BY <1>6, <1>7, <2>2
    <3>2. Partners(a[t][k], c, 1) = Partners(a[t][k], c, 2)
      BY <3>1 DEF Admits, Pos, Neg
    <3>3. \A ref \in {1, 2} : \E q \in a[t][k] : q[Side(c)] = ref /\ q[Side(s)] = p[Side(s)]
      BY <1>7, <3>1, <3>2
    <3>4. (c \in z => Holds(a, c, 1, z)) /\ (c \notin z => Holds(a, c, 2, z))
      BY LeafHolds
    <3>5. \E ref \in {1, 2} : Holds(a, c, ref, z)
      BY <3>4
    <3> QED  BY <1>3, <1>9, <3>3, <3>5
  <2> QED  BY <2>1, <2>2
<1> QED  BY <1>3, <1>6, <1>8, <1>9

\* Naming a leaf as One changes no function and leaves no empty node.
LEMMA ContractLeafFn ==
  ASSUME NEW d, Sound(d), NEW t \in Internal, NEW c \in Children(t), c \in Leaf
  PROVE  Fn(ContractLeaf(d, c)) = Fn(d) /\ (NodesLive(d.levels) => NodesLive(ContractLeaf(d, c).levels))
<1> DEFINE made == ContractLeaf(d, c)
           node == AsOne(d.levels[t], c)
<1>0. Parent[c] = t
  BY ParentOf
<1>1. made = IF LeafTwins(d.levels, c) THEN Releveled(d, t, node) ELSE d
  BY <1>0 DEF ContractLeaf, Releveled, AsOne
<1>2. Sound(made) /\ made.out = d.out
  BY ContractLeafSound
<1> HIDE DEF node
<1>3. CASE LeafTwins(d.levels, c)
  <2>1. d = Diagram(d.levels, d.out, d.contract, d.leaves, d.loose, d.certified) /\ InRange(d.levels) /\ DOMAIN d.levels = Internal
    BY SoundIs DEF InRange
  <2>2. Releveled(d, t, node) = Diagram([d.levels EXCEPT ![t] = node], d.out, d.contract \cup {t}, d.leaves \cup {t}, Unknown, FALSE)
    BY <2>1, ReleveledIs
  <2>3. Releveled(d, t, node).levels = [d.levels EXCEPT ![t] = node]
    BY <2>2 DEF Diagram
  <2>4. made.levels[t] = node /\ \A u \in Internal \ {t} : d.levels[u] = made.levels[u]
    BY <1>1, <1>3, <2>1, <2>3
  <2>5. \A k \in DOMAIN d.levels[t] : Admits(d.levels[t][k], c)
    BY <1>0, <1>3 DEF LeafTwins
  <2>6. InRange(made.levels)
    BY <1>2, SoundIs
  <2> HIDE DEF made
  <2>7. ASSUME NEW z \in SUBSET Leaf PROVE Rewritten(d.levels, made.levels, t, z)
    <3> DEFINE a == d.levels
               b == made.levels
    <3>1. InRange(a) /\ InRange(b) /\ (\A u \in Internal \ {t} : a[u] = b[u]) /\ b[t] = AsOne(a[t], c)
          /\ \A k \in DOMAIN a[t] : Admits(a[t][k], c)
      BY <2>1, <2>4, <2>5, <2>6 DEF node
    <3> HIDE DEF a, b
    <3>2. Rewritten(a, b, t, z)
      BY <3>1, AsOneRewritten
    <3> QED  BY <3>2 DEF a, b
  <2>8. Fn(made) = Fn(d)
    BY <1>2, <2>7, RewrittenFn
  <2>9. ASSUME NodesLive(d.levels), NEW u \in Internal, NEW k \in DOMAIN made.levels[u] PROVE made.levels[u][k] # {}
    <3>1. CASE u = t
      <4>1. k \in DOMAIN d.levels[t] /\ made.levels[t][k] = {Renamed(pair, c, One) : pair \in d.levels[t][k]}
        BY <2>4, <2>9, <3>1 DEF node, AsOne
      <4>2. d.levels[t][k] # {}
        BY <2>9, <4>1 DEF NodesLive
      <4> QED  BY <3>1, <4>1, <4>2
    <3>2. CASE u # t
      BY <2>4, <2>9, <3>2 DEF NodesLive
    <3> QED  BY <3>1, <3>2
  <2>10. NodesLive(d.levels) => NodesLive(made.levels)
    BY <2>9 DEF NodesLive
  <2> QED  BY <2>8, <2>10 DEF made
<1>4. CASE ~LeafTwins(d.levels, c)
  BY <1>1, <1>4
<1> QED  BY <1>3, <1>4

\* Both leaves of one level (contract_leaf_level).
LEMMA ContractLeafSidesFn ==
  ASSUME NEW d, Sound(d), NEW t \in Internal
  PROVE  Fn(ContractLeafSides(d, t)) = Fn(d) /\ (NodesLive(d.levels) => NodesLive(ContractLeafSides(d, t).levels))
<1> DEFINE left == IF Left[t] \in Leaf THEN ContractLeaf(d, Left[t]) ELSE d
<1>0. Left[t] \in Children(t) /\ Right[t] \in Children(t)
  BY DEF Children
<1>1. Sound(left) /\ Fn(left) = Fn(d) /\ (NodesLive(d.levels) => NodesLive(left.levels))
  BY <1>0, ContractLeafSound, ContractLeafFn
<1>2. ContractLeafSides(d, t) = IF Right[t] \in Leaf THEN ContractLeaf(left, Right[t]) ELSE left
  BY DEF ContractLeafSides
<1> HIDE DEF left
<1>3. CASE Right[t] \in Leaf
  BY <1>0, <1>1, <1>2, <1>3, ContractLeafFn
<1> QED  BY <1>1, <1>2, <1>3

-------------------------------------------------------------------------------
(* Conjunction (apply/conjoin). *)
\* Every use the level above makes of t is satisfied.
FullOver(d, t, z) ==
  t # Root => \A k \in DOMAIN d.levels[Parent[t]] : \A q \in d.levels[Parent[t]][k] : Holds(d.levels, t, q[Side(t)], z)

\* What a sweep's values at t mean: products are conjunctions, and an operand
\* taken for constant true over t is satisfied there.
Means(f, g, swept, t, z) ==
  LET W == SweptLevels(swept)
      at == swept[t].at
  IN  /\ \A i \in Slots(f.levels, t), j \in Slots(g.levels, t) :
           at[<<i, j>>] # 0 /\ Holds(W, t, at[<<i, j>>], z) <=> Holds(f.levels, t, i, z) /\ Holds(g.levels, t, j, z)
      /\ swept[t].gIs => Alike2(f.levels, W, t, z) /\ FullOver(g, t, z)
      /\ swept[t].fIs => Alike2(g.levels, W, t, z) /\ FullOver(f, t, z)

\* A leaf no pair names by a polarity is satisfied wherever it is named.
LEMMA IdentityFull ==
  ASSUME NEW d, Sound(d), NEW t \in Leaf, LeafIdentity(d, t), NEW z
  PROVE  FullOver(d, t, z)
<1> DEFINE p == Parent[t]
<1>1. SUFFICES ASSUME t # Root, NEW k \in DOMAIN d.levels[p], NEW q \in d.levels[p][k]
               PROVE  Holds(d.levels, t, q[Side(t)], z)
  BY DEF FullOver
<1>2. p \in Internal /\ t \in Children(p) /\ InRange(d.levels)
  BY <1>1, HasParent, SoundIs DEF Vtree
<1>3. q[Side(t)] \in {1, 2, 3}
  BY <1>2, SidesIs, LeafSlots
<1>4. q[Side(t)] \in Named(d.levels, t)
  BY DEF Named, PairsAt, PairsOf
<1>5. q[Side(t)] = 3
  BY <1>3, <1>4 DEF LeafIdentity, Pos, Neg
<1> QED  BY <1>2, <1>5, LeafHolds

\* The leaves' table of products (leaf level of the sweep).
LEMMA MeansLeaf ==
  ASSUME NEW f, Sound(f), NEW g, Sound(g), f.out # Zero, g.out # Zero, NEW t \in Leaf, NEW z
  PROVE  Means(f, g, Sweep(f, g, {}), t, z)
<1> DEFINE swept == Sweep(f, g, {})
           W == SweptLevels(swept)
<1>1. swept[t] = SweptLeaf(f, g, t)
  BY SweepIs
<1>2. /\ Slots(f.levels, t) = {1, 2, 3} /\ Slots(g.levels, t) = {1, 2, 3}
      /\ InRange(f.levels) /\ InRange(g.levels) /\ InRange(W)
  BY LeafSlots, SoundIs, SweepSound
<1>3. \A i, j \in {1, 2, 3} : swept[t].at[<<i, j>>] = LeafProduct(i, j)
  BY <1>1 DEF SweptLeaf, Pos, Neg, One
<1>4. (swept[t].fIs <=> LeafIdentity(f, t)) /\ (swept[t].gIs <=> LeafIdentity(g, t))
  <2>1. swept[t].fIs = LeafIdentity(f, t) /\ swept[t].gIs = LeafIdentity(g, t)
    BY <1>1 DEF SweptLeaf
  <2> HIDE DEF swept
  <2> QED  BY <2>1
<1>5. ASSUME NEW i \in {1, 2, 3}, NEW j \in {1, 2, 3}
      PROVE  LeafProduct(i, j) # 0 /\ Holds(W, t, LeafProduct(i, j), z) <=> Holds(f.levels, t, i, z) /\ Holds(g.levels, t, j, z)
  <2> HIDE DEF W
  <2>1. \A h \in {1, 2, 3} : /\ Holds(W, t, h, z) <=> (h = 1 /\ t \in z) \/ (h = 2 /\ t \notin z) \/ h = 3
                             /\ Holds(f.levels, t, h, z) <=> (h = 1 /\ t \in z) \/ (h = 2 /\ t \notin z) \/ h = 3
                             /\ Holds(g.levels, t, h, z) <=> (h = 1 /\ t \in z) \/ (h = 2 /\ t \notin z) \/ h = 3
    BY <1>2, LeafHolds
  <2>2. LeafProduct(i, j) = IF i = 3 THEN j ELSE IF j = 3 \/ i = j THEN i ELSE 0
    BY DEF LeafProduct, One
  <2>3. CASE i = 3
    BY <2>1, <2>2, <2>3
  <2>4. CASE i # 3 /\ (j = 3 \/ i = j)
    BY <2>1, <2>2, <2>4
  <2>5. CASE i # 3 /\ j # 3 /\ i # j
    <3>1. LeafProduct(i, j) = 0
      BY <2>2, <2>5
    <3>2. ~(Holds(f.levels, t, i, z) /\ Holds(g.levels, t, j, z))
      BY <2>1, <2>5
    <3> QED  BY <3>1, <3>2
  <2> QED  BY <2>3, <2>4, <2>5
<1>6. Alike2(f.levels, W, t, z) /\ Alike2(g.levels, W, t, z)
  <2> HIDE DEF W
  <2> QED  BY <1>2, LeafAlike
<1>7. LeafIdentity(f, t) => FullOver(f, t, z)
  BY IdentityFull
<1>8. LeafIdentity(g, t) => FullOver(g, t, z)
  BY IdentityFull
<1> HIDE DEF swept
<1> QED  BY <1>2, <1>3, <1>4, <1>5, <1>6, <1>7, <1>8 DEF Means, swept

\* A level swept over its children, by the three ways it is made.
CarriedFirst(f, g, swept, t) ==
  /\ swept[t].gIs /\ swept[t].level = f.levels[t]
  /\ IdentityLevel(g.levels[t], swept[Left[t]].gIs, swept[Right[t]].gIs)
  /\ swept[t].fIs => IdentityLevel(f.levels[t], swept[Left[t]].fIs, swept[Right[t]].fIs)
  /\ \A i \in DOMAIN f.levels[t], j \in DOMAIN g.levels[t] : swept[t].at[<<i, j>>] = i
CarriedSecond(f, g, swept, t) ==
  /\ ~swept[t].gIs /\ swept[t].level = g.levels[t]
  /\ IdentityLevel(f.levels[t], swept[Left[t]].fIs, swept[Right[t]].fIs)
  /\ \A i \in DOMAIN f.levels[t], j \in DOMAIN g.levels[t] : swept[t].at[<<i, j>>] = j
BuiltAs(f, g, swept, t) ==
  LET met(i, j) == ProductPairs(swept[Left[t]].at, swept[Right[t]].at, f.levels[t][i], g.levels[t][j])
      at == swept[t].at
      level == swept[t].level
  IN  /\ ~swept[t].fIs /\ ~swept[t].gIs
      /\ \A i \in DOMAIN f.levels[t], j \in DOMAIN g.levels[t] :
           IF at[<<i, j>>] = 0 THEN met(i, j) = {}
           ELSE at[<<i, j>>] \in DOMAIN level /\ level[at[<<i, j>>]] = met(i, j)
      /\ \A k \in DOMAIN level : level[k] # {}

\* Every level is made in one of them.
LEMMA SweptAs ==
  ASSUME NEW f, Sound(f), NEW g, Sound(g), NEW t \in Internal
  PROVE  LET swept == Sweep(f, g, {})
         IN  CarriedFirst(f, g, swept, t) \/ CarriedSecond(f, g, swept, t) \/ BuiltAs(f, g, swept, t)
<1> DEFINE swept == Sweep(f, g, {})
           F == f.levels[t]
           G == g.levels[t]
           l == swept[Left[t]]
           r == swept[Right[t]]
           grid == (DOMAIN F) \X (DOMAIN G)
           pairs == [ij \in grid |-> ProductPairs(l.at, r.at, F[ij[1]], G[ij[2]])]
           fTrue == IdentityLevel(F, l.fIs, r.fIs)
           gTrue == IdentityLevel(G, l.gIs, r.gIs)
           yes == TRUE
           no == FALSE
<1>1. Len(F) \in Nat /\ Len(G) \in Nat /\ DOMAIN F = 1 .. Len(F) /\ DOMAIN G = 1 .. Len(G)
  BY SoundIs, LevelIs
<1>2. swept[t] = SweptLevel(f, g, {}, t, l, r)
  BY SweepIs
<1>3. swept[t] = IF gTrue THEN [fIs |-> fTrue, gIs |-> yes, carrier |-> 1, level |-> F,
                                at |-> [ij \in grid |-> ij[1]]]
                 ELSE IF fTrue THEN [fIs |-> yes, gIs |-> no, carrier |-> 2, level |-> G,
                                     at |-> [ij \in grid |-> ij[2]]]
                 ELSE BuiltLevel(F, G, pairs)
  <2>1. Table(pairs) = pairs
    BY TableIs
  <2> QED  BY <1>2, <2>1 DEF SweptLevel
<1>4. yes = TRUE /\ no = FALSE
  OBVIOUS
<1>5. CASE gTrue
  <2>1. swept[t].gIs = yes /\ swept[t].fIs = fTrue /\ swept[t].level = F /\ swept[t].at = [ij \in grid |-> ij[1]]
    <3> HIDE DEF swept, fTrue, yes, F, grid
    <3> QED  BY <1>3, <1>5
  <2>2. \A i \in DOMAIN F, j \in DOMAIN G : swept[t].at[<<i, j>>] = i
    <3> HIDE DEF swept, F, G
    <3> QED  BY <2>1
  <2>3. swept[t].gIs /\ (swept[t].fIs => fTrue)
    <3> HIDE DEF swept, fTrue, yes
    <3> QED  BY <1>4, <2>1
  <2>4. CarriedFirst(f, g, swept, t)
    <3> HIDE DEF swept
    <3> QED  BY <1>5, <2>1, <2>2, <2>3 DEF CarriedFirst
  <2> QED  BY <2>4
<1>6. CASE ~gTrue /\ fTrue
  <2>1. swept[t].gIs = no /\ swept[t].level = G /\ swept[t].at = [ij \in grid |-> ij[2]]
    <3>1. swept[t] = [fIs |-> yes, gIs |-> no, carrier |-> 2, level |-> G, at |-> [ij \in grid |-> ij[2]]]
      BY <1>3, <1>6
    <3> HIDE DEF swept, yes, no, G, grid
    <3> QED  BY <3>1
  <2>2. \A i \in DOMAIN F, j \in DOMAIN G : swept[t].at[<<i, j>>] = j
    <3> HIDE DEF swept, F, G
    <3> QED  BY <2>1
  <2>3. ~swept[t].gIs
    <3> HIDE DEF swept, no
    <3> QED  BY <1>4, <2>1
  <2>4. CarriedSecond(f, g, swept, t)
    <3> HIDE DEF swept
    <3> QED  BY <1>6, <2>1, <2>2, <2>3 DEF CarriedSecond
  <2> QED  BY <2>4
<1>7. CASE ~gTrue /\ ~fTrue
  <2>1. swept[t] = BuiltLevel(F, G, pairs)
    BY <1>3, <1>7
  <2>2. OnGrid(pairs, F, G)
    BY DEF OnGrid
  <2>3. \A i \in DOMAIN F, j \in DOMAIN G : pairs[<<i, j>>] = ProductPairs(l.at, r.at, F[i], G[j])
    <3> HIDE DEF l, r, F, G
    <3> QED  OBVIOUS
  <2> HIDE DEF pairs
  <2>4. /\ ~swept[t].fIs /\ ~swept[t].gIs
        /\ IsSequence(swept[t].level)
        /\ \A k \in DOMAIN swept[t].level : \E i \in DOMAIN F, j \in DOMAIN G :
             swept[t].level[k] = pairs[<<i, j>>] /\ swept[t].at[<<i, j>>] = k
        /\ \A i \in DOMAIN F, j \in DOMAIN G : swept[t].at[<<i, j>>] \in {0} \cup DOMAIN swept[t].level
        /\ \A i, a \in DOMAIN F, j, b \in DOMAIN G :
             swept[t].at[<<i, j>>] = swept[t].at[<<a, b>>] /\ swept[t].at[<<i, j>>] # 0 => i = a /\ j = b
        /\ \A i \in DOMAIN F, j \in DOMAIN G : swept[t].at[<<i, j>>] = 0 <=> pairs[<<i, j>>] = {}
    <3> DEFINE made == BuiltLevel(F, G, pairs)
    <3>1. Numbered(F) /\ Numbered(G)
      BY <1>1 DEF Numbered
    <3> HIDE DEF F, G, swept
    <3>2. /\ ~made.fIs /\ ~made.gIs
          /\ IsSequence(made.level)
          /\ \A k \in DOMAIN made.level : \E i \in DOMAIN F, j \in DOMAIN G :
               made.level[k] = pairs[<<i, j>>] /\ made.at[<<i, j>>] = k
          /\ \A i \in DOMAIN F, j \in DOMAIN G : made.at[<<i, j>>] \in {0} \cup DOMAIN made.level
          /\ \A i, a \in DOMAIN F, j, b \in DOMAIN G :
               made.at[<<i, j>>] = made.at[<<a, b>>] /\ made.at[<<i, j>>] # 0 => i = a /\ j = b
          /\ \A i \in DOMAIN F, j \in DOMAIN G : made.at[<<i, j>>] = 0 <=> pairs[<<i, j>>] = {}
      BY <3>1, <2>2, BuiltLevelIs
    <3> QED  BY <2>1, <3>2
  <2> HIDE DEF swept, F, G, l, r
  <2>5. \A k \in DOMAIN swept[t].level : k # 0
    BY <2>4 DEF IsSequence
  <2>6. ASSUME NEW i \in DOMAIN F, NEW j \in DOMAIN G
        PROVE  IF swept[t].at[<<i, j>>] = 0 THEN ProductPairs(l.at, r.at, F[i], G[j]) = {}
               ELSE /\ swept[t].at[<<i, j>>] \in DOMAIN swept[t].level
                    /\ swept[t].level[swept[t].at[<<i, j>>]] = ProductPairs(l.at, r.at, F[i], G[j])
    <3>1. CASE swept[t].at[<<i, j>>] = 0
      BY <2>3, <2>4, <3>1
    <3>2. CASE swept[t].at[<<i, j>>] # 0
      <4>1. swept[t].at[<<i, j>>] \in DOMAIN swept[t].level
        BY <2>4, <3>2
      <4>2. PICK a \in DOMAIN F, b \in DOMAIN G :
              swept[t].level[swept[t].at[<<i, j>>]] = pairs[<<a, b>>] /\ swept[t].at[<<a, b>>] = swept[t].at[<<i, j>>]
        BY <2>4, <4>1
      <4>3. a = i /\ b = j
        BY <2>4, <3>2, <4>2
      <4> QED  BY <2>3, <3>2, <4>1, <4>2, <4>3
    <3> QED  BY <3>1, <3>2
  <2>7. ASSUME NEW k \in DOMAIN swept[t].level PROVE swept[t].level[k] # {}
    <3>1. PICK i \in DOMAIN F, j \in DOMAIN G : swept[t].level[k] = pairs[<<i, j>>] /\ swept[t].at[<<i, j>>] = k
      BY <2>4
    <3> QED  BY <2>4, <2>5, <3>1
  <2>8. BuiltAs(f, g, swept, t)
    BY <2>4, <2>6, <2>7 DEF BuiltAs, F, G, l, r
  <2> QED  BY <2>8 DEF swept
<1> QED  BY <1>5, <1>6, <1>7

\* A single node over children the operand is taken for true over is satisfied
\* wherever it is used.
LEMMA IdentityHolds ==
  ASSUME NEW d, Sound(d), NodesLive(d.levels), NEW t \in Internal, NEW l, NEW r,
         IdentityLevel(d.levels[t], l, r), NEW z,
         l => FullOver(d, Left[t], z), r => FullOver(d, Right[t], z)
  PROVE  Slots(d.levels, t) = {1} /\ Holds(d.levels, t, 1, z) /\ FullOver(d, t, z)
<1>1. InRange(d.levels) /\ DOMAIN d.levels[t] = 1 .. Len(d.levels[t]) /\ Slots(d.levels, t) = 1 .. Len(d.levels[t])
  BY SoundIs, LevelIs
<1>2. Len(d.levels[t]) = 1 /\ l /\ r
  BY DEF IdentityLevel
<1>3. DOMAIN d.levels[t] = {1} /\ Slots(d.levels, t) = {1}
  BY <1>1, <1>2
<1>4. PICK p \in d.levels[t][1] : TRUE
  BY <1>3 DEF NodesLive
<1>5. /\ Left[t] # Root /\ Right[t] # Root /\ Parent[Left[t]] = t /\ Parent[Right[t]] = t
      /\ Side(Left[t]) = 1 /\ Side(Right[t]) = 2
  BY InternalIs, ParentOf, SidesOf DEF Children
<1>6. Holds(d.levels, Left[t], p[1], z) /\ Holds(d.levels, Right[t], p[2], z)
  BY <1>2, <1>3, <1>4, <1>5 DEF FullOver
<1>7. Holds(d.levels, t, 1, z)
  BY <1>1, <1>3, <1>4, <1>6, NodeHolds
<1>8. ASSUME t # Root, NEW k \in DOMAIN d.levels[Parent[t]], NEW q \in d.levels[Parent[t]][k]
      PROVE  Holds(d.levels, t, q[Side(t)], z)
  <2>1. Parent[t] \in Internal /\ t \in Children(Parent[t])
    BY <1>8, HasParent DEF Vtree
  <2>2. q[Side(t)] \in Slots(d.levels, t)
    BY <1>1, <2>1, SidesIs
  <2> QED  BY <1>3, <1>7, <2>2
<1> QED  BY <1>3, <1>7, <1>8 DEF FullOver

\* A level carried over from the first operand, the second's nodes being
\* tautologies.
LEMMA FirstMeans ==
  ASSUME NEW f, Sound(f), NodesLive(f.levels), NEW g, Sound(g), NodesLive(g.levels), NEW swept,
         InRange(SweptLevels(swept)), NEW t \in Internal, NEW z,
         Means(f, g, swept, Left[t], z), Means(f, g, swept, Right[t], z), CarriedFirst(f, g, swept, t)
  PROVE  Means(f, g, swept, t, z)
<1> DEFINE W == SweptLevels(swept)
           l == swept[Left[t]]
           r == swept[Right[t]]
<1>1. InRange(f.levels) /\ InRange(g.levels) /\ InRange(W) /\ W[t] = f.levels[t]
  BY SoundIs DEF CarriedFirst, SweptLevels
<1>2. /\ l.gIs => Alike2(f.levels, W, Left[t], z) /\ FullOver(g, Left[t], z)
      /\ l.fIs => FullOver(f, Left[t], z)
      /\ r.gIs => Alike2(f.levels, W, Right[t], z) /\ FullOver(g, Right[t], z)
      /\ r.fIs => FullOver(f, Right[t], z)
  BY DEF Means
<1>3. IdentityLevel(g.levels[t], l.gIs, r.gIs) /\ l.gIs /\ r.gIs
  BY DEF CarriedFirst, IdentityLevel
<1>4. Slots(g.levels, t) = {1} /\ Holds(g.levels, t, 1, z) /\ FullOver(g, t, z)
  BY <1>2, <1>3, IdentityHolds
<1>5. Alike2(f.levels, W, t, z)
  <2> HIDE DEF W
  <2> QED  BY <1>1, <1>2, <1>3, Untouched
<1>6. Slots(f.levels, t) = DOMAIN f.levels[t] /\ Slots(g.levels, t) = DOMAIN g.levels[t]
  BY InternalIs DEF Slots
<1>7. 0 \notin DOMAIN f.levels[t]
  <2>1. DOMAIN f.levels[t] = 1 .. Len(f.levels[t]) /\ Len(f.levels[t]) \in Nat
    BY <1>1, LevelIs
  <2> QED  BY <2>1
<1>8. \A i \in Slots(f.levels, t), j \in Slots(g.levels, t) : swept[t].at[<<i, j>>] = i /\ i # 0
  BY <1>6, <1>7 DEF CarriedFirst
<1> HIDE DEF W
<1>9. \A i \in Slots(f.levels, t), j \in Slots(g.levels, t) :
        swept[t].at[<<i, j>>] # 0 /\ Holds(W, t, swept[t].at[<<i, j>>], z)
          <=> Holds(f.levels, t, i, z) /\ Holds(g.levels, t, j, z)
  BY <1>4, <1>5, <1>8 DEF Alike2
<1>10. ASSUME swept[t].fIs PROVE Alike2(g.levels, W, t, z) /\ FullOver(f, t, z)
  <2>1. IdentityLevel(f.levels[t], l.fIs, r.fIs)
    BY <1>10 DEF CarriedFirst
  <2>2. Slots(f.levels, t) = {1} /\ Holds(f.levels, t, 1, z) /\ FullOver(f, t, z)
    BY <1>2, <2>1, IdentityHolds
  <2>3. Holds(W, t, 1, z)
    BY <1>5, <2>2 DEF Alike2
  <2> QED  BY <1>4, <2>2, <2>3 DEF Alike2
<1> QED  BY <1>4, <1>5, <1>9, <1>10 DEF Means, W

\* A level carried over from the second operand.
LEMMA SecondMeans ==
  ASSUME NEW f, Sound(f), NodesLive(f.levels), NEW g, Sound(g), NodesLive(g.levels), NEW swept,
         InRange(SweptLevels(swept)), NEW t \in Internal, NEW z,
         Means(f, g, swept, Left[t], z), Means(f, g, swept, Right[t], z), CarriedSecond(f, g, swept, t)
  PROVE  Means(f, g, swept, t, z)
<1> DEFINE W == SweptLevels(swept)
           l == swept[Left[t]]
           r == swept[Right[t]]
<1>1. InRange(f.levels) /\ InRange(g.levels) /\ InRange(W) /\ W[t] = g.levels[t]
  BY SoundIs DEF CarriedSecond, SweptLevels
<1>2. /\ l.fIs => Alike2(g.levels, W, Left[t], z) /\ FullOver(f, Left[t], z)
      /\ r.fIs => Alike2(g.levels, W, Right[t], z) /\ FullOver(f, Right[t], z)
  BY DEF Means
<1>3. IdentityLevel(f.levels[t], l.fIs, r.fIs) /\ l.fIs /\ r.fIs
  BY DEF CarriedSecond, IdentityLevel
<1>4. Slots(f.levels, t) = {1} /\ Holds(f.levels, t, 1, z) /\ FullOver(f, t, z)
  BY <1>2, <1>3, IdentityHolds
<1>5. Alike2(g.levels, W, t, z)
  <2> HIDE DEF W
  <2> QED  BY <1>1, <1>2, <1>3, Untouched
<1>6. Slots(f.levels, t) = DOMAIN f.levels[t] /\ Slots(g.levels, t) = DOMAIN g.levels[t]
  BY InternalIs DEF Slots
<1>7. 0 \notin DOMAIN g.levels[t]
  <2>1. DOMAIN g.levels[t] = 1 .. Len(g.levels[t]) /\ Len(g.levels[t]) \in Nat
    BY <1>1, LevelIs
  <2> QED  BY <2>1
<1>8. \A i \in Slots(f.levels, t), j \in Slots(g.levels, t) : swept[t].at[<<i, j>>] = j /\ j # 0
  BY <1>6, <1>7 DEF CarriedSecond
<1> HIDE DEF W
<1>9. \A i \in Slots(f.levels, t), j \in Slots(g.levels, t) :
        swept[t].at[<<i, j>>] # 0 /\ Holds(W, t, swept[t].at[<<i, j>>], z)
          <=> Holds(f.levels, t, i, z) /\ Holds(g.levels, t, j, z)
  BY <1>4, <1>5, <1>8 DEF Alike2
<1>10. ~swept[t].gIs
  BY DEF CarriedSecond
<1> QED  BY <1>4, <1>5, <1>9, <1>10 DEF Means, W

\* A level built pair by pair.
LEMMA BuiltMeans ==
  ASSUME NEW f, Sound(f), NEW g, Sound(g), NEW swept,
         InRange(SweptLevels(swept)), NEW t \in Internal, NEW z,
         Means(f, g, swept, Left[t], z), Means(f, g, swept, Right[t], z), BuiltAs(f, g, swept, t)
  PROVE  Means(f, g, swept, t, z)
<1> DEFINE W == SweptLevels(swept)
           l == swept[Left[t]].at
           r == swept[Right[t]].at
           at == swept[t].at
<1>1. InRange(f.levels) /\ InRange(g.levels) /\ InRange(W) /\ W[t] = swept[t].level
  BY SoundIs DEF SweptLevels
<1>2. Slots(f.levels, t) = DOMAIN f.levels[t] /\ Slots(g.levels, t) = DOMAIN g.levels[t]
  BY InternalIs DEF Slots
<1>3. ~swept[t].fIs /\ ~swept[t].gIs
  BY DEF BuiltAs
<1>4. /\ \A i \in Slots(f.levels, Left[t]), j \in Slots(g.levels, Left[t]) :
           l[<<i, j>>] # 0 /\ Holds(W, Left[t], l[<<i, j>>], z) <=> Holds(f.levels, Left[t], i, z) /\ Holds(g.levels, Left[t], j, z)
      /\ \A i \in Slots(f.levels, Right[t]), j \in Slots(g.levels, Right[t]) :
           r[<<i, j>>] # 0 /\ Holds(W, Right[t], r[<<i, j>>], z) <=> Holds(f.levels, Right[t], i, z) /\ Holds(g.levels, Right[t], j, z)
  BY DEF Means
<1>5. ASSUME NEW i \in DOMAIN f.levels[t], NEW j \in DOMAIN g.levels[t]
      PROVE  at[<<i, j>>] # 0 /\ Holds(W, t, at[<<i, j>>], z) <=> Holds(f.levels, t, i, z) /\ Holds(g.levels, t, j, z)
  <2> DEFINE met == ProductPairs(l, r, f.levels[t][i], g.levels[t][j])
             k == at[<<i, j>>]
  <2>1. IF k = 0 THEN met = {} ELSE k \in DOMAIN W[t] /\ W[t][k] = met
    BY <1>1 DEF BuiltAs
  <2>2. /\ Holds(f.levels, t, i, z) <=>
             \E x \in f.levels[t][i] : Holds(f.levels, Left[t], x[1], z) /\ Holds(f.levels, Right[t], x[2], z)
        /\ Holds(g.levels, t, j, z) <=>
             \E y \in g.levels[t][j] : Holds(g.levels, Left[t], y[1], z) /\ Holds(g.levels, Right[t], y[2], z)
    BY <1>1, NodeHolds
  <2>3. \A q : q \in met <=> \E x \in f.levels[t][i], y \in g.levels[t][j] : Meets(l, r, x, y, q)
    <3> HIDE DEF l, r
    <3> QED  BY ProductPairsHas
  <2> HIDE DEF W, l, r, at, met
  <2>4. ASSUME k # 0, Holds(W, t, k, z) PROVE Holds(f.levels, t, i, z) /\ Holds(g.levels, t, j, z)
    <3>1. \E q \in W[t][k] : Holds(W, Left[t], q[1], z) /\ Holds(W, Right[t], q[2], z)
      BY <1>1, <2>1, <2>4, NodeHolds
    <3>2. PICK q \in met : Holds(W, Left[t], q[1], z) /\ Holds(W, Right[t], q[2], z)
      BY <2>1, <2>4, <3>1
    <3>3. PICK x \in f.levels[t][i], y \in g.levels[t][j] : Meets(l, r, x, y, q)
      BY <2>3
    <3>4. /\ x[1] \in Slots(f.levels, Left[t]) /\ x[2] \in Slots(f.levels, Right[t])
          /\ y[1] \in Slots(g.levels, Left[t]) /\ y[2] \in Slots(g.levels, Right[t])
      BY <1>1, PairIs
    <3>5. q[1] = l[<<x[1], y[1]>>] /\ q[2] = r[<<x[2], y[2]>>] /\ l[<<x[1], y[1]>>] # 0 /\ r[<<x[2], y[2]>>] # 0
      BY <3>3 DEF Meets
    <3>6. /\ Holds(f.levels, Left[t], x[1], z) /\ Holds(g.levels, Left[t], y[1], z)
          /\ Holds(f.levels, Right[t], x[2], z) /\ Holds(g.levels, Right[t], y[2], z)
      BY <1>4, <3>2, <3>4, <3>5
    <3> QED  BY <2>2, <3>6
  <2>5. ASSUME Holds(f.levels, t, i, z), Holds(g.levels, t, j, z) PROVE k # 0 /\ Holds(W, t, k, z)
    <3>1. PICK x \in f.levels[t][i] : Holds(f.levels, Left[t], x[1], z) /\ Holds(f.levels, Right[t], x[2], z)
      BY <2>2, <2>5
    <3>2. PICK y \in g.levels[t][j] : Holds(g.levels, Left[t], y[1], z) /\ Holds(g.levels, Right[t], y[2], z)
      BY <2>2, <2>5
    <3>3. /\ x[1] \in Slots(f.levels, Left[t]) /\ x[2] \in Slots(f.levels, Right[t])
          /\ y[1] \in Slots(g.levels, Left[t]) /\ y[2] \in Slots(g.levels, Right[t])
      BY <1>1, PairIs
    <3> DEFINE q == <<l[<<x[1], y[1]>>], r[<<x[2], y[2]>>]>>
    <3>4. /\ l[<<x[1], y[1]>>] # 0 /\ Holds(W, Left[t], l[<<x[1], y[1]>>], z)
          /\ r[<<x[2], y[2]>>] # 0 /\ Holds(W, Right[t], r[<<x[2], y[2]>>], z)
      BY <1>4, <3>1, <3>2, <3>3
    <3>5. Meets(l, r, x, y, q) /\ Holds(W, Left[t], q[1], z) /\ Holds(W, Right[t], q[2], z)
      BY <3>4 DEF Meets
    <3> HIDE DEF q
    <3>6. q \in met
      BY <2>3, <3>5
    <3>7. k # 0 /\ k \in DOMAIN W[t] /\ W[t][k] = met
      BY <2>1, <3>6
    <3> QED  BY <1>1, <3>5, <3>6, <3>7, NodeHolds
  <2> QED  BY <2>4, <2>5
<1> QED  BY <1>2, <1>3, <1>5 DEF Means, W, at

\* The slot of a product is satisfied where both its factors are.
LEMMA SweepMeans ==
  ASSUME NEW f, Sound(f), NodesLive(f.levels), NEW g, Sound(g), NodesLive(g.levels), f.out # Zero, g.out # Zero, NEW z
  PROVE  \A t \in Vtree : Means(f, g, Sweep(f, g, {}), t, z)
<1> DEFINE swept == Sweep(f, g, {})
           P == {t \in Vtree : Means(f, g, swept, t, z)}
<1>1. Leaf \subseteq P
  BY MeansLeaf DEF Vtree
<1>2. ASSUME NEW t \in Internal, Left[t] \in P, Right[t] \in P PROVE t \in P
  <2>1. InRange(SweptLevels(swept))
    BY SweepSound
  <2>2. CarriedFirst(f, g, swept, t) \/ CarriedSecond(f, g, swept, t) \/ BuiltAs(f, g, swept, t)
    BY SweptAs
  <2> HIDE DEF swept
  <2>3. Means(f, g, swept, Left[t], z) /\ Means(f, g, swept, Right[t], z)
    BY <1>2
  <2>4. Means(f, g, swept, t, z)
    BY <2>1, <2>2, <2>3, FirstMeans, SecondMeans, BuiltMeans
  <2> QED  BY <2>4 DEF Vtree
<1> HIDE DEF P
<1>3. Vtree \subseteq P
  BY <1>1, <1>2, UpInduction
<1> QED  BY <1>3 DEF P

\* No level the sweep makes holds an empty node.
LEMMA SweepLive ==
  ASSUME NEW f, Sound(f), NodesLive(f.levels), NEW g, Sound(g), NodesLive(g.levels)
  PROVE  NodesLive(SweptLevels(Sweep(f, g, {})))
<1> DEFINE swept == Sweep(f, g, {})
<1>1. SUFFICES ASSUME NEW t \in Internal, NEW i \in DOMAIN swept[t].level PROVE swept[t].level[i] # {}
  BY DEF NodesLive, SweptLevels
<1>2. CarriedFirst(f, g, swept, t) \/ CarriedSecond(f, g, swept, t) \/ BuiltAs(f, g, swept, t)
  BY SweptAs
<1> HIDE DEF swept
<1> QED  BY <1>1, <1>2 DEF CarriedFirst, CarriedSecond, BuiltAs, NodesLive

\* The products of two diagrams compute the conjunction of their functions.
LEMMA ProductsFn ==
  ASSUME NEW f, Sound(f), NodesLive(f.levels), NEW g, Sound(g), NodesLive(g.levels), f.out # Zero, g.out # Zero,
         NEW made, made \in Products(f, g, Sweep(f, g, {}))
  PROVE  Fn(made) = Fn(f) \cap Fn(g) /\ NodesLive(made.levels)
<1> DEFINE swept == Sweep(f, g, {})
<1>1. Sound(made) /\ made.levels = SweptLevels(swept) /\ made.out = swept[Root].at[<<f.out, g.out>>]
  BY ProductsSound
<1>2. NodesLive(made.levels)
  BY <1>1, SweepLive
<1>3. f.out \in Slots(f.levels, Root) /\ g.out \in Slots(g.levels, Root)
  BY RootIs, InternalIs, SoundIs DEF Slots
<1>4. ASSUME NEW z \in SUBSET Leaf PROVE z \in Fn(made) <=> z \in Fn(f) /\ z \in Fn(g)
  <2>1. Means(f, g, swept, Root, z)
    BY SweepMeans, RootIs DEF Vtree
  <2> HIDE DEF swept
  <2>2. made.out # 0 /\ Holds(made.levels, Root, made.out, z) <=> Holds(f.levels, Root, f.out, z) /\ Holds(g.levels, Root, g.out, z)
    BY <1>1, <1>3, <2>1 DEF Means
  <2> QED  BY <1>1, <2>2, FnHolds DEF Zero
<1>5. Fn(made) \subseteq SUBSET Leaf /\ Fn(f) \subseteq SUBSET Leaf
  BY <1>1, FnHolds
<1>6. \A z : z \in Fn(made) <=> z \in Fn(f) /\ z \in Fn(g)
  BY <1>4, <1>5
<1> QED  BY <1>2, <1>6

\* The false product lists every level, and has no node.
LEMMA FalseListedIs == AllListed(NoLevels, Zero).levels = NoLevels /\ AllListed(NoLevels, Zero).out = Zero
BY DEF AllListed, Diagram

\* Conjunction (apply/conjoin) computes the conjunction of its operands' functions.
LEMMA ConjunctionsFn ==
  ASSUME NEW x, Sound(x), NodesLive(x.levels), NEW y, Sound(y), NodesLive(y.levels), NEW made, made \in Conjunctions(x, y)
  PROVE  Fn(made) = Fn(x) \cap Fn(y) /\ NodesLive(made.levels)
<1> DEFINE swap == MaxWidth(y) > MaxWidth(x)
           f == IF swap THEN y ELSE x
           g == IF swap THEN x ELSE y
<1>1. Conjunctions(x, y) = IF f.levels = g.levels /\ f.out = g.out THEN {f}
                           ELSE IF f.out = Zero \/ g.out = Zero THEN {AllListed(NoLevels, Zero)}
                           ELSE Products(f, g, Sweep(f, g, {}))
  BY DEF Conjunctions
<1>2. Sound(f) /\ Sound(g) /\ NodesLive(f.levels) /\ NodesLive(g.levels) /\ Fn(f) \cap Fn(g) = Fn(x) \cap Fn(y)
  <2>1. CASE swap
    BY <2>1
  <2>2. CASE ~swap
    BY <2>2
  <2> QED  BY <2>1, <2>2
<1> HIDE DEF f, g
<1>3. \/ made = f /\ f.levels = g.levels /\ f.out = g.out
      \/ made = AllListed(NoLevels, Zero) /\ (f.out = Zero \/ g.out = Zero)
      \/ f.out # Zero /\ g.out # Zero /\ made \in Products(f, g, Sweep(f, g, {}))
  BY <1>1
<1>4. CASE made = f /\ f.levels = g.levels /\ f.out = g.out
  <2>1. Fn(f) = Fn(g)
    BY <1>4, FnOf
  <2> QED  BY <1>2, <1>4, <2>1
<1>5. CASE made = AllListed(NoLevels, Zero) /\ (f.out = Zero \/ g.out = Zero)
  <2>1. made.levels = NoLevels /\ made.out = Zero /\ Sound(made)
    BY <1>5, FalseListedSound, FalseListedIs
  <2>2. Fn(made) = {} /\ (Fn(f) = {} \/ Fn(g) = {})
    BY <1>2, <1>5, <2>1, FnIs
  <2> QED  BY <1>2, <2>1, <2>2, NothingLive
<1>6. CASE f.out # Zero /\ g.out # Zero /\ made \in Products(f, g, Sweep(f, g, {}))
  BY <1>2, <1>6, ProductsFn
<1> QED  BY <1>3, <1>4, <1>5, <1>6

-------------------------------------------------------------------------------
(* Complementing a level (apply/negate.rs). *)
\* Some node of the level is satisfied.
Covered(levels, c, z) == \E i \in Slots(levels, c) : Holds(levels, c, i, z)

\* Pairs that name slots, by one form of each leaf.
Naming(levels, t, pairs) ==
  /\ OneForm(t, pairs, pairs)
  /\ \A p \in pairs : p = <<p[1], p[2]>> /\ p[1] \in Slots(levels, Left[t]) /\ p[2] \in Slots(levels, Right[t])

\* An assignment satisfies exactly one node of what a level is completed from.
LEMMA BasisIs ==
  ASSUME NEW levels, InRange(levels), NEW t \in Internal, NEW c \in Children(t), NEW pairs, Naming(levels, t, pairs), NEW z
  PROVE  /\ Basis(levels, c, pairs) \subseteq Slots(levels, c)
         /\ \A p \in pairs : p[Side(c)] \in Basis(levels, c, pairs)
         /\ Covered(levels, c, z) => \E i \in Basis(levels, c, pairs) : Holds(levels, c, i, z)
         /\ Distinct(levels, c) =>
              \A i, j \in Basis(levels, c, pairs) : Holds(levels, c, i, z) /\ Holds(levels, c, j, z) => i = j
<1> DEFINE B == Basis(levels, c, pairs)
<1>1. \A p, q \in pairs : c \in Leaf => (p[Side(c)] = 3 <=> q[Side(c)] = 3)
  BY OneFormIs DEF Naming, One
<1>2. \A p \in pairs : p[Side(c)] \in Slots(levels, c)
  BY SidesOf DEF Naming, Children
<1>3. ASSUME Distinct(levels, c), NEW i \in Slots(levels, c), NEW j \in Slots(levels, c), c \in Leaf => i # 3 /\ j # 3,
             Holds(levels, c, i, z), Holds(levels, c, j, z)
      PROVE  i = j
  BY <1>3 DEF Distinct, Apart2, Holds
<1>4. CASE c \notin Leaf
  <2>1. B = Slots(levels, c)
    BY <1>4 DEF Basis, Slots
  <2> HIDE DEF B
  <2> QED  BY <1>2, <1>3, <1>4, <2>1 DEF Covered, B
<1>5. CASE c \in Leaf
  <2>1. B = IF \E p \in pairs : p[Side(c)] = 3 THEN {3} ELSE {1, 2}
    BY <1>5 DEF Basis, One, Pos, Neg
  <2>2. Slots(levels, c) = {1, 2, 3}
    BY <1>5, LeafSlots
  <2>3. /\ Holds(levels, c, 1, z) <=> c \in z
        /\ Holds(levels, c, 2, z) <=> c \notin z
        /\ Holds(levels, c, 3, z)
    BY <1>5, LeafHolds
  <2> HIDE DEF B
  <2>4. CASE \E p \in pairs : p[Side(c)] = 3
    <3>1. B = {3}
      BY <2>1, <2>4
    <3>2. \A p \in pairs : p[Side(c)] = 3
      BY <1>1, <1>5, <2>4
    <3> QED  BY <2>2, <2>3, <3>1, <3>2 DEF B
  <2>5. CASE ~\E p \in pairs : p[Side(c)] = 3
    <3>1. B = {1, 2}
      BY <2>1, <2>5
    <3>2. \A p \in pairs : p[Side(c)] \in {1, 2}
      BY <1>2, <2>2, <2>5
    <3>3. \E i \in B : Holds(levels, c, i, z)
      BY <2>3, <3>1
    <3>4. \A i, j \in B : Holds(levels, c, i, z) /\ Holds(levels, c, j, z) => i = j
      BY <2>3, <3>1
    <3> QED  BY <2>2, <3>1, <3>2, <3>3, <3>4 DEF B
  <2> QED  BY <2>4, <2>5
<1> QED  BY <1>4, <1>5

\* A pair both halves of which an assignment satisfies.
Meet(levels, t, p, z) == Holds(levels, Left[t], p[1], z) /\ Holds(levels, Right[t], p[2], z)

\* Of a node's pairs and the cells it misses an assignment satisfies exactly
\* one: one where the children are covered, at most one where they are disjoint.
LEMMA OneCell ==
  ASSUME NEW levels, InRange(levels), NEW t \in Internal, NEW pairs, Naming(levels, t, pairs), NEW z
  PROVE  /\ Covered(levels, Left[t], z) /\ Covered(levels, Right[t], z) =>
              \E q \in pairs \cup Missing(levels, t, pairs) : Meet(levels, t, q, z)
         /\ Distinct(levels, Left[t]) /\ Distinct(levels, Right[t]) =>
              \A p, q \in pairs \cup Missing(levels, t, pairs) : Meet(levels, t, p, z) /\ Meet(levels, t, q, z) => p = q
<1> DEFINE L == Basis(levels, Left[t], pairs)
           R == Basis(levels, Right[t], pairs)
           all == pairs \cup Missing(levels, t, pairs)
<1>1. Left[t] \in Children(t) /\ Right[t] \in Children(t) /\ Side(Left[t]) = 1 /\ Side(Right[t]) = 2
  BY SidesOf DEF Children
<1>2. /\ \A p \in pairs : p[1] \in L
      /\ Covered(levels, Left[t], z) => \E i \in L : Holds(levels, Left[t], i, z)
      /\ Distinct(levels, Left[t]) => \A i, j \in L : Holds(levels, Left[t], i, z) /\ Holds(levels, Left[t], j, z) => i = j
  BY <1>1, BasisIs
<1>3. /\ \A p \in pairs : p[2] \in R
      /\ Covered(levels, Right[t], z) => \E i \in R : Holds(levels, Right[t], i, z)
      /\ Distinct(levels, Right[t]) => \A i, j \in R : Holds(levels, Right[t], i, z) /\ Holds(levels, Right[t], j, z) => i = j
  BY <1>1, BasisIs
<1>4. Missing(levels, t, pairs) = (L \X R) \ pairs
  BY DEF Missing
<1> HIDE DEF L, R
<1>5. all = L \X R
  <2>1. pairs \subseteq L \X R
    BY <1>2, <1>3 DEF Naming
  <2> QED  BY <1>4, <2>1
<1> HIDE DEF all
<1>6. ASSUME Covered(levels, Left[t], z), Covered(levels, Right[t], z)
      PROVE  \E q \in all : Meet(levels, t, q, z)
  <2>1. PICK i \in L : Holds(levels, Left[t], i, z)
    BY <1>2, <1>6
  <2>2. PICK j \in R : Holds(levels, Right[t], j, z)
    BY <1>3, <1>6
  <2> DEFINE q == <<i, j>>
  <2>3. q \in all /\ q[1] = i /\ q[2] = j
    BY <1>5
  <2> HIDE DEF q
  <2> QED  BY <2>1, <2>2, <2>3 DEF Meet
<1>7. ASSUME Distinct(levels, Left[t]), Distinct(levels, Right[t]), NEW p \in all, NEW q \in all,
             Meet(levels, t, p, z), Meet(levels, t, q, z)
      PROVE  p = q
  <2>1. p = <<p[1], p[2]>> /\ q = <<q[1], q[2]>> /\ p[1] \in L /\ p[2] \in R /\ q[1] \in L /\ q[2] \in R
    BY <1>5
  <2>2. p[1] = q[1]
    BY <1>2, <1>7, <2>1 DEF Meet
  <2>3. p[2] = q[2]
    BY <1>3, <1>7, <2>1 DEF Meet
  <2> QED  BY <2>1, <2>2, <2>3
<1> QED  BY <1>6, <1>7 DEF all

\* A sequence with one element more.
LEMMA AppendIs ==
  ASSUME NEW V, NEW s \in Seq(V), NEW x
  PROVE  /\ Len(s) \in Nat /\ DOMAIN s = 1 .. Len(s)
         /\ DOMAIN Append(s, x) = 1 .. (Len(s) + 1)
         /\ \A k \in DOMAIN s : k \in DOMAIN Append(s, x) /\ Append(s, x)[k] = s[k]
         /\ Len(s) + 1 \in DOMAIN Append(s, x) /\ Append(s, x)[Len(s) + 1] = x
         /\ \A k \in DOMAIN Append(s, x) : k \in DOMAIN s \/ k = Len(s) + 1
OBVIOUS

\* Levels that keep every node of others where it was.
Extends2(a, b, t) == \A i \in DOMAIN a[t] : i \in DOMAIN b[t] /\ b[t][i] = a[t][i]

\* Nodes added to levels leave the others satisfied as they were.
LEMMA ExtendedHolds ==
  ASSUME NEW a, InRange(a), NEW b, InRange(b), NEW z, \A t \in Internal : Extends2(a, b, t)
  PROVE  \A t \in Vtree : Alike2(a, b, t, z)
<1> DEFINE P == {t \in Vtree : Alike2(a, b, t, z)}
<1>1. Leaf \subseteq P
  BY LeafAlike DEF Vtree
<1>2. ASSUME NEW t \in Internal, Left[t] \in P, Right[t] \in P PROVE t \in P
  <2>1. Slots(a, t) = DOMAIN a[t] /\ t \in Vtree
    BY InternalIs DEF Slots, Vtree
  <2>2. ASSUME NEW i \in DOMAIN a[t] PROVE Holds(a, t, i, z) <=> Holds(b, t, i, z)
    <3>1. i \in DOMAIN b[t] /\ b[t][i] = a[t][i]
      BY DEF Extends2
    <3>2. Holds(a, t, i, z) <=> \E p \in a[t][i] : Holds(a, Left[t], p[1], z) /\ Holds(a, Right[t], p[2], z)
      BY NodeHolds
    <3>3. Holds(b, t, i, z) <=> \E p \in a[t][i] : Holds(b, Left[t], p[1], z) /\ Holds(b, Right[t], p[2], z)
      BY <3>1, NodeHolds
    <3>4. ASSUME NEW p \in a[t][i]
          PROVE  /\ Holds(a, Left[t], p[1], z) <=> Holds(b, Left[t], p[1], z)
                 /\ Holds(a, Right[t], p[2], z) <=> Holds(b, Right[t], p[2], z)
      <4>1. p[1] \in Slots(a, Left[t]) /\ p[2] \in Slots(a, Right[t])
        BY PairIs
      <4> QED  BY <1>2, <4>1 DEF Alike2
    <3> QED  BY <3>2, <3>3, <3>4
  <2> QED  BY <2>1, <2>2 DEF Alike2
<1> HIDE DEF P
<1>3. Vtree \subseteq P
  BY <1>1, <1>2, UpInduction
<1> QED  BY <1>3 DEF P

\* Pairs over children that grew name a leaf in one form still.
LEMMA PairsNaming ==
  ASSUME NEW old, InRange(old), NEW t \in Internal, NEW new, Wider(old, new, t), NEW pairs, pairs \subseteq PairsAt(old, t),
         OneForm(t, pairs, pairs)
  PROVE  Naming(new, t, pairs)
<1>1. ASSUME NEW p \in pairs
      PROVE  p = <<p[1], p[2]>> /\ p[1] \in Slots(new, Left[t]) /\ p[2] \in Slots(new, Right[t])
  <2>1. PICK i \in DOMAIN old[t] : p \in old[t][i]
    BY DEF PairsAt, PairsOf
  <2>2. p = <<p[1], p[2]>> /\ p[1] \in Slots(old, Left[t]) /\ p[2] \in Slots(old, Right[t])
    BY <2>1, PairIs
  <2> QED  BY <2>2 DEF Wider
<1> QED  BY <1>1 DEF Naming

\* Completion moves no node, empties none, and leaves every assignment a node
\* of every level below the root.
LEMMA ExpandFn ==
  ASSUME NEW d, InRange(d.levels), Deterministic(d.levels), NEW z
  PROVE  LET levels == ExpandFull(d)
         IN  /\ \A t \in Internal : Extends2(d.levels, levels, t)
             /\ \A t \in Internal : Wider(d.levels, levels, t)
             /\ \A t \in Vtree \ {Root} : Covered(levels, t, z)
             /\ NodesLive(d.levels) => NodesLive(levels)
<1> DEFINE levels == ExpandFull(d)
           cells(t) == Missing(levels, t, PairsAt(d.levels, t))
           P == {t \in Vtree : t # Root => Covered(levels, t, z)}
<1>1. InRange(levels) /\ \A t \in Internal : DOMAIN d.levels[t] \subseteq DOMAIN levels[t]
  BY ExpandSound
<1>2. \A t \in Internal : levels[t] = IF t = Root \/ cells(t) = {} THEN d.levels[t] ELSE Append(d.levels[t], cells(t))
  BY ExpandAt
<1> HIDE DEF levels, cells
<1>3. ASSUME NEW t \in Internal PROVE Extends2(d.levels, levels, t)
  <2>1. \A i \in DOMAIN d.levels[t] : i \in DOMAIN Append(d.levels[t], cells(t)) /\ Append(d.levels[t], cells(t))[i] = d.levels[t][i]
    BY LevelIs, AppendIs
  <2> QED  BY <1>2, <2>1 DEF Extends2
<1>4. ASSUME NEW t \in Internal PROVE Wider(d.levels, levels, t)
  <2>1. Left[t] \in Vtree /\ Right[t] \in Vtree
    BY InternalIs
  <2>2. \A c \in Vtree : Slots(d.levels, c) \subseteq Slots(levels, c)
    BY <1>1 DEF Slots, Vtree
  <2> QED  BY <2>1, <2>2 DEF Wider
<1>5. Leaf \subseteq P
  <2>1. ASSUME NEW c \in Leaf PROVE Covered(levels, c, z)
    <3>1. 3 \in Slots(levels, c) /\ Holds(levels, c, 3, z)
      BY <1>1, LeafSlots, LeafHolds
    <3> QED  BY <3>1 DEF Covered
  <2> QED  BY <2>1 DEF Vtree
<1>6. ASSUME NEW t \in Internal, Left[t] \in P, Right[t] \in P PROVE t \in P
  <2>1. SUFFICES ASSUME t # Root PROVE Covered(levels, t, z)
    BY DEF Vtree
  <2> DEFINE pairs == PairsAt(d.levels, t)
  <2>2. Covered(levels, Left[t], z) /\ Covered(levels, Right[t], z)
    BY <1>6, InternalIs
  <2>3. OneForm(t, pairs, pairs)
    BY <2>1, PairsForm
  <2>4. Naming(levels, t, pairs)
    <3>1. Wider(d.levels, levels, t) /\ pairs \subseteq PairsAt(d.levels, t)
      BY <1>4
    <3> HIDE DEF pairs
    <3> QED  BY <2>3, <3>1, PairsNaming
  <2>5. PICK q \in pairs \cup cells(t) : Meet(levels, t, q, z)
    <3>1. \E q \in pairs \cup Missing(levels, t, pairs) : Meet(levels, t, q, z)
      <4> HIDE DEF pairs
      <4> QED  BY <1>1, <2>2, <2>4, OneCell
    <3> QED  BY <3>1 DEF cells
  <2>6. \E i \in DOMAIN levels[t] : q \in levels[t][i]
    <3>1. CASE q \in pairs
      <4>1. PICK i \in DOMAIN d.levels[t] : q \in d.levels[t][i]
        BY <3>1 DEF PairsAt, PairsOf
      <4> QED  BY <1>3, <4>1 DEF Extends2
    <3>2. CASE q \in cells(t)
      <4>1. levels[t] = Append(d.levels[t], cells(t))
        BY <1>2, <2>1, <3>2
      <4>2. Len(d.levels[t]) + 1 \in DOMAIN levels[t] /\ levels[t][Len(d.levels[t]) + 1] = cells(t)
        BY <4>1, LevelIs, AppendIs
      <4> QED  BY <3>2, <4>2
    <3> QED  BY <2>5, <3>1, <3>2
  <2>7. PICK i \in DOMAIN levels[t] : q \in levels[t][i]
    BY <2>6
  <2>8. Holds(levels, t, i, z)
    BY <1>1, <2>5, <2>7, NodeHolds DEF Meet
  <2> QED  BY <2>7, <2>8, InternalIs DEF Covered, Slots
<1>7. ASSUME NodesLive(d.levels) PROVE NodesLive(levels)
  <2>1. ASSUME NEW t \in Internal, NEW i \in DOMAIN levels[t] PROVE levels[t][i] # {}
    <3>1. CASE i \in DOMAIN d.levels[t]
      BY <1>3, <1>7, <3>1 DEF NodesLive, Extends2
    <3>2. CASE i \notin DOMAIN d.levels[t]
      <4>1. levels[t] = Append(d.levels[t], cells(t)) /\ cells(t) # {}
        BY <1>2, <3>2
      <4>2. i = Len(d.levels[t]) + 1
        BY <3>2, <4>1, LevelIs, AppendIs
      <4> QED  BY <4>1, <4>2, LevelIs, AppendIs
    <3> QED  BY <3>1, <3>2
  <2> QED  BY <2>1 DEF NodesLive
<1> HIDE DEF P
<1>8. Vtree \subseteq P
  BY <1>5, <1>6, UpInduction
<1>9. \A t \in Vtree \ {Root} : Covered(levels, t, z)
  BY <1>8 DEF P
<1> QED  BY <1>3, <1>4, <1>7, <1>9 DEF levels

\* The constants compute what they are named for.
LEMMA ConstantTrueFn == Fn(ConstantTrue) = SUBSET Leaf /\ NodesLive(ConstantTrue.levels)
<1> DEFINE at(c) == IF c \in Leaf THEN 3 ELSE 1
           pair(t) == <<at(Left[t]), at(Right[t])>>
           levels == [t \in Internal |-> <<{pair(t)}>>]
           label == [v \in Leaf |-> One]
           yes == TRUE
           none == {}
           out == 1
<1>1. ConstantTrue = Diagram(levels, out, none, none, none, yes)
  <2>1. \A t \in Internal : <<{pair(t)}>> = <<{<<IF Left[t] \in Leaf THEN label[Left[t]] ELSE 1, IF Right[t] \in Leaf THEN label[Right[t]] ELSE 1>>}>>
    BY DEF One
  <2> HIDE DEF pair, label
  <2>2. levels = [t \in Internal |-> <<{<<IF Left[t] \in Leaf THEN label[Left[t]] ELSE 1, IF Right[t] \in Leaf THEN label[Right[t]] ELSE 1>>}>>]
    BY <2>1
  <2> QED  BY <2>2 DEF ConstantTrue, Cube, Seated, label
<1>2. \A t \in Internal : DOMAIN levels[t] = {1} /\ levels[t][1] = {pair(t)}
  <2>1. ASSUME NEW t \in Internal PROVE DOMAIN levels[t] = {1} /\ levels[t][1] = {pair(t)}
    <3> DEFINE x == {pair(t)}
    <3>1. levels[t] = <<x>>
      OBVIOUS
    <3> HIDE DEF x, levels
    <3>2. DOMAIN levels[t] = {1} /\ levels[t][1] = x
      BY <3>1
    <3> QED  BY <3>2 DEF x
  <2> QED  BY <2>1
<1>3. \A t \in Internal : pair(t)[1] = at(Left[t]) /\ pair(t)[2] = at(Right[t])
  OBVIOUS
<1> HIDE DEF levels, pair, none, yes
<1>4. ConstantTrue.levels = levels /\ ConstantTrue.out = out
  <2> HIDE DEF out
  <2> QED  BY <1>1, DiagramIs
<1>5. Sound(ConstantTrue) /\ InRange(levels)
  BY <1>4, ConstantsSound, SoundIs
<1>6. ASSUME NEW z PROVE Holds(levels, Root, 1, z)
  <2> DEFINE P == {t \in Vtree : Holds(levels, t, at(t), z)}
  <2>1. Leaf \subseteq P
    BY <1>5, LeafHolds DEF Vtree
  <2>2. ASSUME NEW t \in Internal, Left[t] \in P, Right[t] \in P PROVE t \in P
    <3>1. at(t) = 1 /\ t \in Vtree
      BY InternalIs DEF Vtree
    <3> HIDE DEF at
    <3>2. Holds(levels, t, 1, z)
      BY <1>2, <1>3, <1>5, <2>2, NodeHolds
    <3> QED  BY <3>1, <3>2
  <2> HIDE DEF P
  <2>3. Vtree \subseteq P
    BY <2>1, <2>2, UpInduction
  <2>4. Root \in Vtree /\ Root \notin Leaf
    BY RootIs, InternalIs DEF Vtree
  <2> QED  BY <2>3, <2>4 DEF P
<1>7. \A z \in SUBSET Leaf : z \in Fn(ConstantTrue)
  BY <1>4, <1>5, <1>6, FnHolds DEF Zero
<1>8. Fn(ConstantTrue) \subseteq SUBSET Leaf
  BY <1>5, FnHolds
<1>9. NodesLive(levels)
  BY <1>2 DEF NodesLive
<1> QED  BY <1>4, <1>7, <1>8, <1>9

\* The constant false.
LEMMA ConstantFalseFn == Fn(ConstantFalse) = {} /\ NodesLive(ConstantFalse.levels)
<1>1. ConstantFalse.levels = NoLevels /\ ConstantFalse.out = Zero
  BY DEF ConstantFalse, Seated, Diagram
<1> QED  BY <1>1, ConstantsSound, FnIs, NothingLive

\* The node a complement puts beside its operand's output is satisfied by
\* exactly the assignments the output is not.
LEMMA CellsHold ==
  ASSUME NEW d, Sound(d), d.out # Zero, NEW cells,
         LET levels == ExpandFull(d)
         IN  cells = {p \in Missing(levels, Root, levels[Root][d.out]) :
                        /\ Left[Root] \in Leaf \/ levels[Left[Root]][p[1]] # {}
                        /\ Right[Root] \in Leaf \/ levels[Right[Root]][p[2]] # {}},
         NEW z
  PROVE  (\E p \in cells : Meet(ExpandFull(d), Root, p, z)) <=> ~Holds(d.levels, Root, d.out, z)
<1> DEFINE levels == ExpandFull(d)
           pairs == d.levels[Root][d.out]
           lost == Missing(levels, Root, pairs)
<1>1. InRange(d.levels) /\ Deterministic(d.levels) /\ d.out \in DOMAIN d.levels[Root] /\ Root \in Internal
  BY SoundIs, RootIs
<1>2. InRange(levels) /\ Deterministic(levels) /\ levels[Root] = d.levels[Root]
  BY <1>1, ExpandSound
<1>3. /\ Left[Root] \in Vtree /\ Left[Root] # Root /\ Right[Root] \in Vtree /\ Right[Root] # Root
  BY <1>1, InternalIs
<1>4. /\ Wider(d.levels, levels, Root)
      /\ Covered(levels, Left[Root], z) /\ Covered(levels, Right[Root], z)
      /\ \A t \in Internal : Extends2(d.levels, levels, t)
  BY <1>1, <1>3, ExpandFn
<1>5. cells = {p \in lost : /\ Left[Root] \in Leaf \/ levels[Left[Root]][p[1]] # {}
                            /\ Right[Root] \in Leaf \/ levels[Right[Root]][p[2]] # {}}
  BY <1>2
<1>6. Distinct(levels, Left[Root]) /\ Distinct(levels, Right[Root])
  BY <1>2, <1>3, NodesApart
<1> HIDE DEF levels
<1>7. OneForm(Root, pairs, pairs)
  BY <1>1, DeterministicIs
<1>8. Naming(levels, Root, pairs)
  <2>1. pairs \subseteq PairsAt(d.levels, Root)
    BY <1>1 DEF PairsAt, PairsOf
  <2> HIDE DEF pairs
  <2> QED  BY <1>1, <1>4, <1>7, <2>1, PairsNaming
<1>9. Holds(d.levels, Root, d.out, z) <=> \E p \in pairs : Meet(levels, Root, p, z)
  <2>1. Holds(d.levels, Root, d.out, z) <=> Holds(levels, Root, d.out, z)
    <3>1. Alike2(d.levels, levels, Root, z)
      BY <1>1, <1>2, <1>4, ExtendedHolds DEF Vtree
    <3> QED  BY <1>1, <3>1, InternalIs DEF Alike2, Slots
  <2>2. Holds(levels, Root, d.out, z) <=> \E p \in pairs : Meet(levels, Root, p, z)
    BY <1>1, <1>2, NodeHolds DEF Meet
  <2> QED  BY <2>1, <2>2
<1> HIDE DEF pairs
<1>10. /\ \E q \in pairs \cup lost : Meet(levels, Root, q, z)
       /\ \A p, q \in pairs \cup lost : Meet(levels, Root, p, z) /\ Meet(levels, Root, q, z) => p = q
  BY <1>1, <1>2, <1>4, <1>6, <1>8, OneCell
<1>11. lost \cap pairs = {} /\ \A p \in lost : p[1] \in Slots(levels, Left[Root]) /\ p[2] \in Slots(levels, Right[Root])
  <2>1. lost \subseteq Missing(levels, Root, pairs)
    OBVIOUS
  <2> HIDE DEF lost
  <2> QED  BY <1>1, <1>7, <2>1, MissingIs
<1> HIDE DEF lost
<1>12. ASSUME NEW p \in lost, Meet(levels, Root, p, z) PROVE p \in cells
  <2>1. ASSUME NEW c \in Vtree, c \notin Leaf, NEW i \in Slots(levels, c), Holds(levels, c, i, z) PROVE levels[c][i] # {}
    <3>1. c \in Internal /\ i \in DOMAIN levels[c]
      BY <2>1 DEF Vtree, Slots
    <3> QED  BY <1>2, <2>1, <3>1, NodeHolds
  <2>2. p[1] \in Slots(levels, Left[Root]) /\ p[2] \in Slots(levels, Right[Root])
    BY <1>11
  <2>3. Holds(levels, Left[Root], p[1], z) /\ Holds(levels, Right[Root], p[2], z)
    BY <1>12 DEF Meet
  <2>4. Left[Root] \in Leaf \/ levels[Left[Root]][p[1]] # {}
    BY <1>3, <2>1, <2>2, <2>3
  <2>5. Right[Root] \in Leaf \/ levels[Right[Root]][p[2]] # {}
    BY <1>3, <2>1, <2>2, <2>3
  <2> QED  BY <1>5, <2>4, <2>5
<1>13. cells \subseteq lost
  BY <1>5
<1>14. (\E p \in cells : Meet(levels, Root, p, z)) <=> ~\E p \in pairs : Meet(levels, Root, p, z)
  BY <1>10, <1>11, <1>12, <1>13
<1> QED  BY <1>9, <1>14 DEF levels

\* Negation (apply/negate) computes the complement of its operand's function.
LEMMA ComplementFn ==
  ASSUME NEW d, Sound(d), NodesLive(d.levels)
  PROVE  /\ Fn(Complement(d).result) = (SUBSET Leaf) \ Fn(d)
         /\ NodesLive(Complement(d).result.levels)
<1>1. CASE d.out = Zero
  <2>1. Complement(d) = [result |-> ConstantTrue, old |-> 0]
    BY <1>1 DEF Complement
  <2>2. Complement(d).result = ConstantTrue
    BY <2>1
  <2>3. Fn(d) = {}
    BY <1>1, FnIs
  <2> QED  BY <2>2, <2>3, ConstantTrueFn
<1>2. CASE d.out # Zero
  <2> DEFINE levels == ExpandFull(d)
             cells  == {p \in Missing(levels, Root, levels[Root][d.out]) :
                          /\ Left[Root] \in Leaf \/ levels[Left[Root]][p[1]] # {}
                          /\ Right[Root] \in Leaf \/ levels[Right[Root]][p[2]] # {}}
             owed   == Owes(d, levels)
             no     == FALSE
             loose  == Children(Root) \ Leaf
             out    == Len(levels[Root]) + 1
             a      == d.contract \cup owed
             b      == d.leaves \cup owed
             new    == Complemented(d, cells)
             made   == Diagram(new, out, a, b, loose, no)
             full   == [result |-> made, old |-> d.out]
             empty  == [result |-> ConstantFalse, old |-> 0]
  <2>1. Complement(d) = IF cells = {} THEN empty ELSE full
    BY <1>2 DEF Complement, Complemented
  <2>2. ASSUME NEW z PROVE (\E p \in cells : Meet(levels, Root, p, z)) <=> ~Holds(d.levels, Root, d.out, z)
    BY <1>2, CellsHold
  <2>3. Sound(Complement(d).result)
    BY ComplementSound
  <2>4. InRange(d.levels) /\ Deterministic(d.levels) /\ Root \in Internal
    BY SoundIs, RootIs
  <2>5. InRange(levels) /\ levels[Root] = d.levels[Root]
    BY <2>4, ExpandSound
  <2>6. NodesLive(levels)
    BY <2>4, ExpandFn
  <2>7. cells \subseteq Missing(ExpandFull(d), Root, ExpandFull(d)[Root][d.out])
    OBVIOUS
  <2> HIDE DEF cells
  <2>8. new = [levels EXCEPT ![Root] = Append(levels[Root], cells)]
    BY DEF Complemented
  <2> HIDE DEF levels, owed, no, loose
  <2>9. CASE cells = {}
    <3>1. Complement(d).result = ConstantFalse
      BY <2>1, <2>9
    <3>2. \A z \in SUBSET Leaf : z \in Fn(d)
      BY <1>2, <2>2, <2>9, FnHolds
    <3> QED  BY <3>1, <3>2, ConstantFalseFn
  <2>10. CASE cells # {}
    <3>1. Complement(d).result = made
      BY <2>1, <2>10
    <3> HIDE DEF out, a, b
    <3>2. made.levels = new /\ made.out = out /\ Sound(made)
      BY <2>3, <3>1, DiagramIs
    <3>3. InRange(new) /\ out \in {Zero} \cup DOMAIN new[Root]
      BY <3>2, SoundIs
    <3>4. DOMAIN levels = Internal /\ levels[Root] \in Seq(SUBSET (Nat \X Nat))
      BY <2>4, <2>5, LevelIs DEF InRange
    <3>5. new[Root] = Append(levels[Root], cells) /\ \A t \in Internal \ {Root} : new[t] = levels[t]
      <4> HIDE DEF new
      <4> QED  BY <2>4, <2>8, <3>4
    <3>6. /\ DOMAIN levels[Root] = 1 .. Len(levels[Root]) /\ Len(levels[Root]) \in Nat
          /\ \A k \in DOMAIN levels[Root] : k \in DOMAIN new[Root] /\ new[Root][k] = levels[Root][k]
          /\ out \in DOMAIN new[Root] /\ new[Root][out] = cells
          /\ \A k \in DOMAIN new[Root] : k \in DOMAIN levels[Root] \/ k = out
      BY <3>4, <3>5, AppendIs DEF out
    <3> HIDE DEF new, made
    <3>7. \A t \in Internal : Extends2(levels, new, t)
      BY <3>5, <3>6 DEF Extends2
    <3>8. NodesLive(new)
      <4>1. ASSUME NEW t \in Internal, NEW i \in DOMAIN new[t] PROVE new[t][i] # {}
        BY <2>6, <2>10, <3>5, <3>6, <4>1 DEF NodesLive
      <4> QED  BY <4>1 DEF NodesLive
    <3>9. out # Zero
      BY <3>6 DEF out, Zero
    <3>10. ASSUME NEW z PROVE Holds(new, Root, out, z) <=> ~Holds(d.levels, Root, d.out, z)
      <4>1. \A t \in Vtree : Alike2(levels, new, t, z)
        BY <2>5, <3>3, <3>7, ExtendedHolds
      <4>2. Left[Root] \in Vtree /\ Right[Root] \in Vtree
        BY <2>4, InternalIs
      <4>3. Slots(levels, Left[Root]) = Slots(new, Left[Root]) /\ Slots(levels, Right[Root]) = Slots(new, Right[Root])
        BY <2>4, <3>5, InternalIs DEF Slots, Vtree
      <4>4. ASSUME NEW p \in cells
            PROVE  Meet(levels, Root, p, z) <=> Meet(new, Root, p, z)
        <5>1. p[1] \in Slots(new, Left[Root]) /\ p[2] \in Slots(new, Right[Root])
          BY <2>4, <3>3, <3>6, <4>4, PairIs
        <5> QED  BY <4>1, <4>2, <4>3, <5>1 DEF Alike2, Meet
      <4>5. Holds(new, Root, out, z) <=> \E p \in cells : Meet(new, Root, p, z)
        BY <2>4, <3>3, <3>6, NodeHolds DEF Meet
      <4> QED  BY <2>2, <4>4, <4>5
    <3>11. \A z \in SUBSET Leaf : z \in Fn(made) <=> z \notin Fn(d)
      BY <1>2, <3>2, <3>9, <3>10, FnHolds
    <3>12. Fn(made) \subseteq SUBSET Leaf
      BY <3>2, FnHolds
    <3>13. Fn(made) = (SUBSET Leaf) \ Fn(d)
      <4> DEFINE m == Fn(made)
                 n == Fn(d)
      <4>1. m \subseteq SUBSET Leaf /\ \A z \in SUBSET Leaf : z \in m <=> z \notin n
        BY <3>11, <3>12
      <4> HIDE DEF m, n
      <4>2. m = (SUBSET Leaf) \ n
        BY <4>1
      <4> QED  BY <4>2 DEF m, n
    <3> QED  BY <3>1, <3>2, <3>8, <3>13
  <2> QED  BY <2>9, <2>10
<1> QED  BY <1>1, <1>2

-------------------------------------------------------------------------------
(* Conditioning (apply/condition.rs, apply/falsity.rs). *)
\* The assignment with one variable set.
Set(z, c, value) == IF value THEN z \cup {c} ELSE z \ {c}

\* A diagram that does not know its loose levels and holds no certificate.
Owing(e) == e.loose = Unknown /\ ~e.certified

\* Conditioning rewrites one level.
LEMMA RestrictedIs ==
  ASSUME NEW d, Sound(d), NEW c \in Leaf, NEW value
  PROVE  LET e == Restricted(d, c, value)
             t == Parent[c]
         IN  /\ t \in Internal /\ c \in Children(t)
             /\ e.out = d.out
             /\ \A u \in Internal \ {t} : e.levels[u] = d.levels[u]
             /\ DOMAIN e.levels[t] = DOMAIN d.levels[t]
             /\ \A k \in DOMAIN d.levels[t] : e.levels[t][k] = Cofactor(d.levels[t][k], c, value)
             /\ (e = d /\ d.levels[t] = <<>>) \/ Owing(e)
<1> DEFINE t == Parent[c]
           level == d.levels[t]
           node == [k \in DOMAIN level |-> Cofactor(level[k], c, value)]
           new == [d.levels EXCEPT ![t] = node]
           no == FALSE
           cs == d.contract \cup {t}
           vs == d.leaves \cup {t}
           e == Restricted(d, c, value)
<1>0. t \in Internal /\ c \in Children(t)
  BY HasParent, RootIs, InternalIs DEF Vtree
<1>1. e = IF level = <<>> THEN d ELSE Releveled(d, t, node)
  BY DEF Restricted, Releveled
<1>2. CASE level = <<>>
  <2>1. e = d /\ DOMAIN d.levels[t] = {}
    BY <1>1, <1>2
  <2> QED  BY <1>0, <1>2, <2>1
<1>3. CASE level # <<>>
  <2>1. InRange(d.levels) /\ d = Diagram(d.levels, d.out, d.contract, d.leaves, d.loose, d.certified)
    BY SoundIs
  <2> HIDE DEF t, node, e
  <2>2. e = Diagram(new, d.out, cs, vs, Unknown, no)
    BY <1>1, <1>3, <2>1, ReleveledIs
  <2>3. DOMAIN d.levels = Internal
    BY <2>1 DEF InRange
  <2>4. new[t] = node /\ \A u \in Internal \ {t} : new[u] = d.levels[u]
    BY <1>0, <2>3
  <2> HIDE DEF new, no, cs, vs
  <2>5. e.levels = new /\ e.out = d.out /\ e.loose = Unknown /\ e.certified = no
    BY <2>2, DiagramIs
  <2>6. Owing(e)
    BY <2>5 DEF Owing, no
  <2>7. DOMAIN node = DOMAIN d.levels[t] /\ \A k \in DOMAIN d.levels[t] : node[k] = Cofactor(d.levels[t][k], c, value)
    BY DEF node
  <2> QED  BY <1>0, <2>4, <2>5, <2>6, <2>7 DEF t, e
<1> QED  BY <1>2, <1>3

\* Under z one set of levels is satisfied where another is under y.
Shifted(a, b, t, y, z) == \A i \in Slots(a, t) : Holds(a, t, i, y) <=> Holds(b, t, i, z)

\* A node is satisfied after the rewrite where it was with the variable set.
LEMMA RestrictedHolds ==
  ASSUME NEW d, Sound(d), NEW c \in Leaf, NEW value \in BOOLEAN, NEW z, NEW t \in Vtree, t # c
  PROVE  Shifted(d.levels, Restricted(d, c, value).levels, t, Set(z, c, value), z)
<1> DEFINE e == Restricted(d, c, value)
           a == d.levels
           b == e.levels
           y == Set(z, c, value)
           u == Parent[c]
           P == {w \in Vtree : w # c => Shifted(a, b, w, y, z)}
<1>1. /\ u \in Internal /\ c \in Children(u)
      /\ \A w \in Internal \ {u} : b[w] = a[w]
      /\ DOMAIN b[u] = DOMAIN a[u]
      /\ \A k \in DOMAIN a[u] : b[u][k] = Cofactor(a[u][k], c, value)
  BY RestrictedIs
<1>2. InRange(a) /\ InRange(b)
  BY RestrictedSound, SoundIs
<1>3. (c \in y <=> value) /\ \A w : w # c => (w \in y <=> w \in z)
  BY DEF Set
<1> HIDE DEF y, e, a, b, u
<1>4. ASSUME NEW w \in Leaf PROVE w \in P
  <2>1. Slots(a, w) = {1, 2, 3}
    BY LeafSlots
  <2>2. ASSUME w # c PROVE Shifted(a, b, w, y, z)
    BY <1>2, <1>3, <2>1, <2>2, LeafHolds DEF Shifted
  <2> QED  BY <2>2 DEF Vtree
<1>5. ASSUME NEW w \in Internal, Left[w] \in P, Right[w] \in P PROVE w \in P
  <2>1. Slots(a, w) = DOMAIN a[w] /\ w \in Vtree
    BY InternalIs DEF Slots, Vtree
  <2>2. CASE w # u
    <3>1. Left[w] # c /\ Right[w] # c
      BY <2>2, ParentOf DEF Children, u
    <3>2. ASSUME NEW i \in DOMAIN a[w] PROVE Holds(a, w, i, y) <=> Holds(b, w, i, z)
      <4>1. Holds(a, w, i, y) <=> \E p \in a[w][i] : Holds(a, Left[w], p[1], y) /\ Holds(a, Right[w], p[2], y)
        BY <1>2, NodeHolds
      <4>2. Holds(b, w, i, z) <=> \E p \in a[w][i] : Holds(b, Left[w], p[1], z) /\ Holds(b, Right[w], p[2], z)
        BY <1>1, <1>2, <2>2, NodeHolds
      <4>3. ASSUME NEW p \in a[w][i]
            PROVE  /\ Holds(a, Left[w], p[1], y) <=> Holds(b, Left[w], p[1], z)
                   /\ Holds(a, Right[w], p[2], y) <=> Holds(b, Right[w], p[2], z)
        <5>1. p[1] \in Slots(a, Left[w]) /\ p[2] \in Slots(a, Right[w])
          BY <1>2, PairIs
        <5> QED  BY <1>5, <3>1, <5>1 DEF Shifted
      <4> QED  BY <4>1, <4>2, <4>3
    <3> QED  BY <2>1, <3>2 DEF Shifted
  <2>3. CASE w = u
    <3> DEFINE s == Sibling(c)
               gone == IF value THEN 2 ELSE 1
    <3>0. s \in P /\ s # c
      BY <1>1, <1>5, <2>3, SiblingOf DEF Children
    <3>1. Shifted(a, b, s, y, z)
      BY <3>0
    <3>2. ASSUME NEW i \in DOMAIN a[w] PROVE Holds(a, w, i, y) <=> Holds(b, w, i, z)
      <4>1. Holds(a, w, i, y) <=> \E p \in a[w][i] : Holds(a, c, p[Side(c)], y) /\ Holds(a, s, p[Side(s)], y)
        BY <1>1, <1>2, <2>3, SidesHold
      <4>2. Holds(b, w, i, z) <=> \E q \in b[w][i] : Holds(b, c, q[Side(c)], z) /\ Holds(b, s, q[Side(s)], z)
        BY <1>1, <1>2, <2>3, SidesHold
      <4>3. b[w][i] = {Renamed(p, c, One) : p \in {q \in a[w][i] : q[Side(c)] # gone}}
        BY <1>1, <2>3 DEF Cofactor, Pos, Neg
      <4>4. ASSUME NEW p \in a[w][i]
            PROVE  /\ Holds(a, c, p[Side(c)], y) <=> p[Side(c)] # gone
                   /\ Holds(a, s, p[Side(s)], y) <=> Holds(b, s, p[Side(s)], z)
        <5>1. p[Side(c)] \in {1, 2, 3} /\ p[Side(s)] \in Slots(a, s)
          BY <1>1, <1>2, <2>3, SidesIs, LeafSlots
        <5>2. Holds(a, c, p[Side(c)], y) <=> (p[Side(c)] = 1 /\ c \in y) \/ (p[Side(c)] = 2 /\ c \notin y) \/ p[Side(c)] = 3
          BY <1>2, <5>1, LeafHolds
        <5>3. Holds(a, c, p[Side(c)], y) <=> p[Side(c)] # gone
          <6>1. CASE value
            BY <1>3, <5>1, <5>2, <6>1
          <6>2. CASE ~value
            BY <1>3, <5>1, <5>2, <6>2
          <6> QED  BY <6>1, <6>2
        <5> QED  BY <3>1, <5>1, <5>3 DEF Shifted
      <4>5. ASSUME NEW p PROVE Renamed(p, c, One)[Side(c)] = 3 /\ Renamed(p, c, One)[Side(s)] = p[Side(s)]
        BY <1>1, RenamedIs DEF One
      <4>6. Holds(b, c, 3, z)
        BY <1>2, LeafHolds
      <4> HIDE DEF gone, s
      <4>7. ASSUME Holds(a, w, i, y) PROVE Holds(b, w, i, z)
        <5>1. PICK p \in a[w][i] : Holds(a, c, p[Side(c)], y) /\ Holds(a, s, p[Side(s)], y)
          BY <4>1, <4>7
        <5> DEFINE q == Renamed(p, c, One)
        <5>2. p[Side(c)] # gone /\ Holds(b, s, p[Side(s)], z)
          BY <4>4, <5>1
        <5>3. q \in b[w][i]
          BY <4>3, <5>2
        <5>4. Holds(b, c, q[Side(c)], z) /\ Holds(b, s, q[Side(s)], z)
          BY <4>5, <4>6, <5>2
        <5> HIDE DEF q
        <5> QED  BY <4>2, <5>3, <5>4
      <4>8. ASSUME Holds(b, w, i, z) PROVE Holds(a, w, i, y)
        <5>1. PICK q \in b[w][i] : Holds(b, c, q[Side(c)], z) /\ Holds(b, s, q[Side(s)], z)
          BY <4>2, <4>8
        <5>2. PICK p \in a[w][i] : p[Side(c)] # gone /\ q = Renamed(p, c, One)
          BY <4>3
        <5>3. Holds(b, s, p[Side(s)], z)
          BY <4>5, <5>1, <5>2
        <5> QED  BY <4>1, <4>4, <5>2, <5>3
      <4> QED  BY <4>7, <4>8
    <3> QED  BY <2>1, <3>2 DEF Shifted
  <2> HIDE DEF P
  <2> QED  BY <2>1, <2>2, <2>3
<1> HIDE DEF P
<1>6. Vtree \subseteq P
  BY <1>4, <1>5, UpInduction
<1> QED  BY <1>6 DEF P, y, a, b, e

\* Dropping false nodes changes nothing an assignment satisfies, and leaves no
\* pair that names an empty node.
LEMMA DroppedHolds ==
  ASSUME NEW levels, InRange(levels), Deterministic(levels), NEW z
  PROVE  \A t \in Vtree : Alike2(levels, FalseNodesDropped(levels), t, z)
<1> DEFINE made == FalseNodesDropped(levels)
           P == {t \in Vtree : Alike2(levels, made, t, z)}
<1>1. /\ made = [t \in Internal |-> made[t]] /\ Thinned(levels, made)
      /\ \A t \in Internal : \A k \in DOMAIN levels[t] : made[t][k] = Unfalse(made, t, levels[t][k])
  BY DroppedIs
<1> HIDE DEF made
<1>2. InRange(made) /\ \A t \in Internal : DOMAIN made[t] = DOMAIN levels[t]
  BY <1>1, ThinnedSound DEF Thinned
<1>3. Leaf \subseteq P
  BY <1>2, LeafAlike DEF Vtree
<1>4. ASSUME NEW t \in Internal, Left[t] \in P, Right[t] \in P PROVE t \in P
  <2>1. Slots(levels, t) = DOMAIN levels[t] /\ t \in Vtree
    BY InternalIs DEF Slots, Vtree
  <2>2. ASSUME NEW c \in Vtree, c \in P, c \notin Leaf, NEW i \in Slots(levels, c), Holds(levels, c, i, z) PROVE made[c][i] # {}
    <3>1. c \in Internal /\ i \in DOMAIN made[c] /\ Holds(made, c, i, z)
      BY <1>2, <2>2 DEF Vtree, Slots, Alike2
    <3> QED  BY <1>2, <3>1, NodeHolds
  <2>3. ASSUME NEW i \in DOMAIN levels[t] PROVE Holds(levels, t, i, z) <=> Holds(made, t, i, z)
    <3>1. Holds(levels, t, i, z) <=> \E p \in levels[t][i] : Holds(levels, Left[t], p[1], z) /\ Holds(levels, Right[t], p[2], z)
      BY NodeHolds
    <3>2. Holds(made, t, i, z) <=> \E p \in made[t][i] : Holds(made, Left[t], p[1], z) /\ Holds(made, Right[t], p[2], z)
      BY <1>2, NodeHolds
    <3>3. ASSUME NEW p \in levels[t][i]
          PROVE  /\ Holds(levels, Left[t], p[1], z) <=> Holds(made, Left[t], p[1], z)
                 /\ Holds(levels, Right[t], p[2], z) <=> Holds(made, Right[t], p[2], z)
                 /\ Holds(levels, Left[t], p[1], z) /\ Holds(levels, Right[t], p[2], z) => p \in made[t][i]
      <4>1. p[1] \in Slots(levels, Left[t]) /\ p[2] \in Slots(levels, Right[t])
        BY PairIs
      <4>2. /\ Holds(levels, Left[t], p[1], z) <=> Holds(made, Left[t], p[1], z)
            /\ Holds(levels, Right[t], p[2], z) <=> Holds(made, Right[t], p[2], z)
        BY <1>4, <4>1 DEF Alike2
      <4>3. ASSUME Holds(levels, Left[t], p[1], z), Holds(levels, Right[t], p[2], z) PROVE p \in made[t][i]
        <5>1. Left[t] \in Leaf \/ made[Left[t]][p[1]] # {}
          BY <1>4, <2>2, <4>1, <4>3
        <5>2. Right[t] \in Leaf \/ made[Right[t]][p[2]] # {}
          BY <1>4, <2>2, <4>1, <4>3
        <5>3. made[t][i] = Unfalse(made, t, levels[t][i])
          BY <1>1
        <5> QED  BY <5>1, <5>2, <5>3 DEF Unfalse
      <4> QED  BY <4>2, <4>3
    <3>4. made[t][i] \subseteq levels[t][i]
      BY <1>1 DEF Thinned
    <3> QED  BY <3>1, <3>2, <3>3, <3>4
  <2> QED  BY <2>1, <2>3 DEF Alike2
<1> HIDE DEF P
<1>5. Vtree \subseteq P
  BY <1>3, <1>4, UpInduction
<1> QED  BY <1>5 DEF P, made

\* What dropping false nodes leaves.
LEMMA PropagateFalseIs ==
  ASSUME NEW d, Sound(d)
  PROVE  LET made == PropagateFalse(d)
             levels == FalseNodesDropped(d.levels)
         IN  /\ made.levels = levels
             /\ made.out = IF levels[Root][d.out] = {} THEN Zero ELSE d.out
             /\ Owing(d) => Owing(made)
<1> DEFINE levels == FalseNodesDropped(d.levels)
           swept  == {t \in Internal : \E c \in Children(t) \ Leaf : {} \in {levels[c][i] : i \in DOMAIN levels[c]}}
           owed   == {t \in swept : levels[t] # <<>>}
           loose  == IF owed = {} THEN d.loose ELSE Unknown
           flag   == IF owed = {} THEN d.certified ELSE FALSE
           a      == d.contract \cup owed
           b      == d.leaves \cup owed
           out    == IF levels[Root][d.out] = {} THEN Zero ELSE d.out
           inv == Invalidate(d, owed)
<1>1. d = Diagram(d.levels, d.out, d.contract, d.leaves, d.loose, d.certified)
  BY SoundIs
<1>2. PropagateFalse(d) = [inv EXCEPT !.levels = levels, !.out = IF levels[Root][inv.out] = {} THEN Zero ELSE inv.out]
  BY DEF PropagateFalse
<1> HIDE DEF levels, owed
<1>3. inv = Diagram(d.levels, d.out, a, b, loose, flag)
  BY <1>1, InvalidateIs
<1>4. Owing(d) => loose = Unknown /\ ~flag
  BY DEF Owing
<1> HIDE DEF a, b, loose, flag
<1>5. inv.out = d.out
  BY <1>3, DiagramIs
<1> DEFINE one == [inv EXCEPT !.levels = levels]
<1>6. PropagateFalse(d) = [one EXCEPT !.out = out]
  BY <1>2, <1>5
<1> HIDE DEF inv, out
<1>7. one = Diagram(levels, d.out, a, b, loose, flag)
  <2>1. [Diagram(d.levels, d.out, a, b, loose, flag) EXCEPT !.levels = levels]
          = Diagram(levels, d.out, a, b, loose, flag)
    BY DiagramWith
  <2> QED  BY <1>3, <2>1
<1> HIDE DEF one
<1>8. PropagateFalse(d) = Diagram(levels, out, a, b, loose, flag)
  BY <1>6, <1>7, DiagramWith
<1> DEFINE made == PropagateFalse(d)
<1>9. made.levels = levels /\ made.out = out /\ made.loose = loose /\ made.certified = flag
  BY <1>8, DiagramIs
<1> HIDE DEF made
<1>10. Owing(d) => Owing(made)
  BY <1>4, <1>9 DEF Owing
<1> QED  BY <1>9, <1>10 DEF made, levels, out

\* Dropping false nodes changes no function; the nodes left empty are named by
\* no pair.
LEMMA PropagateFalseFn ==
  ASSUME NEW d, Sound(d), d.out # Zero, Owing(d)
  PROVE  LET made == PropagateFalse(d)
         IN  Fn(made) = Fn(d) /\ Prunable(made) /\ Owing(made)
<1> DEFINE made == PropagateFalse(d)
           levels == FalseNodesDropped(d.levels)
<1>1. /\ made.levels = levels
      /\ made.out = IF levels[Root][d.out] = {} THEN Zero ELSE d.out
      /\ Owing(made)
  BY PropagateFalseIs
<1>2. InRange(d.levels) /\ Deterministic(d.levels) /\ d.out \in DOMAIN d.levels[Root]
  BY SoundIs
<1>3. /\ Thinned(d.levels, levels)
      /\ \A t \in Internal : \A k \in DOMAIN d.levels[t] : levels[t][k] = Unfalse(levels, t, d.levels[t][k])
  BY <1>2, DroppedIs
<1>4. Sound(made)
  BY PropagateFalseSound
<1>5. ASSUME NEW z \in SUBSET Leaf PROVE Holds(levels, Root, d.out, z) <=> Holds(d.levels, Root, d.out, z)
  <2>1. Alike2(d.levels, levels, Root, z)
    BY <1>2, RootIs, DroppedHolds DEF Vtree
  <2> HIDE DEF levels
  <2> QED  BY <1>2, <2>1, RootIs, InternalIs DEF Alike2, Slots
<1> HIDE DEF made, levels
<1>6. InRange(levels) /\ d.out \in DOMAIN levels[Root]
  BY <1>1, <1>2, <1>3, <1>4, SoundIs, RootIs DEF Thinned
<1>7. NamesLive(levels)
  <2>1. ASSUME NEW t \in Internal, NEW i \in DOMAIN levels[t], NEW p \in levels[t][i]
        PROVE  /\ Left[t] \notin Leaf => levels[Left[t]][p[1]] # {}
               /\ Right[t] \notin Leaf => levels[Right[t]][p[2]] # {}
    <3>1. i \in DOMAIN d.levels[t]
      BY <1>3, <2>1 DEF Thinned
    <3>2. p \in Unfalse(levels, t, d.levels[t][i])
      BY <1>3, <2>1, <3>1
    <3> QED  BY <3>2 DEF Unfalse
  <2> QED  BY <2>1 DEF NamesLive
<1>8. Fn(made) = Fn(d)
  <2>1. CASE levels[Root][d.out] # {}
    <3>1. made.out = d.out
      BY <1>1, <2>1
    <3> QED  BY <1>1, <1>4, <1>5, <3>1, SameFn
  <2>2. CASE levels[Root][d.out] = {}
    <3>1. Fn(made) = {}
      BY <1>1, <1>4, <2>2, FnIs
    <3>2. \A z \in SUBSET Leaf : z \notin Fn(d)
      BY <1>5, <1>6, <2>2, RootIs, NodeHolds, FnHolds
    <3>3. Fn(d) \subseteq SUBSET Leaf
      BY FnHolds
    <3> QED  BY <3>1, <3>2, <3>3
  <2> QED  BY <2>1, <2>2
<1>9. Prunable(made)
  BY <1>1, <1>7 DEF Prunable, Owing
<1> QED  BY <1>1, <1>8, <1>9 DEF made

\* What conditioning computes, and that what it leaves is fit for the prune
\* that follows.
LEMMA ConditionFn ==
  ASSUME NEW d, Sound(d), NodesLive(d.levels), NEW c \in Leaf, NEW value \in BOOLEAN
  PROVE  LET made == Condition(d, c, value)
         IN  /\ Fn(made) = {z \in SUBSET Leaf : Set(z, c, value) \in Fn(d)}
             /\ d.out # Zero => NodesLive(made.levels) \/ (Prunable(made) /\ Owing(made))
<1> DEFINE cut == Restricted(d, c, value)
           made == Condition(d, c, value)
           t == Parent[c]
           answer == {z \in SUBSET Leaf : Set(z, c, value) \in Fn(d)}
<1>1. CASE d.out = Zero
  <2>1. made = d
    BY <1>1 DEF Condition
  <2>2. Fn(d) = {}
    BY <1>1, FnIs
  <2>3. Fn(made) = answer
    BY <2>1, <2>2
  <2> QED  BY <1>1, <2>3
<1>2. CASE d.out # Zero
  <2>1. /\ t \in Internal
        /\ cut.out = d.out
        /\ \A u \in Internal \ {t} : cut.levels[u] = d.levels[u]
        /\ DOMAIN cut.levels[t] = DOMAIN d.levels[t]
        /\ (cut = d /\ d.levels[t] = <<>>) \/ Owing(cut)
    BY RestrictedIs
  <2>2. made = IF Emptied(d, cut) THEN PropagateFalse(cut) ELSE cut
    BY <1>2 DEF Condition
  <2>3. Sound(cut)
    BY RestrictedSound
  <2>4. Root \in Vtree /\ Root # c /\ d.out \in Slots(d.levels, Root)
    BY <1>2, RootIs, InternalIs, SoundIs DEF Vtree, Slots
  <2>5. ASSUME NEW z \in SUBSET Leaf PROVE z \in Fn(cut) <=> Set(z, c, value) \in Fn(d)
    <3>1. Set(z, c, value) \in SUBSET Leaf
      BY DEF Set
    <3>2. Shifted(d.levels, cut.levels, Root, Set(z, c, value), z)
      BY <2>4, RestrictedHolds
    <3> HIDE DEF cut
    <3>3. Holds(d.levels, Root, d.out, Set(z, c, value)) <=> Holds(cut.levels, Root, d.out, z)
      BY <2>4, <3>2 DEF Shifted
    <3>4. z \in Fn(cut) <=> Holds(cut.levels, Root, d.out, z)
      BY <1>2, <2>1, <2>3, FnHolds
    <3>5. Set(z, c, value) \in Fn(d) <=> Holds(d.levels, Root, d.out, Set(z, c, value))
      BY <1>2, <3>1, FnHolds
    <3> QED  BY <3>3, <3>4, <3>5
  <2>6. Fn(cut) \subseteq SUBSET Leaf
    BY <2>3, FnHolds
  <2> HIDE DEF cut
  <2>7. Fn(cut) = answer
    BY <2>5, <2>6
  <2>8. CASE ~Emptied(d, cut)
    <3>1. made = cut
      BY <2>2, <2>8
    <3>2. ASSUME NEW u \in Internal, NEW k \in DOMAIN cut.levels[u] PROVE cut.levels[u][k] # {}
      <4>1. k \in DOMAIN d.levels[u]
        BY <2>1, <3>2
      <4>2. d.levels[u][k] # {}
        BY <4>1 DEF NodesLive
      <4> QED  BY <2>8, <4>2 DEF Emptied
    <3> QED  BY <2>7, <3>1, <3>2 DEF NodesLive
  <2>9. CASE Emptied(d, cut)
    <3>1. made = PropagateFalse(cut)
      BY <2>2, <2>9
    <3>2. Owing(cut)
      BY <2>1, <2>9 DEF Emptied
    <3>3. Fn(made) = Fn(cut) /\ Prunable(made) /\ Owing(made)
      BY <1>2, <2>1, <2>3, <3>1, <3>2, PropagateFalseFn
    <3> QED  BY <2>7, <3>3
  <2> QED  BY <2>8, <2>9
<1> QED  BY <1>1, <1>2

(***************************************************************************)
(* The invariant.                                                          *)
(***************************************************************************)
\* The calls an owner makes, and each as the promise sees it: diagrams by what
\* they compute.
Asked(ask) == \/ \E d \in Operand : ask = [name |-> "load", operand |-> d]
              \/ \E d \in Operand : ask = [name |-> "and", operand |-> d]
              \/ ask = [name |-> "minimize"]
              \/ ask = [name |-> "negate"]
              \/ \E c \in Leaf, v \in BOOLEAN : ask = [name |-> "condition", var |-> c, value |-> v]

AskedFn(ask) == [k \in DOMAIN ask |-> IF k \in {"operand", "otherwise"} THEN Fn(ask[k]) ELSE ask[k]]

FnNow    == Fn(IF call # Idle /\ InPlace THEN work ELSE held)
\* The two variables of the promise (Reduction, Promise).
AskedNow == IF call = Idle THEN call ELSE AskedFn(call.ask)

\* A diagram without empty nodes, or one a conditioning left for its prune.
Fit(d, c) == \/ NodesLive(d.levels)
             \/ c.step = "prune" /\ c.scope = "Whole" /\ c.name = "condition" /\ Prunable(d)

\* What a call in flight builds is its answer, however far it has been reduced.
Answers(d, c, h) == /\ Asked(c.ask) /\ c.name = c.ask.name
                    /\ Fit(d, c)
                    /\ c.name # "minimize" => Fn(d) = Promise!Answer(Fn(h), AskedFn(c.ask))

\* The owner's diagram is without empty nodes, and the call in flight is on its
\* way to its answer.
Promised == /\ NodesLive(held.levels)
            /\ call # Idle => Answers(work, call, held)

\* A call on an operand, as the promise sees it.
LEMMA OperandAsked ==
  ASSUME NEW n, NEW d
  PROVE  AskedFn([name |-> n, operand |-> d]) = [name |-> n, operand |-> Fn(d)]
<1> DEFINE ask == [name |-> n, operand |-> d]
           f(k) == IF k \in {"operand", "otherwise"} THEN Fn(ask[k]) ELSE ask[k]
<1>1. DOMAIN ask = {"name", "operand"}
  OBVIOUS
<1>2. f("name") = n /\ f("operand") = Fn(d)
  OBVIOUS
<1>3. AskedFn(ask) = [k \in {"name", "operand"} |-> f(k)]
  BY <1>1 DEF AskedFn
<1> HIDE DEF f
<1>4. [k \in {"name", "operand"} |-> f(k)] = [name |-> n, operand |-> Fn(d)]
  BY <1>2
<1> QED  BY <1>3, <1>4

\* A call without arguments.
LEMMA PlainAsked ==
  ASSUME NEW n
  PROVE  AskedFn([name |-> n]) = [name |-> n]
<1> DEFINE ask == [name |-> n]
<1>1. DOMAIN ask = {"name"} /\ ask.name = n
  OBVIOUS
<1>2. \A k \in {"name"} : k \notin {"operand", "otherwise"}
  OBVIOUS
<1>3. AskedFn(ask) = [k \in {"name"} |-> ask[k]]
  BY <1>1, <1>2 DEF AskedFn
<1> QED  BY <1>3

\* A conditioning: its variable and value are not diagrams.
LEMMA ConditionAsked ==
  ASSUME NEW c, NEW v
  PROVE  AskedFn([name |-> "condition", var |-> c, value |-> v]) = [name |-> "condition", var |-> c, value |-> v]
<1> DEFINE ask == [name |-> "condition", var |-> c, value |-> v]
<1>1. DOMAIN ask = {"name", "var", "value"}
  OBVIOUS
<1>2. \A k \in {"name", "var", "value"} : k \notin {"operand", "otherwise"}
  OBVIOUS
<1>3. AskedFn(ask) = [k \in {"name", "var", "value"} |-> ask[k]]
  BY <1>1, <1>2 DEF AskedFn
<1> QED  BY <1>3

\* The promised answers.
LEMMA AnswerIs ==
  ASSUME NEW f, NEW g
  PROVE  /\ Promise!Answer(f, [name |-> "load", operand |-> g]) = g
         /\ Promise!Answer(f, [name |-> "and", operand |-> g]) = f \cap g
         /\ Promise!Answer(f, [name |-> "minimize"]) = f
         /\ Promise!Answer(f, [name |-> "negate"]) = (SUBSET Leaf) \ f
<1>1. Promise!Answer(f, [name |-> "load", operand |-> g]) = g
  BY DEF Promise!Answer
<1>2. Promise!Answer(f, [name |-> "and", operand |-> g]) = f \cap g
  BY DEF Promise!Answer
<1>3. Promise!Answer(f, [name |-> "minimize"]) = f
  BY DEF Promise!Answer
<1>4. Promise!Answer(f, [name |-> "negate"]) = (SUBSET Leaf) \ f
  BY DEF Promise!Answer, Promise!Assignment
<1> QED  BY <1>1, <1>2, <1>3, <1>4

\* The promised cofactor.
LEMMA ConditionAnswer ==
  ASSUME NEW f, NEW c, NEW v
  PROVE  Promise!Answer(f, [name |-> "condition", var |-> c, value |-> v]) = {z \in SUBSET Leaf : Set(z, c, v) \in f}
BY DEF Promise!Answer, Promise!Assignment, Promise!Override, Set

\* Every call made is one the promise allows.
LEMMA AskedIs ==
  ASSUME NEW ask, Asked(ask)
  PROVE  /\ AskedFn(ask) \in Promise!Calls /\ AskedFn(ask) # Idle
         /\ AskedFn(ask).name = ask.name /\ ask.name \notin {"idle", "add"}
         /\ ask.name = "minimize" => AskedFn(ask) = [name |-> "minimize"]
<1>1. ASSUME NEW n \in {"load", "and"}, NEW d \in Operand, ask = [name |-> n, operand |-> d]
      PROVE  /\ AskedFn(ask) \in Promise!Calls /\ AskedFn(ask).name = ask.name
             /\ ask.name \notin {"idle", "add", "minimize"}
  <2>1. AskedFn(ask) = [name |-> n, operand |-> Fn(d)]
    BY <1>1, OperandAsked
  <2>2. Fn(d) \in OperandFns
    BY DEF OperandFns
  <2> QED  BY <1>1, <2>1, <2>2 DEF Promise!Calls
<1>2. ASSUME NEW n \in {"minimize", "negate"}, ask = [name |-> n]
      PROVE  /\ AskedFn(ask) \in Promise!Calls /\ AskedFn(ask).name = ask.name
             /\ ask.name \notin {"idle", "add"} /\ AskedFn(ask) = [name |-> ask.name]
  BY <1>2, PlainAsked DEF Promise!Calls
<1>3. ASSUME NEW c \in Leaf, NEW v \in BOOLEAN, ask = [name |-> "condition", var |-> c, value |-> v]
      PROVE  /\ AskedFn(ask) \in Promise!Calls /\ AskedFn(ask).name = ask.name
             /\ ask.name \notin {"idle", "add", "minimize"}
  BY <1>3, ConditionAsked DEF Promise!Calls
<1>4. /\ AskedFn(ask) \in Promise!Calls /\ AskedFn(ask).name = ask.name
      /\ ask.name \notin {"idle", "add"} /\ (ask.name = "minimize" => AskedFn(ask) = [name |-> "minimize"])
  <2>1. CASE \E d \in Operand : ask = [name |-> "load", operand |-> d] \/ ask = [name |-> "and", operand |-> d]
    BY <1>1, <2>1
  <2>2. CASE ask = [name |-> "minimize"] \/ ask = [name |-> "negate"]
    BY <1>2, <2>2
  <2>3. CASE \E c \in Leaf, v \in BOOLEAN : ask = [name |-> "condition", var |-> c, value |-> v]
    BY <1>3, <2>3
  <2> QED  BY <2>1, <2>2, <2>3 DEF Asked
<1> QED  BY <1>4 DEF Idle

(***************************************************************************)
(* The three ways a step meets the promise.                                *)
(***************************************************************************)
\* A call begun asks for its answer.
LEMMA BeginAsks ==
  ASSUME Promised, NEW ask, NEW plan, NEW scope, NEW step, NEW old, NEW diagram,
         Begin(ask, plan, scope, step, old, diagram), Asked(ask),
         NodesLive(diagram.levels) \/ (step = "prune" /\ scope = "Whole" /\ ask.name = "condition" /\ Prunable(diagram)),
         IF ask.name = "minimize" THEN diagram = held ELSE Fn(diagram) = Promise!Answer(Fn(held), AskedFn(ask))
  PROVE  Promised' /\ Promise!Ask
<1>1. /\ call = Idle /\ call' # Idle /\ call'.name = ask.name /\ call'.ask = ask
      /\ call'.scope = scope /\ call'.step = step /\ work' = diagram /\ held' = held
  <2> DEFINE no == FALSE
             none == {}
             made == InFlight(ask.name, ask, plan, scope, step, old, no, none, NotSweeping)
  <2>1. call' = made
    BY DEF Begin, InFlight
  <2> HIDE DEF no, none
  <2>2. made # Idle /\ made.name = ask.name /\ made.ask = ask /\ made.scope = scope /\ made.step = step
    BY InFlightIs
  <2> HIDE DEF made
  <2> QED  BY <2>1, <2>2 DEF Begin
<1>2. Promised'
  BY <1>1 DEF Promised, Answers, Fit
<1>3. AskedFn(ask) \in Promise!Calls
  BY AskedIs
<1>4. FnNow = Fn(held) /\ AskedNow = Idle
  BY <1>1 DEF FnNow, AskedNow
<1>5. FnNow' = Fn(held) /\ AskedNow' = AskedFn(ask)
  BY <1>1 DEF FnNow, AskedNow, InPlace
<1>6. AskedNow = Idle /\ AskedNow' \in Promise!Calls /\ FnNow' = FnNow
  BY <1>3, <1>4, <1>5
<1>7. Promise!Ask
  BY <1>6 DEF Promise!Ask, Promise!Idle, FnNow, AskedNow, AskedFn, Idle
<1> QED  BY <1>2, <1>7

\* A step within a call shows nothing when the diagram computes what it did.
LEMMA Stutters ==
  ASSUME Promised, call # Idle, call' # Idle, call'.ask = call.ask, call'.name = call.name, held' = held,
         Fn(work') = Fn(work), NodesLive(work'.levels)
  PROVE  Promised' /\ UNCHANGED Promise!vars
<1>1. Promised'
  BY DEF Promised, Answers, Fit
<1>2. FnNow' = FnNow
  BY DEF FnNow, InPlace
<1>3. AskedNow' = AskedNow
  BY DEF AskedNow
<1> QED  BY <1>1, <1>2, <1>3 DEF Promise!vars, FnNow, AskedNow, AskedFn

\* A call refused leaves the function held.
LEMMA Refuses ==
  ASSUME Promised, call # Idle, NEW left, RefuseWith(left),
         InPlace => Fn(left) = Fn(work) /\ NodesLive(left.levels)
  PROVE  Promised' /\ Promise!Refuse
<1>1. call' = Idle /\ held' = (IF InPlace THEN left ELSE held)
  BY DEF RefuseWith
<1>2. Promised'
  BY <1>1 DEF Promised
<1>3. FnNow' = FnNow
  BY <1>1 DEF FnNow
<1>4. AskedNow' = Idle /\ AskedNow # Idle
  <2>1. Asked(call.ask)
    BY DEF Promised, Answers
  <2> QED  BY <1>1, <2>1, AskedIs DEF AskedNow
<1>5. Promise!Refuse
  BY <1>3, <1>4 DEF Promise!Refuse, Promise!Idle, FnNow, AskedNow, AskedFn, Idle
<1> QED  BY <1>2, <1>5

\* A call that returns gives its answer.
LEMMA Returns ==
  ASSUME Promised, Return
  PROVE  Promised' /\ Promise!Return
<1>1. call # Idle /\ call.step = "done" /\ held' = work /\ call' = Idle
  BY DEF Return, At
<1>2. /\ Asked(call.ask) /\ call.name = call.ask.name /\ NodesLive(work.levels)
      /\ call.name # "minimize" => Fn(work) = Promise!Answer(Fn(held), AskedFn(call.ask))
  BY <1>1 DEF Promised, Answers, Fit
<1>3. Promised'
  BY <1>1, <1>2 DEF Promised
<1>4. /\ AskedFn(call.ask) # Idle /\ AskedFn(call.ask).name = call.ask.name /\ call.ask.name # "add"
      /\ call.ask.name = "minimize" => AskedFn(call.ask) = [name |-> "minimize"]
  BY <1>2, AskedIs
<1>5. FnNow' = Promise!Answer(FnNow, AskedFn(call.ask))
  <2>1. FnNow' = Fn(work)
    BY <1>1 DEF FnNow
  <2>2. CASE call.name = "minimize"
    <3>1. FnNow = Fn(work)
      BY <1>1, <2>2 DEF FnNow, InPlace
    <3> QED  BY <1>2, <1>4, <2>1, <2>2, <3>1, AnswerIs
  <2>3. CASE call.name # "minimize"
    <3>1. FnNow = Fn(held)
      BY <1>1, <2>3 DEF FnNow, InPlace
    <3> QED  BY <1>2, <2>1, <2>3, <3>1
  <2> QED  BY <2>2, <2>3
<1>6. AskedNow = AskedFn(call.ask) /\ AskedNow' = Idle
  BY <1>1 DEF AskedNow
<1>7. Promise!Answerable(FnNow, AskedNow)
  BY <1>2, <1>4, <1>6 DEF Promise!Answerable
<1>8. /\ AskedNow # Idle /\ Promise!Answerable(FnNow, AskedNow)
      /\ AskedNow' = Idle /\ FnNow' = Promise!Answer(FnNow, AskedNow)
  BY <1>4, <1>5, <1>6, <1>7
<1>9. Promise!Return
  BY <1>8 DEF Promise!Return, Promise!Idle, FnNow, AskedNow, AskedFn, Idle
<1> QED  BY <1>3, <1>9

(***************************************************************************)
(* Each step.                                                              *)
(***************************************************************************)
\* A call in flight, and the same call at another point.
Flight(c) ==
  c = InFlight(c.name, c.ask, c.plan, c.scope, c.step, c.old, c.rewrote, c.leaves, c.sweep)
SameCall(c, e) == Flight(e) /\ e.ask = c.ask /\ e.name = c.name

\* What a step changes in its call is neither the call's name nor what was asked.
LEMMA FieldKept ==
  ASSUME NEW c, Flight(c), NEW x
  PROVE  /\ SameCall(c, [c EXCEPT !.step = x]) /\ SameCall(c, [c EXCEPT !.leaves = x])
         /\ SameCall(c, [c EXCEPT !.rewrote = x]) /\ SameCall(c, [c EXCEPT !.sweep = x])
<1>1. ASSUME NEW st, NEW r, NEW lv, NEW w
      PROVE  SameCall(c, InFlight(c.name, c.ask, c.plan, c.scope, st, c.old, r, lv, w))
  <2> DEFINE e == InFlight(c.name, c.ask, c.plan, c.scope, st, c.old, r, lv, w)
  <2>1. /\ e.name = c.name /\ e.ask = c.ask /\ e.plan = c.plan /\ e.scope = c.scope /\ e.step = st /\ e.old = c.old
        /\ e.rewrote = r /\ e.leaves = lv /\ e.sweep = w
    BY InFlightIs
  <2>2. e = InFlight(c.name, c.ask, c.plan, c.scope, st, c.old, r, lv, w)
    OBVIOUS
  <2> HIDE DEF e
  <2>3. Flight(e)
    BY <2>1, <2>2 DEF Flight
  <2>4. SameCall(c, e)
    BY <2>1, <2>3 DEF SameCall
  <2> QED  BY <2>4 DEF e
<1>2. c = InFlight(c.name, c.ask, c.plan, c.scope, c.step, c.old, c.rewrote, c.leaves, c.sweep)
  BY DEF Flight
<1>3. [c EXCEPT !.step = x] = InFlight(c.name, c.ask, c.plan, c.scope, x, c.old, c.rewrote, c.leaves, c.sweep)
  BY <1>2, InFlightStep
<1>4. [c EXCEPT !.leaves = x] = InFlight(c.name, c.ask, c.plan, c.scope, c.step, c.old, c.rewrote, x, c.sweep)
  BY <1>2, InFlightLeaves
<1>5. [c EXCEPT !.rewrote = x] = InFlight(c.name, c.ask, c.plan, c.scope, c.step, c.old, x, c.leaves, c.sweep)
  BY <1>2, InFlightRewrote
<1>6. [c EXCEPT !.sweep = x] = InFlight(c.name, c.ask, c.plan, c.scope, c.step, c.old, c.rewrote, c.leaves, x)
  BY <1>2, InFlightSweep
<1> QED  BY <1>1, <1>3, <1>4, <1>5, <1>6

\* A call in flight is not idle.
LEMMA FlightIs ==
  ASSUME NEW c, Flight(c)
  PROVE  c # Idle
<1> DEFINE n == c.name
           e == InFlight(n, c.ask, c.plan, c.scope, c.step, c.old, c.rewrote, c.leaves, c.sweep)
<1>1. e # Idle
  BY InFlightIs
<1> QED  BY <1>1 DEF Flight

\* Two changes of one call.
LEMMA Both ==
  ASSUME NEW c, NEW d, NEW e, SameCall(c, d), SameCall(d, e)
  PROVE  SameCall(c, e)
BY DEF SameCall

\* A call in flight, sound and, past its prune, without empty nodes.
LEMMA InCall ==
  ASSUME IInv, Promised, call # Idle
  PROVE  /\ Sound(work) /\ Ready(work, call) /\ Flight(call)
         /\ call.step # "prune" \/ InPlace => NodesLive(work.levels)
BY DEF IInv, Promised, Answers, Fit, Ready, Flight, InPlace

\* What every step must show.
Shows == Promised' /\ [Promise!Next]_Promise!vars

\* A step within a call.
LEMMA Within ==
  ASSUME Promised, call # Idle, SameCall(call, call'), held' = held,
         Fn(work') = Fn(work), NodesLive(work'.levels)
  PROVE  Shows
<1>1. call' # Idle /\ call'.ask = call.ask /\ call'.name = call.name
  BY FlightIs DEF SameCall
<1>2. Promised' /\ UNCHANGED Promise!vars
  BY <1>1, Stutters
<1> QED  BY <1>2 DEF Shows

\* A step that refuses the call.
LEMMA Refused ==
  ASSUME Promised, call # Idle, NEW left, RefuseWith(left),
         InPlace => Fn(left) = Fn(work) /\ NodesLive(left.levels)
  PROVE  Shows
<1>1. Promised' /\ Promise!Refuse
  BY Refuses
<1> QED  BY <1>1 DEF Shows, Promise!Next

\* A diagram with the same nodes computes the same.
LEMMA SameNodes ==
  ASSUME NEW d, NEW e, e.levels = d.levels, e.out = d.out
  PROVE  Fn(e) = Fn(d) /\ (NodesLive(d.levels) => NodesLive(e.levels))
BY FnOf

\* PruneRefused: the diagram is as the call found it.
LEMMA PruneRefusedShows == IInv /\ Promised /\ PruneRefused => Shows
<1> SUFFICES ASSUME IInv, Promised, PruneRefused PROVE Shows
  OBVIOUS
<1>1. call # Idle /\ RefuseWith(work)
  BY DEF PruneRefused, At
<1>2. InPlace => NodesLive(work.levels)
  BY <1>1, InCall
<1> QED  BY <1>1, <1>2, Refused

\* PrunePass.
LEMMA PrunePassShows == IInv /\ Promised /\ PrunePass => Shows
<1> SUFFICES ASSUME IInv, Promised, PrunePass PROVE Shows
  OBVIOUS
<1> DEFINE below == call.scope = "BelowRoot"
           made == Prune(work, below)
           step == IF call.plan = "Prune" THEN "done" ELSE "sweep"
<1>1. /\ call # Idle /\ call.step = "prune" /\ held' = held
      /\ work' = made /\ call' = [call EXCEPT !.step = step]
  BY DEF PrunePass, At, Goto, Stay
<1>2. Sound(work) /\ Flight(call)
  BY <1>1, InCall
<1>3. NodesLive(work.levels) \/ (Prunable(work) /\ ~below)
  BY <1>1 DEF Promised, Answers, Fit
<1> HIDE DEF below, step
<1>4. Fn(made) = Fn(work) /\ (NodesLive(work.levels) \/ (Prunable(work) /\ ~below) => NodesLive(made.levels))
  BY <1>2, PruneFn
<1> HIDE DEF made
<1>5. SameCall(call, call')
  BY <1>1, <1>2, FieldKept
<1> QED  BY <1>1, <1>3, <1>4, <1>5, Within

\* CertifyComplement: by either walk.
LEMMA CertifyComplementShows == IInv /\ Promised /\ CertifyComplement => Shows
<1> SUFFICES ASSUME IInv, Promised, CertifyComplement PROVE Shows
  OBVIOUS
<1> DEFINE pruned == IF call.old # 0 THEN PruneComplement(work, call.old) ELSE Prune(work, TRUE)
           done == "done"
<1>1. /\ call # Idle /\ call.step = "complement" /\ held' = held
      /\ work' = Certified(pruned) /\ call' = [call EXCEPT !.step = done]
  BY DEF CertifyComplement, At, Goto, Stay
<1>2. Sound(work) /\ Flight(call) /\ Ready(work, call) /\ NodesLive(work.levels)
  BY <1>1, InCall
<1>3. Sound(pruned) /\ Fn(pruned) = Fn(work) /\ NodesLive(pruned.levels)
  <2>1. CASE call.old = 0
    <3> DEFINE below == TRUE
               made == Prune(work, below)
    <3>1. pruned = made
      BY <2>1
    <3> HIDE DEF below
    <3>2. Sound(made) /\ Fn(made) = Fn(work) /\ NodesLive(made.levels)
      BY <1>2, PruneSound, PruneFn
    <3> QED  BY <3>1, <3>2
  <2>2. CASE call.old # 0
    <3>1. Beside(work, call.old)
      BY <1>1, <1>2, <2>2 DEF Ready, AsTheStep
    <3> QED  BY <1>2, <2>2, <3>1, PruneComplementSound, PruneComplementFn
  <2> QED  BY <2>1, <2>2
<1> HIDE DEF pruned, done
<1>4. Certified(pruned).levels = pruned.levels /\ Certified(pruned).out = pruned.out
  <2>1. pruned = Diagram(pruned.levels, pruned.out, pruned.contract, pruned.leaves, pruned.loose, pruned.certified)
    BY <1>3, SoundIs
  <2> QED  BY <2>1 DEF Certified, Diagram
<1>5. Fn(work') = Fn(work) /\ NodesLive(work'.levels)
  BY <1>1, <1>3, <1>4, SameNodes
<1>6. SameCall(call, call')
  BY <1>1, <1>2, FieldKept
<1> QED  BY <1>1, <1>5, <1>6, Within

\* AfterSweep.
LEMMA AfterSweepShows == IInv /\ Promised /\ AfterSweep => Shows
<1> SUFFICES ASSUME IInv, Promised, AfterSweep PROVE Shows
  OBVIOUS
<1> DEFINE step == IF call.plan = "Contract" THEN "done" ELSE IF call.rewrote THEN "finish" ELSE "leaves"
<1>1. call # Idle /\ call.step = "swept" /\ held' = held /\ work' = work /\ call' = [call EXCEPT !.step = step]
  BY DEF AfterSweep, At, Goto, Stay
<1>2. Flight(call) /\ NodesLive(work.levels)
  BY <1>1, InCall
<1> HIDE DEF step
<1>3. SameCall(call, call')
  BY <1>1, <1>2, FieldKept
<1> QED  BY <1>1, <1>2, <1>3, Within

\* LeavesEnd.
LEMMA LeavesEndShows == IInv /\ Promised /\ LeavesEnd => Shows
<1> SUFFICES ASSUME IInv, Promised, LeavesEnd PROVE Shows
  OBVIOUS
<1> DEFINE step == IF call.rewrote THEN "sweep" ELSE "finish"
<1>1. call # Idle /\ call.step = "contracting" /\ held' = held /\ work' = work /\ call' = [call EXCEPT !.step = step]
  BY DEF LeavesEnd, At, Goto, Stay
<1>2. Flight(call) /\ NodesLive(work.levels)
  BY <1>1, InCall
<1> HIDE DEF step
<1>3. SameCall(call, call')
  BY <1>1, <1>2, FieldKept
<1> QED  BY <1>1, <1>2, <1>3, Within

\* Finish.
LEMMA FinishShows == IInv /\ Promised /\ Finish => Shows
<1> SUFFICES ASSUME IInv, Promised, Finish PROVE Shows
  OBVIOUS
<1> DEFINE bare == [work EXCEPT !.loose = {}]
           done == "done"
<1>1. /\ call # Idle /\ call.step = "finish" /\ held' = held
      /\ work' = (IF call.scope = "Whole" THEN Certified(work) ELSE bare) /\ call' = [call EXCEPT !.step = done]
  BY DEF Finish, At, Goto, Stay
<1>2. Sound(work) /\ Flight(call) /\ NodesLive(work.levels)
  BY <1>1, InCall
<1>3. Certified(work).levels = work.levels /\ Certified(work).out = work.out
  <2>1. work = Diagram(work.levels, work.out, work.contract, work.leaves, work.loose, work.certified)
    BY <1>2, SoundIs
  <2> QED  BY <2>1 DEF Certified, Diagram
<1>4. bare.levels = work.levels /\ bare.out = work.out
  BY <1>2, WithoutLoose
<1> HIDE DEF bare, done
<1>5. work'.levels = work.levels /\ work'.out = work.out
  BY <1>1, <1>3, <1>4
<1>6. Fn(work') = Fn(work) /\ NodesLive(work'.levels)
  BY <1>2, <1>5, SameNodes
<1>7. SameCall(call, call')
  BY <1>1, <1>2, FieldKept
<1> QED  BY <1>1, <1>6, <1>7, Within

\* LeavesStart.
LEMMA LeavesStartShows == IInv /\ Promised /\ LeavesStart => Shows
<1> SUFFICES ASSUME IInv, Promised, LeavesStart PROVE Shows
  OBVIOUS
<1> DEFINE none == {}
           made == [work EXCEPT !.leaves = none]
           step == IF work.leaves = {} THEN "finish" ELSE "contracting"
           one  == [call EXCEPT !.step = step]
           lv   == work.leaves
<1>1. /\ call # Idle /\ call.step = "leaves" /\ held' = held /\ work' = made
      /\ call' = [call EXCEPT !.step = step, !.leaves = lv]
  BY DEF LeavesStart, At, Stay
<1>2. Sound(work) /\ Flight(call) /\ NodesLive(work.levels)
  BY <1>1, InCall
<1>3. none \subseteq Internal
  OBVIOUS
<1>4. call' = [one EXCEPT !.leaves = lv]
  BY <1>1
<1> HIDE DEF none, step, lv
<1>5. made.levels = work.levels /\ made.out = work.out
  BY <1>2, <1>3, WithLists
<1> HIDE DEF made
<1>6. Fn(work') = Fn(work) /\ NodesLive(work'.levels)
  BY <1>1, <1>2, <1>5, SameNodes
<1>7. SameCall(call, one)
  BY <1>2, FieldKept
<1> HIDE DEF one
<1>8. SameCall(one, call')
  BY <1>4, <1>7, FieldKept DEF SameCall
<1>9. SameCall(call, call')
  BY <1>7, <1>8, Both
<1> QED  BY <1>1, <1>6, <1>9, Within

\* LeafLevel: both leaves of the level.
LEMMA LeafLevelShows == IInv /\ Promised /\ LeafLevel => Shows
<1> SUFFICES ASSUME IInv, Promised, LeafLevel PROVE Shows
  OBVIOUS
<1> DEFINE made == ContractLeafSides(work, NextLeaf)
           lv   == call.leaves \ {NextLeaf}
           r    == call.rewrote \/ work'.levels # work.levels
           one  == [call EXCEPT !.leaves = lv]
<1>1. /\ call # Idle /\ call.step = "contracting" /\ held' = held /\ work' = made
      /\ call' = [call EXCEPT !.leaves = lv, !.rewrote = r] /\ call.leaves # {}
  BY DEF LeafLevel, At, Stay
<1>2. Sound(work) /\ Flight(call) /\ Ready(work, call) /\ NodesLive(work.levels)
  BY <1>1, InCall
<1>3. NextLeaf \in Internal
  BY <1>1, <1>2, NextLeafIs DEF Ready, CallTyped
<1>4. Fn(made) = Fn(work) /\ NodesLive(made.levels)
  BY <1>2, <1>3, ContractLeafSidesFn
<1>5. call' = [one EXCEPT !.rewrote = r]
  BY <1>1
<1> HIDE DEF made, lv, r
<1>6. SameCall(call, one)
  BY <1>2, FieldKept
<1> HIDE DEF one
<1>7. SameCall(one, call')
  BY <1>5, <1>6, FieldKept DEF SameCall
<1>8. SameCall(call, call')
  BY <1>6, <1>7, Both
<1> QED  BY <1>1, <1>4, <1>8, Within

\* LeafRefused: before the level, or between its two leaves.
LEMMA LeafRefusedShows == IInv /\ Promised /\ LeafRefused => Shows
<1> SUFFICES ASSUME IInv, Promised, LeafRefused PROVE Shows
  OBVIOUS
<1>1. call # Idle /\ call.step = "contracting" /\ call.leaves # {}
  BY DEF LeafRefused, At
<1>2. Sound(work) /\ Ready(work, call) /\ NodesLive(work.levels)
  BY <1>1, InCall
<1>3. call.leaves \subseteq Internal /\ NextLeaf \in Internal
  BY <1>1, <1>2, NextLeafIs DEF Ready, CallTyped
<1>4. PICK d : /\ d = work \/ (Left[NextLeaf] \in Leaf /\ d = ContractLeaf(work, Left[NextLeaf]))
               /\ RefuseWith([d EXCEPT !.leaves = @ \cup LeafQueue])
  BY DEF LeafRefused
<1>5. Sound(d) /\ Fn(d) = Fn(work) /\ NodesLive(d.levels)
  BY <1>2, <1>3, <1>4, ContractLeafSound, ContractLeafFn DEF Children
<1> DEFINE x == d.leaves \cup LeafQueue
           left == [d EXCEPT !.leaves = x]
<1>6. RefuseWith(left)
  BY <1>4
<1>7. x \subseteq Internal
  BY <1>3, <1>5, SoundIs DEF LeafQueue
<1> HIDE DEF x
<1>8. left.levels = d.levels /\ left.out = d.out
  BY <1>5, <1>7, WithLists
<1> HIDE DEF left
<1>9. Fn(left) = Fn(work) /\ NodesLive(left.levels)
  BY <1>5, <1>8, SameNodes
<1> QED  BY <1>1, <1>6, <1>9, Refused

\* SweepRefused.
LEMMA SweepRefusedShows == IInv /\ Promised /\ SweepRefused => Shows
<1> SUFFICES ASSUME IInv, Promised, SweepRefused PROVE Shows
  OBVIOUS
<1>1. call # Idle /\ call.step = "sweep" /\ RefuseWith(work)
  BY DEF SweepRefused, At
<1>2. NodesLive(work.levels)
  BY <1>1, InCall
<1> QED  BY <1>1, <1>2, Refused

\* A sweep that gives its parents back, refused or stopped.
LEMMA GivenBackShows ==
  ASSUME IInv, Promised, At("sweeping"), RefuseWith(GivenBack(work))
  PROVE  Shows
<1> DEFINE x == work.contract \cup Sweeps.pending \cup (IF Sweeps.at = 0 THEN {} ELSE {Sweeps.at})
           left == GivenBack(work)
<1>1. call # Idle /\ call.step = "sweeping"
  BY DEF At
<1>2. Sound(work) /\ NodesLive(work.levels)
  BY <1>1, InCall
<1>3. left = [work EXCEPT !.contract = x]
  BY DEF GivenBack
<1> HIDE DEF x, left
<1>4. left.levels = work.levels /\ left.out = work.out
  <2>1. work = Diagram(work.levels, work.out, work.contract, work.leaves, work.loose, work.certified)
    BY <1>2, SoundIs
  <2>2. left = Diagram(work.levels, work.out, x, work.leaves, work.loose, work.certified)
    BY <1>3, <2>1 DEF Diagram
  <2> QED  BY <2>2, DiagramIs
<1>5. Fn(left) = Fn(work) /\ NodesLive(left.levels)
  BY <1>2, <1>4, SameNodes
<1> QED  BY <1>1, <1>5, Refused DEF left

\* SweepStopped.
LEMMA SweepStoppedShows == IInv /\ Promised /\ SweepStopped => Shows
<1> SUFFICES ASSUME IInv, Promised, SweepStopped PROVE Shows
  OBVIOUS
<1>1. At("sweeping") /\ RefuseWith(GivenBack(work))
  BY DEF SweepStopped
<1> QED  BY <1>1, GivenBackShows

\* ContractRefused.
LEMMA ContractRefusedShows == IInv /\ Promised /\ ContractRefused => Shows
<1> SUFFICES ASSUME IInv, Promised, ContractRefused PROVE Shows
  OBVIOUS
<1>1. At("sweeping") /\ RefuseWith(GivenBack(work))
  BY DEF ContractRefused, Searching
<1> QED  BY <1>1, GivenBackShows

\* SweepStart.
LEMMA SweepStartShows == IInv /\ Promised /\ SweepStart => Shows
<1> SUFFICES ASSUME IInv, Promised, SweepStart PROVE Shows
  OBVIOUS
<1> DEFINE none == {}
           made == [work EXCEPT !.contract = none]
           step == IF work.contract = {} THEN "swept" ELSE "sweeping"
           one  == [call EXCEPT !.step = step]
           s    == [NotSweeping EXCEPT !.pending = {p \in work.contract : MultiPair(work.levels, p)},
                                       !.whole = work.contract]
<1>1. /\ call # Idle /\ call.step = "sweep" /\ held' = held /\ work' = made
      /\ call' = [call EXCEPT !.step = step, !.sweep = s]
  BY DEF SweepStart, At, Stay
<1>2. Sound(work) /\ Flight(call) /\ NodesLive(work.levels)
  BY <1>1, InCall
<1>3. none \subseteq Internal
  OBVIOUS
<1> HIDE DEF s, step, none
<1>4. call' = [one EXCEPT !.sweep = s]
  BY <1>1
<1>5. made.levels = work.levels /\ made.out = work.out
  BY <1>2, <1>3, WithLists
<1> HIDE DEF made
<1>6. Fn(work') = Fn(work) /\ NodesLive(work'.levels)
  BY <1>1, <1>2, <1>5, SameNodes
<1>7. SameCall(call, one)
  BY <1>2, FieldKept
<1> HIDE DEF one
<1>8. SameCall(one, call')
  BY <1>4, <1>7, FieldKept DEF SameCall
<1>9. SameCall(call, call')
  BY <1>7, <1>8, Both
<1> QED  BY <1>1, <1>6, <1>9, Within

\* SweepEnd.
LEMMA SweepEndShows == IInv /\ Promised /\ SweepEnd => Shows
<1> SUFFICES ASSUME IInv, Promised, SweepEnd PROVE Shows
  OBVIOUS
<1> DEFINE none == {}
           made == [work EXCEPT !.contract = none]
           step == "swept"
           one  == [call EXCEPT !.step = step]
           s    == NotSweeping
<1>1. /\ call # Idle /\ call.step = "sweeping" /\ held' = held /\ work' = made
      /\ call' = [call EXCEPT !.step = step, !.sweep = s]
  BY DEF SweepEnd, At, Stay
<1>2. Sound(work) /\ Flight(call) /\ NodesLive(work.levels)
  BY <1>1, InCall
<1>3. none \subseteq Internal
  OBVIOUS
<1> HIDE DEF s, step, none
<1>4. call' = [one EXCEPT !.sweep = s]
  BY <1>1
<1>5. made.levels = work.levels /\ made.out = work.out
  BY <1>2, <1>3, WithLists
<1> HIDE DEF made
<1>6. Fn(work') = Fn(work) /\ NodesLive(work'.levels)
  BY <1>1, <1>2, <1>5, SameNodes
<1>7. SameCall(call, one)
  BY <1>2, FieldKept
<1> HIDE DEF one
<1>8. SameCall(one, call')
  BY <1>4, <1>7, FieldKept DEF SameCall
<1>9. SameCall(call, call')
  BY <1>7, <1>8, Both
<1> QED  BY <1>1, <1>6, <1>9, Within

\* PopParent.
LEMMA PopParentShows == IInv /\ Promised /\ PopParent => Shows
<1> SUFFICES ASSUME IInv, Promised, PopParent PROVE Shows
  OBVIOUS
<1>1. call # Idle /\ call.step = "sweeping" /\ held' = held /\ work' = work /\ \E s : call' = [call EXCEPT !.sweep = s]
  BY DEF PopParent, At, Stay
<1>2. Flight(call) /\ NodesLive(work.levels)
  BY <1>1, InCall
<1>3. SameCall(call, call')
  <2>1. PICK s : call' = [call EXCEPT !.sweep = s]
    BY <1>1
  <2>2. SameCall(call, [call EXCEPT !.sweep = s])
    BY <1>2, FieldKept
  <2> QED  BY <2>1, <2>2
<1> QED  BY <1>1, <1>2, <1>3, Within

\* Searching one child of the parent at hand.
LEMMA ContractsShows ==
  ASSUME IInv, Promised, UNCHANGED <<held, calls>>, At("sweeping"), Sweeps.at # 0, NEW c \in Children(Sweeps.at),
         NEW finding, finding \in FindingsAt(c), Contracts(c, finding)
  PROVE  Shows
<1> DEFINE among == Reach(c)
           made == ContractChild(work, c, among, finding)
<1>1. call # Idle /\ call.step = "sweeping" /\ held' = held
  BY DEF At
<1>2. Sound(work) /\ Flight(call) /\ Ready(work, call) /\ NodesLive(work.levels)
  BY <1>1, InCall
<1>3. work' = (IF Searched(work, c) THEN made ELSE work) /\ \E s : call' = [call EXCEPT !.sweep = s]
  BY DEF Contracts
<1>4. Sweeping(work, Sweeps) /\ Sweeps.at \in Internal
  BY <1>1, <1>2 DEF Ready, AsTheStep, Sweeping, Sweeps
<1>5. c \in Vtree \ {Root}
  BY <1>4, ParentOf
<1>6. finding.dropped \subseteq Unnamed(work.levels, c)
  BY FindingIs
<1>7. ASSUME Searched(work, c) PROVE Fn(made) = Fn(work) /\ NodesLive(made.levels)
  <2>1. c \in Internal /\ c # Root
    BY <1>5, <1>7 DEF Searched, Vtree
  <2>2. among \subseteq DOMAIN work.levels[c]
    BY <1>2, <1>4, <2>1, ReachIs
  <2> HIDE DEF among
  <2> QED  BY <1>2, <1>6, <2>1, <2>2, ContractChildFn
<1> HIDE DEF made
<1>8. Fn(work') = Fn(work) /\ NodesLive(work'.levels)
  BY <1>2, <1>3, <1>7
<1>9. SameCall(call, call')
  <2>1. PICK s : call' = [call EXCEPT !.sweep = s]
    BY <1>3
  <2>2. SameCall(call, [call EXCEPT !.sweep = s])
    BY <1>2, FieldKept
  <2> QED  BY <2>1, <2>2
<1> QED  BY <1>1, <1>8, <1>9, Within

\* ContractLeft.
LEMMA ContractLeftShows == IInv /\ Promised /\ ContractLeft => Shows
<1> SUFFICES ASSUME IInv, Promised, ContractLeft PROVE Shows
  OBVIOUS
<1> DEFINE c == Left[Sweeps.at]
<1>1. At("sweeping") /\ Sweeps.at # 0 /\ UNCHANGED <<held, calls>>
  BY DEF ContractLeft, Searching, Stay
<1>2. PICK finding : finding \in FindingsAt(c) /\ Contracts(c, finding)
  BY DEF ContractLeft
<1>3. c \in Children(Sweeps.at)
  BY DEF Children
<1> HIDE DEF c
<1> QED  BY <1>1, <1>2, <1>3, ContractsShows

\* ContractRight.
LEMMA ContractRightShows == IInv /\ Promised /\ ContractRight => Shows
<1> SUFFICES ASSUME IInv, Promised, ContractRight PROVE Shows
  OBVIOUS
<1> DEFINE c == Right[Sweeps.at]
<1>1. At("sweeping") /\ Sweeps.at # 0 /\ UNCHANGED <<held, calls>>
  BY DEF ContractRight, Searching, Stay
<1>2. PICK finding : finding \in FindingsAt(c) /\ Contracts(c, finding)
  BY DEF ContractRight
<1>3. c \in Children(Sweeps.at)
  BY DEF Children
<1> HIDE DEF c
<1> QED  BY <1>1, <1>2, <1>3, ContractsShows

\* A call begun.
LEMMA Begun ==
  ASSUME Promised, NEW ask, NEW plan, NEW scope, NEW step, NEW old, NEW diagram,
         Begin(ask, plan, scope, step, old, diagram), Asked(ask),
         NodesLive(diagram.levels) \/ (step = "prune" /\ scope = "Whole" /\ ask.name = "condition" /\ Prunable(diagram)),
         IF ask.name = "minimize" THEN diagram = held ELSE Fn(diagram) = Promise!Answer(Fn(held), AskedFn(ask))
  PROVE  Shows
<1>1. Promised' /\ Promise!Ask
  BY BeginAsks
<1> QED  BY <1>1 DEF Shows, Promise!Next

\* A caller's diagram has no empty node.
LEMMA OperandLive ==
  ASSUME NEW d \in Operand
  PROVE  NodesLive(d.levels)
BY OperandAssumption

\* Load.
LEMMA LoadShows == IInv /\ Promised /\ Load => Shows
<1> SUFFICES ASSUME IInv, Promised, Load PROVE Shows
  OBVIOUS
<1>1. PICK d \in Operand : Begin([name |-> "load", operand |-> d], "none", "none", "done", 0, d)
  BY DEF Load
<1> DEFINE ask == [name |-> "load", operand |-> d]
<1>2. Asked(ask)
  BY DEF Asked
<1>3. ask.name = "load"
  OBVIOUS
<1>4. AskedFn(ask) = [name |-> "load", operand |-> Fn(d)]
  BY OperandAsked
<1> HIDE DEF ask
<1>5. Begin(ask, "none", "none", "done", 0, d)
  BY <1>1 DEF ask
<1>6. Fn(d) = Promise!Answer(Fn(held), AskedFn(ask))
  <2>1. Promise!Answer(Fn(held), [name |-> "load", operand |-> Fn(d)]) = Fn(d)
    BY AnswerIs
  <2> QED  BY <1>4, <2>1
<1>7. NodesLive(d.levels)
  BY OperandLive
<1> QED  BY <1>2, <1>3, <1>5, <1>6, <1>7, Begun

\* And: the product of the diagram held and the operand.
LEMMA AndShows == IInv /\ Promised /\ And => Shows
<1> SUFFICES ASSUME IInv, Promised, And PROVE Shows
  OBVIOUS
<1>1. PICK d \in Operand : \E made \in Conjunctions(held, d) :
        Begin([name |-> "and", operand |-> d], "none", "none", "done", 0, made)
  BY DEF And
<1> DEFINE ask == [name |-> "and", operand |-> d]
<1>2. Asked(ask)
  BY DEF Asked
<1>3. ask.name = "and"
  OBVIOUS
<1>4. AskedFn(ask) = [name |-> "and", operand |-> Fn(d)]
  BY OperandAsked
<1> HIDE DEF ask
<1>5. PICK made : made \in Conjunctions(held, d) /\ Begin(ask, "none", "none", "done", 0, made)
  BY <1>1 DEF ask
<1>6. Sound(held) /\ NodesLive(held.levels) /\ Sound(d) /\ NodesLive(d.levels)
  BY OperandSound, OperandLive DEF IInv, Promised
<1>7. Fn(made) = Fn(held) \cap Fn(d) /\ NodesLive(made.levels)
  BY <1>5, <1>6, ConjunctionsFn
<1>8. Fn(made) = Promise!Answer(Fn(held), AskedFn(ask))
  <2>1. Promise!Answer(Fn(held), [name |-> "and", operand |-> Fn(d)]) = Fn(held) \cap Fn(d)
    BY AnswerIs
  <2> QED  BY <1>4, <1>7, <2>1
<1> QED  BY <1>2, <1>3, <1>5, <1>7, <1>8, Begun

\* Minimize: in place, on the diagram held.
LEMMA MinimizeShows == IInv /\ Promised /\ Minimize => Shows
<1> SUFFICES ASSUME IInv, Promised, Minimize PROVE Shows
  OBVIOUS
<1>1. PICK plan \in Plans : Begin([name |-> "minimize"], plan, "Whole", FirstStep(plan, held), 0, held)
  BY DEF Minimize
<1> DEFINE ask == [name |-> "minimize"]
           step == FirstStep(plan, held)
<1>2. Asked(ask) /\ ask.name = "minimize"
  BY DEF Asked
<1> HIDE DEF ask, step
<1>3. Begin(ask, plan, "Whole", step, 0, held)
  BY <1>1 DEF ask, step
<1>4. NodesLive(held.levels)
  BY DEF Promised
<1> QED  BY <1>2, <1>3, <1>4, Begun

\* Negate: the complement, before its reduction.
LEMMA NegateShows == IInv /\ Promised /\ Negate => Shows
<1> SUFFICES ASSUME IInv, Promised, Negate PROVE Shows
  OBVIOUS
<1> DEFINE made == Complement(held)
           ask == [name |-> "negate"]
<1>1. PICK plan \in Plans :
        Begin(ask, plan, "BelowRoot",
              IF Certifies(held, plan) THEN "complement" ELSE FirstStep(plan, made.result),
              made.old, made.result)
  BY DEF Negate
<1>2. Asked(ask) /\ ask.name = "negate"
  BY DEF Asked
<1>3. AskedFn(ask) = [name |-> "negate"]
  BY PlainAsked
<1>4. Fn(made.result) = (SUBSET Leaf) \ Fn(held) /\ NodesLive(made.result.levels)
  BY ComplementFn DEF IInv, Promised
<1> HIDE DEF made, ask
<1> DEFINE step == IF Certifies(held, plan) THEN "complement" ELSE FirstStep(plan, made.result)
<1>5. Begin(ask, plan, "BelowRoot", step, made.old, made.result)
  BY <1>1
<1> HIDE DEF step
<1>6. Fn(made.result) = Promise!Answer(Fn(held), AskedFn(ask))
  BY <1>3, <1>4, AnswerIs
<1> QED  BY <1>2, <1>4, <1>5, <1>6, Begun

\* ConditionOn: what it leaves may hold empty nodes, which its prune drops.
LEMMA ConditionShows == IInv /\ Promised /\ ConditionOn => Shows
<1> SUFFICES ASSUME IInv, Promised, ConditionOn PROVE Shows
  OBVIOUS
<1>1. PICK c \in Leaf, value \in BOOLEAN :
        LET cut == Condition(held, c, value)
            ask == [name |-> "condition", var |-> c, value |-> value]
        IN  IF held.out = Zero THEN Begin(ask, "none", "none", "done", 0, held)
            ELSE Begin(ask, "Full", "Whole", FirstStep("Full", cut), 0, cut)
  BY DEF ConditionOn
<1> DEFINE cut == Condition(held, c, value)
           ask == [name |-> "condition", var |-> c, value |-> value]
           step == FirstStep("Full", cut)
<1>2. IF held.out = Zero THEN Begin(ask, "none", "none", "done", 0, held)
      ELSE Begin(ask, "Full", "Whole", step, 0, cut)
  BY <1>1
<1>3. Asked(ask) /\ ask.name = "condition"
  BY DEF Asked
<1>4. AskedFn(ask) = [name |-> "condition", var |-> c, value |-> value]
  BY ConditionAsked
<1>5. /\ Fn(cut) = {z \in SUBSET Leaf : Set(z, c, value) \in Fn(held)}
      /\ held.out # Zero => NodesLive(cut.levels) \/ (Prunable(cut) /\ Owing(cut))
  BY ConditionFn DEF IInv, Promised
<1>6. held.out = Zero => cut = held
  BY DEF Condition
<1>7. Owing(cut) => step = "prune"
  BY DEF Owing, FirstStep
<1> HIDE DEF cut, ask, step
<1>8. Fn(cut) = Promise!Answer(Fn(held), AskedFn(ask))
  BY <1>4, <1>5, ConditionAnswer
<1>9. CASE held.out = Zero
  <2>1. Begin(ask, "none", "none", "done", 0, held) /\ Fn(held) = Promise!Answer(Fn(held), AskedFn(ask))
    BY <1>2, <1>6, <1>8, <1>9
  <2>2. NodesLive(held.levels)
    BY DEF Promised
  <2> QED  BY <1>3, <2>1, <2>2, Begun
<1>10. CASE held.out # Zero
  <2>1. Begin(ask, "Full", "Whole", step, 0, cut)
    BY <1>2, <1>10
  <2>2. NodesLive(cut.levels) \/ (step = "prune" /\ "Whole" = "Whole" /\ ask.name = "condition" /\ Prunable(cut))
    BY <1>3, <1>5, <1>7, <1>10
  <2> QED  BY <1>3, <1>8, <2>1, <2>2, Begun
<1> QED  BY <1>9, <1>10

\* Return.
LEMMA ReturnShows == IInv /\ Promised /\ Return => Shows
<1> SUFFICES ASSUME Promised, Return PROVE Shows
  OBVIOUS
<1>1. Promised' /\ Promise!Return
  BY Returns
<1> QED  BY <1>1 DEF Shows, Promise!Next

(***************************************************************************)
(* The refinement.                                                         *)
(***************************************************************************)
LEMMA StepShows == IInv /\ Promised /\ [Next]_vars => Promised' /\ [Promise!Next]_Promise!vars
<1> SUFFICES ASSUME IInv, Promised, [Next]_vars PROVE Shows
  BY DEF Shows
<1>1. CASE Load
  BY <1>1, LoadShows
<1>2. CASE And
  BY <1>2, AndShows
<1>3. CASE Minimize
  BY <1>3, MinimizeShows
<1>4. CASE Negate
  BY <1>4, NegateShows
<1>5. CASE ConditionOn
  BY <1>5, ConditionShows
<1>6. CASE Return
  BY <1>6, ReturnShows
<1>7. CASE PrunePass
  BY <1>7, PrunePassShows
<1>8. CASE CertifyComplement
  BY <1>8, CertifyComplementShows
<1>9. CASE SweepStart
  BY <1>9, SweepStartShows
<1>10. CASE PopParent
  BY <1>10, PopParentShows
<1>11. CASE ContractLeft
  BY <1>11, ContractLeftShows
<1>12. CASE ContractRight
  BY <1>12, ContractRightShows
<1>13. CASE SweepEnd
  BY <1>13, SweepEndShows
<1>14. CASE AfterSweep
  BY <1>14, AfterSweepShows
<1>15. CASE LeavesStart
  BY <1>15, LeavesStartShows
<1>16. CASE LeafLevel
  BY <1>16, LeafLevelShows
<1>17. CASE LeavesEnd
  BY <1>17, LeavesEndShows
<1>18. CASE Finish
  BY <1>18, FinishShows
<1>19. CASE PruneRefused
  BY <1>19, PruneRefusedShows
<1>20. CASE SweepRefused
  BY <1>20, SweepRefusedShows
<1>21. CASE SweepStopped
  BY <1>21, SweepStoppedShows
<1>22. CASE ContractRefused
  BY <1>22, ContractRefusedShows
<1>23. CASE LeafRefused
  BY <1>23, LeafRefusedShows
<1>24. CASE UNCHANGED vars
  <2>1. held' = held /\ work' = work /\ call' = call
    BY <1>24 DEF vars
  <2>2. Promised'
    BY <2>1 DEF Promised
  <2>3. UNCHANGED Promise!vars
    BY <2>1 DEF Promise!vars, InPlace
  <2> QED  BY <2>2, <2>3 DEF Shows
<1> QED  BY <1>1, <1>2, <1>3, <1>4, <1>5, <1>6, <1>7, <1>8, <1>9, <1>10, <1>11, <1>12, <1>13, <1>14, <1>15,
            <1>16, <1>17, <1>18, <1>19, <1>20, <1>21, <1>22, <1>23, <1>24 DEF Next, Steps, Refusals

\* The refinement holds at first.
LEMMA InitShows == Init => Promised /\ Promise!Init
<1> SUFFICES ASSUME Init PROVE Promised /\ Promise!Init
  OBVIOUS
<1>1. held \in Operand /\ call = Idle
  BY DEF Init
<1>2. Promised
  BY <1>1, OperandLive DEF Promised
<1>3. Fn(held) \in OperandFns
  BY <1>1 DEF OperandFns
<1> QED  BY <1>1, <1>2, <1>3 DEF Promise!Init, Promise!Idle, Idle

(***************************************************************************)
(* Whatever passes run, in whatever order the levels are listed, and       *)
(* wherever they are refused or stopped: the function of the owner's       *)
(* diagram is changed by the operations asked for alone, each to exactly   *)
(* its answer (Engine::and, negate_with, condition; reduce/driver.rs).     *)
(***************************************************************************)
THEOREM Refinement == Spec => Refines
<1>1. Init => Promised /\ Promise!Init
  BY InitShows
<1>2. IInv /\ Promised /\ [Next]_vars => Promised' /\ [Promise!Next]_Promise!vars
  BY StepShows
<1> QED  BY <1>1, <1>2, Invariance, PTL DEF Spec, Refines, Promise!Spec

-------------------------------------------------------------------------------
(***************************************************************************)
(* Twins.                                                                  *)
(***************************************************************************)
\* Node k of a level pairs slot i of one side with slot x of the other.
Cell(level, s, k, i, x) == \E q \in level[k] : q[s] = i /\ q[3 - s] = x

\* A slot the level names, and two it names from the same places.
Names(level, s, i) == \E k \in DOMAIN level : \E x \in Nat : Cell(level, s, k, i, x)
Same(level, s, i, j) == \A k \in DOMAIN level : \A x \in Nat : Cell(level, s, k, i, x) <=> Cell(level, s, k, j, x)

\* No two are.
Free(level, s) == \A i, j \in Nat : Names(level, s, i) /\ Same(level, s, i, j) => i = j

\* The polarities of a leaf on one side are.
BothOrOne(level, s, k) ==
  \/ \A x \in Nat : ~Cell(level, s, k, 1, x) /\ ~Cell(level, s, k, 2, x)
  \/ /\ \A x \in Nat : Cell(level, s, k, 1, x) <=> Cell(level, s, k, 2, x)
     /\ \A x \in Nat : ~Cell(level, s, k, 3, x)

Foldable(level, s) == /\ \A k \in DOMAIN level : BothOrOne(level, s, k)
                      /\ Names(level, s, 1) \/ Names(level, s, 2)

OfNumbers(level) == \A k \in DOMAIN level : level[k] \subseteq Nat \X Nat

\* A cell from either side.
LEMMA CellIs ==
  ASSUME NEW level, OfNumbers(level), NEW k \in DOMAIN level, NEW i, NEW x
  PROVE  /\ Cell(level, 1, k, i, x) <=> <<i, x>> \in level[k]
         /\ Cell(level, 2, k, i, x) <=> <<x, i>> \in level[k]
<1>1. \A q \in level[k] : q = <<q[1], q[2]>>
  BY DEF OfNumbers
<1>2. 3 - 1 = 2 /\ 3 - 2 = 1
  OBVIOUS
<1>3. Cell(level, 1, k, i, x) <=> \E q \in level[k] : q[1] = i /\ q[2] = x
  BY <1>2 DEF Cell
<1>4. Cell(level, 2, k, i, x) <=> \E q \in level[k] : q[2] = i /\ q[1] = x
  BY <1>2 DEF Cell
<1>5. (\E q \in level[k] : q[1] = i /\ q[2] = x) <=> <<i, x>> \in level[k]
  BY <1>1
<1>6. (\E q \in level[k] : q[2] = i /\ q[1] = x) <=> <<x, i>> \in level[k]
  BY <1>1
<1> QED  BY <1>3, <1>4, <1>5, <1>6

\* The other side's view.
LEMMA CellTurned ==
  ASSUME NEW level, OfNumbers(level), NEW s \in {1, 2}, NEW k \in DOMAIN level, NEW i, NEW x
  PROVE  /\ 3 - s \in {1, 2} /\ 3 - (3 - s) = s
         /\ Cell(level, s, k, i, x) <=> Cell(level, 3 - s, k, x, i)
         /\ Cell(level, s, k, i, x) => i \in Nat /\ x \in Nat
<1>1. CASE s = 1
  <2>1. 3 - s = 2
    BY <1>1
  <2>2. Cell(level, s, k, i, x) <=> <<i, x>> \in level[k]
    BY <1>1, CellIs
  <2>3. Cell(level, 2, k, x, i) <=> <<i, x>> \in level[k]
    BY CellIs
  <2>4. <<i, x>> \in level[k] => i \in Nat /\ x \in Nat
    BY DEF OfNumbers
  <2> QED  BY <1>1, <2>1, <2>2, <2>3, <2>4
<1>2. CASE s = 2
  <2>1. 3 - s = 1
    BY <1>2
  <2>2. Cell(level, s, k, i, x) <=> <<x, i>> \in level[k]
    BY <1>2, CellIs
  <2>3. Cell(level, 1, k, x, i) <=> <<x, i>> \in level[k]
    BY CellIs
  <2>4. <<x, i>> \in level[k] => i \in Nat /\ x \in Nat
    BY DEF OfNumbers
  <2> QED  BY <1>2, <2>1, <2>2, <2>3, <2>4
<1> QED  BY <1>1, <1>2

\* What a node is named from, as cells.
LEMMA ContextCells ==
  ASSUME NEW levels, InRange(levels), NEW t \in Internal, NEW c \in Children(t), NEW i, NEW j
  PROVE  /\ OfNumbers(levels[t]) /\ Side(c) \in {1, 2}
         /\ Context(levels, c, i) # {} <=> Names(levels[t], Side(c), i)
         /\ Context(levels, c, i) = Context(levels, c, j) <=> Same(levels[t], Side(c), i, j)
<1>1. OfNumbers(levels[t])
  BY LevelIs DEF OfNumbers
<1>2. Parent[c] = t /\ Side(c) \in {1, 2}
  BY ParentOf
<1> DEFINE s == Side(c)
           level == levels[t]
<1>3. ASSUME NEW a, NEW x PROVE x \in Context(levels, c, a) <=> \E k \in DOMAIN level : \E y \in Nat : x = <<k, y>> /\ Cell(level, s, k, a, y)
  <2>1. x \in Context(levels, c, a) <=> \E k \in DOMAIN level : \E q \in level[k] : q[s] = a /\ x = <<k, q[3 - s]>>
    BY <1>2, ContextIs
  <2>2. ASSUME NEW k \in DOMAIN level, NEW q \in level[k], q[s] = a, x = <<k, q[3 - s]>>
        PROVE  \E y \in Nat : x = <<k, y>> /\ Cell(level, s, k, a, y)
    <3>1. Cell(level, s, k, a, q[3 - s])
      BY <2>2 DEF Cell
    <3>2. q[3 - s] \in Nat
      <4> HIDE DEF s, level
      <4> QED  BY <1>1, <1>2, <3>1, CellTurned DEF s, level
    <3> QED  BY <2>2, <3>1, <3>2
  <2>3. ASSUME NEW k \in DOMAIN level, NEW y \in Nat, x = <<k, y>>, Cell(level, s, k, a, y)
        PROVE  \E q \in level[k] : q[s] = a /\ x = <<k, q[3 - s]>>
    BY <2>3 DEF Cell
  <2> HIDE DEF s, level
  <2> QED  BY <2>1, <2>2, <2>3
<1> HIDE DEF s, level
<1>4. Context(levels, c, i) # {} <=> Names(level, s, i)
  <2>1. ASSUME NEW x, x \in Context(levels, c, i) PROVE Names(level, s, i)
    BY <1>3, <2>1 DEF Names
  <2>2. ASSUME Names(level, s, i) PROVE \E x : x \in Context(levels, c, i)
    <3>1. PICK k \in DOMAIN level, y \in Nat : Cell(level, s, k, i, y)
      BY <2>2 DEF Names
    <3>2. <<k, y>> \in Context(levels, c, i)
      BY <1>3, <3>1
    <3> QED  BY <3>2
  <2> QED  BY <2>1, <2>2
<1>5. ASSUME Context(levels, c, i) = Context(levels, c, j), NEW k \in DOMAIN level, NEW y \in Nat
      PROVE  Cell(level, s, k, i, y) <=> Cell(level, s, k, j, y)
  <2>1. ASSUME NEW a PROVE <<k, y>> \in Context(levels, c, a) <=> Cell(level, s, k, a, y)
    <3>1. <<k, y>> \in Context(levels, c, a) <=> \E m \in DOMAIN level : \E z \in Nat : <<k, y>> = <<m, z>> /\ Cell(level, s, m, a, z)
      BY <1>3
    <3>2. \A m, z : <<k, y>> = <<m, z>> <=> k = m /\ y = z
      OBVIOUS
    <3> QED  BY <3>1, <3>2
  <2> QED  BY <1>5, <2>1
<1>6. ASSUME Same(level, s, i, j), NEW x PROVE x \in Context(levels, c, i) <=> x \in Context(levels, c, j)
  BY <1>3, <1>6 DEF Same
<1>7. Same(level, s, i, j) => Context(levels, c, i) = Context(levels, c, j)
  BY <1>6
<1>8. Context(levels, c, i) = Context(levels, c, j) => Same(level, s, i, j)
  BY <1>5 DEF Same
<1> QED  BY <1>1, <1>2, <1>4, <1>7, <1>8 DEF s, level

\* The groups of a search.
LEMMA GroupsAre ==
  ASSUME NEW levels, NEW c, NEW among, NEW g
  PROVE  g \in Groups(levels, c, among) <=>
           \E i \in among : /\ Context(levels, c, i) # {}
                            /\ g = {j \in among : Context(levels, c, j) = Context(levels, c, i)}
<1> DEFINE C(i) == Context(levels, c, i)
           all == {<<i, C(i)>> : i \in among}
           placed == {x \in all : x[2] # {}}
           of(x) == {y[1] : y \in {z \in placed : z[2] = x[2]}}
<1>1. Groups(levels, c, among) = {of(x) : x \in placed}
  BY DEF Groups
<1>2. ASSUME NEW i \in among, C(i) # {} PROVE <<i, C(i)>> \in placed /\ of(<<i, C(i)>>) = {j \in among : C(j) = C(i)}
  <2>1. <<i, C(i)>> \in placed
    BY <1>2
  <2>2. ASSUME NEW j, j \in of(<<i, C(i)>>) PROVE j \in among /\ C(j) = C(i)
    BY <2>2
  <2>3. ASSUME NEW j \in among, C(j) = C(i) PROVE j \in of(<<i, C(i)>>)
    <3>1. <<j, C(j)>> \in placed /\ <<j, C(j)>>[2] = C(i)
      BY <1>2, <2>3
    <3> QED  BY <3>1
  <2> HIDE DEF of, placed
  <2> QED  BY <2>1, <2>2, <2>3
<1>3. ASSUME NEW x \in placed PROVE \E i \in among : C(i) # {} /\ x = <<i, C(i)>>
  OBVIOUS
<1> HIDE DEF placed, of, C
<1>4. (\E i \in among : C(i) # {} /\ g = {j \in among : C(j) = C(i)}) <=> \E x \in placed : g = of(x)
  BY <1>2, <1>3
<1> QED  BY <1>1, <1>4 DEF C

\* A search finds twins where two nodes are named from the same places.
LEMMA HasTwinsIs ==
  ASSUME NEW levels, InRange(levels), NEW t \in Internal, NEW c \in Children(t), c \notin Leaf,
         NEW among, among \subseteq DOMAIN levels[c]
  PROVE  ~HasTwins(levels, c, among) <=>
           \A i, j \in among : Names(levels[t], Side(c), i) /\ Same(levels[t], Side(c), i, j) => i = j
<1>1. c \in Internal
  BY ParentOf DEF Vtree
<1>2. IsFiniteSet(among) /\ among \subseteq Nat
  <2>1. DOMAIN levels[c] = 1 .. Len(levels[c]) /\ Len(levels[c]) \in Nat
    BY <1>1, LevelIs
  <2>2. IsFiniteSet(DOMAIN levels[c])
    BY <2>1, UpToFinite
  <2>3. DOMAIN levels[c] \subseteq Nat
    BY <2>1
  <2> QED  BY <2>2, <2>3, FS_Subset
<1> DEFINE C(i) == Context(levels, c, i)
           alike(i, j) == C(i) # {} /\ C(i) = C(j)
<1>3. \A i, j : alike(i, j) <=> Names(levels[t], Side(c), i) /\ Same(levels[t], Side(c), i, j)
  BY ContextCells
<1>4. ASSUME NEW g \in Groups(levels, c, among), Cardinality(g) > 1 PROVE \E i, j \in among : alike(i, j) /\ i # j
  <2>1. PICK a \in among : C(a) # {} /\ g = {j \in among : C(j) = C(a)}
    BY GroupsAre
  <2>2. IsFiniteSet(g) /\ Cardinality(g) \in Nat
    <3>1. g \subseteq among
      BY <2>1
    <3> QED  BY <1>2, <3>1, FS_Subset, FS_CardinalityType
  <2>3. ASSUME \A i, j \in g : i = j PROVE FALSE
    <3>1. g = {a}
      BY <2>1, <2>3
    <3>2. Cardinality(g) = 1
      BY <3>1, FS_Singleton
    <3> QED  BY <1>4, <3>2
  <2>4. PICK i, j \in g : i # j
    BY <2>3
  <2>5. i \in among /\ j \in among /\ alike(i, j)
    BY <2>1, <2>4
  <2> QED  BY <2>4, <2>5
<1>5. ASSUME NEW i \in among, NEW j \in among, alike(i, j), i # j PROVE \E g \in Groups(levels, c, among) : Cardinality(g) > 1
  <2> DEFINE g == {k \in among : C(k) = C(i)}
  <2>1. g \in Groups(levels, c, among)
    BY <1>5, GroupsAre
  <2>2. i \in g /\ j \in g /\ IsFiniteSet(g)
    <3>1. g \subseteq among
      OBVIOUS
    <3>2. IsFiniteSet(g)
      BY <1>2, <3>1, FS_Subset
    <3> QED  BY <1>5, <3>2
  <2>3. {i, j} \subseteq g /\ Cardinality({i, j}) = 2
    <3>1. IsFiniteSet({i}) /\ Cardinality({i}) = 1
      BY FS_Singleton
    <3>2. {i, j} = {i} \cup {j} /\ j \notin {i}
      BY <1>5
    <3>3. Cardinality({i} \cup {j}) = Cardinality({i}) + 1
      BY <3>1, <3>2, FS_AddElement
    <3>4. Cardinality({i, j}) = 2
      BY <3>1, <3>2, <3>3
    <3> QED  BY <2>2, <3>4
  <2>4. Cardinality({i, j}) <= Cardinality(g) /\ Cardinality(g) \in Nat
    BY <2>2, <2>3, FS_Subset, FS_CardinalityType
  <2> HIDE DEF g
  <2>5. Cardinality(g) > 1
    BY <2>3, <2>4
  <2> QED  BY <2>1, <2>5
<1> HIDE DEF alike
<1>6. HasTwins(levels, c, among) <=> \E i, j \in among : alike(i, j) /\ i # j
  BY <1>4, <1>5 DEF HasTwins
<1> QED  BY <1>3, <1>6

\* Slots a level names are numbers, of nodes of the child.
LEMMA NamesIs ==
  ASSUME NEW levels, InRange(levels), NEW t \in Internal, NEW c \in Children(t), NEW i, Names(levels[t], Side(c), i)
  PROVE  /\ i \in Slots(levels, c) /\ i \in Nat
         /\ c \notin Leaf => i \in DOMAIN levels[c]
         /\ \A j : Same(levels[t], Side(c), i, j) => Names(levels[t], Side(c), j)
<1>1. PICK k \in DOMAIN levels[t], x \in Nat : Cell(levels[t], Side(c), k, i, x)
  BY DEF Names
<1>2. PICK q \in levels[t][k] : q[Side(c)] = i
  BY <1>1 DEF Cell
<1>3. i \in Slots(levels, c)
  BY <1>2, SidesIs
<1>4. i \in Nat
  <2>1. OfNumbers(levels[t]) /\ Side(c) \in {1, 2}
    BY ContextCells
  <2> QED  BY <1>1, <2>1, CellTurned
<1>5. c \notin Leaf => i \in DOMAIN levels[c]
  BY <1>3 DEF Slots
<1>6. \A j : Same(levels[t], Side(c), i, j) => Names(levels[t], Side(c), j)
  BY <1>1 DEF Same, Names
<1> QED  BY <1>3, <1>4, <1>5, <1>6

\* A search of the whole level finds nothing where no two slots are twins.
LEMMA SideFree ==
  ASSUME NEW levels, InRange(levels), NEW t \in Internal, NEW c \in Children(t), c \notin Leaf
  PROVE  ~HasTwins(levels, c, DOMAIN levels[c]) <=> Free(levels[t], Side(c))
<1> DEFINE level == levels[t]
           s == Side(c)
<1>1. ~HasTwins(levels, c, DOMAIN levels[c]) <=> \A i, j \in DOMAIN levels[c] : Names(level, s, i) /\ Same(level, s, i, j) => i = j
  BY HasTwinsIs
<1>2. ASSUME NEW i, NEW j, Names(level, s, i), Same(level, s, i, j) PROVE i \in DOMAIN levels[c] /\ j \in DOMAIN levels[c]
  <2>1. Names(level, s, j)
    BY <1>2, NamesIs
  <2> QED  BY <1>2, <2>1, NamesIs
<1>3. DOMAIN levels[c] \subseteq Nat
  <2>1. c \in Internal
    BY ParentOf DEF Vtree
  <2> QED  BY <2>1, LevelIs
<1> HIDE DEF level, s
<1>4. (\A i, j \in DOMAIN levels[c] : Names(level, s, i) /\ Same(level, s, i, j) => i = j) <=> Free(level, s)
  BY <1>2, <1>3 DEF Free
<1> QED  BY <1>1, <1>4 DEF level, s

\* Levels without twins below them, in those terms.
LEMMA TwinFreeIs ==
  ASSUME NEW levels, InRange(levels), NEW t \in Internal
  PROVE  TwinFreeAt(levels, t) <=> \A c \in Children(t) : c \notin Leaf => Free(levels[t], Side(c))
BY SideFree DEF TwinFreeAt

\* The same of a leaf's polarities.
LEMMA LeafTwinsIs ==
  ASSUME NEW levels, InRange(levels), NEW t \in Internal, NEW c \in Children(t)
  PROVE  LeafTwins(levels, c) <=> Foldable(levels[t], Side(c))
<1> DEFINE level == levels[t]
           s == Side(c)
<1>1. Parent[c] = t /\ s \in {1, 2} /\ OfNumbers(level)
  BY ParentOf, ContextCells
<1>2. ASSUME NEW k \in DOMAIN level, NEW r PROVE \A x : x \in Partners(level[k], c, r) <=> Cell(level, s, k, r, x)
  BY DEF Partners, Cell
<1>3. ASSUME NEW k \in DOMAIN level, NEW r, NEW x, Cell(level, s, k, r, x) PROVE x \in Nat
  <2> HIDE DEF level, s
  <2> QED  BY <1>1, <1>3, CellTurned
<1>4. ASSUME NEW k \in DOMAIN level PROVE Admits(level[k], c) <=> BothOrOne(level, s, k)
  <2> DEFINE P(r) == Partners(level[k], c, r)
  <2>1. \A r, x : x \in P(r) <=> x \in Nat /\ Cell(level, s, k, r, x)
    BY <1>2, <1>3
  <2>2. Admits(level[k], c) <=> (P(1) = {} /\ P(2) = {}) \/ (P(1) = P(2) /\ P(3) = {})
    BY DEF Admits, Pos, Neg, One
  <2> HIDE DEF P, level, s
  <2>3. \A r : P(r) = {} <=> \A x \in Nat : ~Cell(level, s, k, r, x)
    BY <2>1
  <2>4. P(1) = P(2) <=> \A x \in Nat : Cell(level, s, k, 1, x) <=> Cell(level, s, k, 2, x)
    BY <2>1
  <2> QED  BY <2>2, <2>3, <2>4 DEF BothOrOne
<1>5. ASSUME NEW r PROVE r \in Named(levels, c) <=> Names(level, s, r)
  <2>1. r \in Named(levels, c) <=> \E k \in DOMAIN level : \E q \in level[k] : q[s] = r
    <3>1. Named(levels, c) = {p[s] : p \in UNION {level[k] : k \in DOMAIN level}}
      BY <1>1 DEF Named, PairsAt, PairsOf
    <3> QED  BY <3>1
  <2>2. \A k \in DOMAIN level : (\E q \in level[k] : q[s] = r) <=> \E x : Cell(level, s, k, r, x)
    BY DEF Cell
  <2>3. \A k \in DOMAIN level : (\E x : Cell(level, s, k, r, x)) <=> \E x \in Nat : Cell(level, s, k, r, x)
    BY <1>3
  <2> HIDE DEF level, s
  <2> QED  BY <2>1, <2>2, <2>3 DEF Names
<1>6. Named(levels, c) \cap {Pos, Neg} # {} <=> Names(level, s, 1) \/ Names(level, s, 2)
  <2> HIDE DEF level, s
  <2> QED  BY <1>5 DEF Pos, Neg
<1>7. LeafTwins(levels, c) <=> /\ \A k \in DOMAIN level : Admits(level[k], c)
                               /\ Named(levels, c) \cap {Pos, Neg} # {}
  BY <1>1 DEF LeafTwins
<1> HIDE DEF level, s
<1> QED  BY <1>4, <1>6, <1>7 DEF Foldable, level, s

\* Levels without polarities to fold, in those terms.
LEMMA LeafTwinFreeIs ==
  ASSUME NEW levels, InRange(levels), NEW t \in Internal
  PROVE  LeafTwinFreeAt(levels, t) <=> \A c \in Children(t) : c \in Leaf => ~Foldable(levels[t], Side(c))
BY LeafTwinsIs DEF LeafTwinFreeAt

\* A level whose pairs have been renamed on both sides, and a renaming that gives
\* two slots one name only where they are twins.
Follows(old, new, s, f, g) ==
  /\ DOMAIN new = DOMAIN old
  /\ \A k \in DOMAIN old : \A a, b :
       Cell(new, s, k, a, b) <=> \E x, y \in Nat : Cell(old, s, k, x, y) /\ a = f[x] /\ b = g[y]

Respects(level, s, f) ==
  \A x, y \in Nat : Names(level, s, x) /\ Names(level, s, y) /\ f[x] = f[y] => Same(level, s, x, y)

\* A map of pairs, seen from the other side.
LEMMA FollowsTurned ==
  ASSUME NEW old, OfNumbers(old), NEW new, OfNumbers(new), NEW s \in {1, 2}, NEW f, NEW g, Follows(old, new, s, f, g)
  PROVE  Follows(old, new, 3 - s, g, f)
<1>1. ASSUME NEW k \in DOMAIN old, NEW a, NEW b
      PROVE  Cell(new, 3 - s, k, b, a) <=> \E y, x \in Nat : Cell(old, 3 - s, k, y, x) /\ b = g[y] /\ a = f[x]
  <2>1. Cell(new, s, k, a, b) <=> Cell(new, 3 - s, k, b, a)
    <3>1. k \in DOMAIN new
      BY DEF Follows
    <3> QED  BY <3>1, CellTurned
  <2>2. \A x, y : Cell(old, s, k, x, y) <=> Cell(old, 3 - s, k, y, x)
    BY CellTurned
  <2>3. Cell(new, s, k, a, b) <=> \E x, y \in Nat : Cell(old, s, k, x, y) /\ a = f[x] /\ b = g[y]
    BY DEF Follows
  <2> QED  BY <2>1, <2>2, <2>3
<1>2. DOMAIN new = DOMAIN old
  BY DEF Follows
<1> QED  BY <1>1, <1>2 DEF Follows

\* Twins after such a renaming were twins before it.
LEMMA TwinsWere ==
  ASSUME NEW old, OfNumbers(old), NEW new, OfNumbers(new), NEW s \in {1, 2}, NEW f, NEW g, Follows(old, new, s, f, g),
         Respects(old, s, f), Respects(old, 3 - s, g),
         NEW x \in Nat, Names(old, s, x), NEW y \in Nat, Names(old, s, y), Same(new, s, f[x], f[y])
  PROVE  Same(old, s, x, y)
<1>1. ASSUME NEW u \in Nat, Names(old, s, u), NEW v \in Nat, Names(old, s, v), Same(new, s, f[u], f[v]),
             NEW k \in DOMAIN old, NEW b \in Nat, Cell(old, s, k, u, b)
      PROVE  Cell(old, s, k, v, b)
  <2>1. Cell(new, s, k, f[u], g[b])
    BY <1>1 DEF Follows
  <2>2. g[b] \in Nat
    <3>1. k \in DOMAIN new
      BY DEF Follows
    <3> QED  BY <2>1, <3>1, CellTurned
  <2>3. Cell(new, s, k, f[v], g[b])
    <3>1. k \in DOMAIN new
      BY DEF Follows
    <3> QED  BY <1>1, <2>1, <2>2, <3>1 DEF Same
  <2>4. PICK w, c \in Nat : Cell(old, s, k, w, c) /\ f[v] = f[w] /\ g[b] = g[c]
    BY <2>3 DEF Follows
  <2>5. Cell(old, s, k, v, c)
    <3>1. Names(old, s, w)
      BY <2>4 DEF Names
    <3>2. Same(old, s, v, w)
      BY <1>1, <2>4, <3>1 DEF Respects
    <3> QED  BY <2>4, <3>2 DEF Same
  <2>6. Cell(old, 3 - s, k, c, v) /\ Cell(old, 3 - s, k, b, u) /\ 3 - s \in {1, 2}
    BY <1>1, <2>5, CellTurned
  <2>7. Names(old, 3 - s, c) /\ Names(old, 3 - s, b)
    BY <2>6 DEF Names
  <2>8. Same(old, 3 - s, b, c)
    BY <2>4, <2>7 DEF Respects
  <2>9. Cell(old, 3 - s, k, b, v)
    BY <2>6, <2>8 DEF Same
  <2> QED  BY <2>9, CellTurned
<1>2. Same(new, s, f[y], f[x])
  BY DEF Same
<1>3. ASSUME NEW k \in DOMAIN old, NEW b \in Nat PROVE Cell(old, s, k, x, b) <=> Cell(old, s, k, y, b)
  BY <1>1, <1>2
<1> QED  BY <1>3 DEF Same

\* So a side without twins keeps none.
LEMMA QuotientFree ==
  ASSUME NEW old, OfNumbers(old), NEW new, OfNumbers(new), NEW s \in {1, 2}, NEW f, NEW g, Follows(old, new, s, f, g),
         Respects(old, s, f), Respects(old, 3 - s, g), Free(old, s)
  PROVE  Free(new, s)
<1>1. ASSUME NEW a \in Nat, Names(new, s, a) PROVE \E x \in Nat : Names(old, s, x) /\ a = f[x]
  <2>1. PICK k \in DOMAIN new, b \in Nat : Cell(new, s, k, a, b)
    BY <1>1 DEF Names
  <2>2. PICK x, y \in Nat : Cell(old, s, k, x, y) /\ a = f[x]
    BY <2>1 DEF Follows
  <2>3. Names(old, s, x)
    BY <2>1, <2>2 DEF Names, Follows
  <2> QED  BY <2>2, <2>3
<1>2. ASSUME NEW a \in Nat, NEW b \in Nat, Names(new, s, a), Same(new, s, a, b) PROVE a = b
  <2>1. Names(new, s, b)
    BY <1>2 DEF Names, Same
  <2>2. PICK x \in Nat : Names(old, s, x) /\ a = f[x]
    BY <1>1, <1>2
  <2>3. PICK y \in Nat : Names(old, s, y) /\ b = f[y]
    BY <1>1, <2>1
  <2>4. Same(old, s, x, y)
    BY <1>2, <2>2, <2>3, TwinsWere
  <2>5. x = y
    BY <2>2, <2>4 DEF Free
  <2> QED  BY <2>2, <2>3, <2>5
<1> QED  BY <1>2 DEF Free

\* And the polarities of a leaf cannot be folded where they could not.
LEMMA QuotientFoldable ==
  ASSUME NEW old, OfNumbers(old), NEW new, OfNumbers(new), NEW s \in {1, 2}, NEW f, NEW g, Follows(old, new, s, f, g),
         \A x \in Nat : Names(old, s, x) => f[x] = x, Respects(old, 3 - s, g), Foldable(new, s)
  PROVE  Foldable(old, s)
<1>1. ASSUME NEW k \in DOMAIN old, NEW r \in Nat, NEW b
      PROVE  Cell(new, s, k, r, b) <=> \E y \in Nat : Cell(old, s, k, r, y) /\ b = g[y]
  <2>1. ASSUME NEW x \in Nat, NEW y \in Nat, Cell(old, s, k, x, y) PROVE f[x] = x
    BY <2>1 DEF Names
  <2> QED  BY <2>1 DEF Follows
<1>2. ASSUME NEW k \in DOMAIN old, NEW r \in Nat, NEW y \in Nat, Cell(old, s, k, r, y) PROVE Cell(new, s, k, r, g[y]) /\ g[y] \in Nat
  <2>1. Cell(new, s, k, r, g[y])
    BY <1>1, <1>2
  <2>2. k \in DOMAIN new
    BY DEF Follows
  <2> QED  BY <2>1, <2>2, CellTurned
<1>3. ASSUME NEW k \in DOMAIN old, NEW r \in Nat, NEW q \in Nat, NEW y \in Nat, Cell(old, s, k, r, y),
             \A b \in Nat : Cell(new, s, k, r, b) <=> Cell(new, s, k, q, b)
      PROVE  Cell(old, s, k, q, y)
  <2>1. Cell(new, s, k, q, g[y])
    BY <1>2, <1>3
  <2>2. PICK z \in Nat : Cell(old, s, k, q, z) /\ g[y] = g[z]
    BY <1>1, <2>1
  <2>3. Cell(old, 3 - s, k, y, r) /\ Cell(old, 3 - s, k, z, q)
    BY <1>3, <2>2, CellTurned
  <2>4. Names(old, 3 - s, y) /\ Names(old, 3 - s, z)
    BY <2>3 DEF Names
  <2>5. Same(old, 3 - s, y, z)
    BY <2>2, <2>4 DEF Respects
  <2>6. Cell(old, 3 - s, k, y, q)
    BY <2>3, <2>5 DEF Same
  <2> QED  BY <2>6, CellTurned
<1>4. ASSUME NEW k \in DOMAIN old PROVE BothOrOne(old, s, k)
  <2>1. BothOrOne(new, s, k)
    BY DEF Foldable, Follows
  <2>2. CASE \A x \in Nat : ~Cell(new, s, k, 1, x) /\ ~Cell(new, s, k, 2, x)
    BY <1>2, <2>2 DEF BothOrOne
  <2>3. CASE (\A x \in Nat : Cell(new, s, k, 1, x) <=> Cell(new, s, k, 2, x)) /\ \A x \in Nat : ~Cell(new, s, k, 3, x)
    <3>1. \A x \in Nat : ~Cell(old, s, k, 3, x)
      BY <1>2, <2>3
    <3>2. \A x \in Nat : Cell(old, s, k, 1, x) <=> Cell(old, s, k, 2, x)
      BY <1>3, <2>3
    <3> QED  BY <3>1, <3>2 DEF BothOrOne
  <2> QED  BY <2>1, <2>2, <2>3 DEF BothOrOne
<1>5. ASSUME NEW r \in Nat, Names(new, s, r) PROVE Names(old, s, r)
  BY <1>1, <1>5 DEF Names, Follows
<1> QED  BY <1>4, <1>5 DEF Foldable

\* What the worklists promise, level by level.
FreeAt(level, t)   == \A c \in Children(t) : c \notin Leaf => Free(level, Side(c))
FoldedAt(level, t) == \A c \in Children(t) : c \in Leaf => ~Foldable(level, Side(c))
Unread(levels, t)  == \E i \in DOMAIN levels[t] : ~Names(levels[Parent[t]], Side(t), i)

FreeOff(d, off)   == \A t \in Internal : t \notin off => FreeAt(d.levels[t], t)
FoldedOff(d, off) == \A t \in Internal : t \notin off => FoldedAt(d.levels[t], t)
Listed(d) == d.loose # Unknown => HasUnnamed(d) \subseteq d.loose
Trim(d)   == HasUnnamed(d) = {} /\ DOMAIN d.levels[Root] = {d.out} \ {Zero}
Best(d)   == Trim(d) /\ FreeOff(d, {}) /\ FoldedOff(d, {})
Certain(d) == d.certified => Best(d)

\* An internal vnode but the root is a child of its parent.
LEMMA InternalChild ==
  ASSUME NEW c \in Internal, c # Root
  PROVE  Parent[c] \in Internal /\ c \in Children(Parent[c]) /\ c \notin Leaf
BY HasParent, InternalIs DEF Vtree

\* A level no node of which goes unnamed.
LEMMA UnreadIs ==
  ASSUME NEW levels, InRange(levels), NEW t \in Internal, t # Root
  PROVE  DOMAIN levels[t] # Named(levels, t) <=> Unread(levels, t)
<1> DEFINE p == Parent[t]
           s == Side(t)
<1>1. p \in Internal /\ t \in Children(p) /\ t \notin Leaf
  BY InternalChild
<1>2. OfNumbers(levels[p]) /\ s \in {1, 2}
  BY <1>1, ContextCells
<1>3. ASSUME NEW r PROVE r \in Named(levels, t) <=> Names(levels[p], s, r)
  <2>1. r \in Named(levels, t) <=> \E k \in DOMAIN levels[p] : \E q \in levels[p][k] : q[s] = r
    <3>1. Named(levels, t) = {q[s] : q \in UNION {levels[p][k] : k \in DOMAIN levels[p]}}
      BY DEF Named, PairsAt, PairsOf
    <3> QED  BY <3>1
  <2>2. \A k \in DOMAIN levels[p] : (\E q \in levels[p][k] : q[s] = r) <=> \E x : Cell(levels[p], s, k, r, x)
    BY DEF Cell
  <2>3. \A k \in DOMAIN levels[p] : (\E x : Cell(levels[p], s, k, r, x)) <=> \E x \in Nat : Cell(levels[p], s, k, r, x)
    <3> HIDE DEF p, s
    <3> QED  BY <1>2, CellTurned
  <2> HIDE DEF p, s
  <2> QED  BY <2>1, <2>2, <2>3 DEF Names
<1>4. ASSUME NEW r, Names(levels[p], s, r) PROVE r \in DOMAIN levels[t]
  BY <1>1, <1>4, NamesIs
<1> HIDE DEF p, s
<1> QED  BY <1>3, <1>4 DEF Unread, p, s

\* The levels that hold nodes no pair names, in those terms.
LEMMA UnnamedIs ==
  ASSUME NEW d, InRange(d.levels)
  PROVE  HasUnnamed(d) = {t \in Internal \ {Root} : Unread(d.levels, t)}
BY UnreadIs DEF HasUnnamed

\* All nodes are reached where none goes unnamed and the root has the output only.
LEMMA AllReachedIs ==
  ASSUME NEW d, Sound(d)
  PROVE  AllReached(d) <=> Trim(d)
<1> DEFINE levels == d.levels
           R == Reached(levels, d.out)
<1>1. InRange(levels) /\ d.out \in {Zero} \cup DOMAIN levels[Root]
  BY SoundIs
<1>2. R[Root] = {d.out} \ {Zero} /\ \A t \in Internal \ {Root} : R[t] = NamedFrom(levels, t, R[Parent[t]])
  BY <1>1, ReachedIs
<1>3. \A t : NamedFrom(levels, t, DOMAIN levels[Parent[t]]) = Named(levels, t)
  BY DEF NamedFrom, Named, PairsAt, PairsOf
<1>4. \A t \in Internal \ {Root} : Parent[t] \in Internal
  BY InternalChild
<1>5. AllReached(d) <=> \A t \in Internal : R[t] = DOMAIN levels[t]
  BY DEF AllReached
<1>6. HasUnnamed(d) = {t \in Internal \ {Root} : DOMAIN levels[t] # Named(levels, t)}
  BY DEF HasUnnamed
<1> HIDE DEF R, levels
<1>7. ASSUME AllReached(d) PROVE Trim(d)
  <2>1. \A t \in Internal \ {Root} : DOMAIN levels[t] = Named(levels, t)
    BY <1>2, <1>3, <1>4, <1>5, <1>7
  <2> QED  BY <1>2, <1>5, <1>6, <1>7, <2>1, RootIs DEF Trim, levels
<1>8. ASSUME Trim(d) PROVE AllReached(d)
  <2> DEFINE P == {t \in Internal : R[t] = DOMAIN levels[t]}
  <2>1. Root \in P
    BY <1>2, <1>8, RootIs DEF Trim, levels
  <2>2. \A t \in Internal \ {Root} : DOMAIN levels[t] = Named(levels, t)
    BY <1>6, <1>8 DEF Trim
  <2>3. \A t \in Internal \ {Root} : Parent[t] \in P => t \in P
    BY <1>2, <1>3, <2>2
  <2> HIDE DEF P
  <2>4. Internal \subseteq P
    BY <2>1, <2>3, DownInduction
  <2> QED  BY <1>5, <2>4 DEF P
<1> QED  BY <1>7, <1>8

\* Canonical diagrams, in those terms.
LEMMA CanonicalIs ==
  ASSUME NEW d, Sound(d)
  PROVE  /\ Canonical(d) <=> Best(d)
         /\ \A t \in Internal : /\ TwinFreeAt(d.levels, t) <=> FreeAt(d.levels[t], t)
                                /\ LeafTwinFreeAt(d.levels, t) <=> FoldedAt(d.levels[t], t)
<1>1. InRange(d.levels)
  BY SoundIs
<1>2. \A t \in Internal : /\ TwinFreeAt(d.levels, t) <=> FreeAt(d.levels[t], t)
                          /\ LeafTwinFreeAt(d.levels, t) <=> FoldedAt(d.levels[t], t)
  BY <1>1, TwinFreeIs, LeafTwinFreeIs DEF FreeAt, FoldedAt
<1>3. AllReached(d) <=> Trim(d)
  BY AllReachedIs
<1> QED  BY <1>2, <1>3 DEF Canonical, Best, FreeOff, FoldedOff

Fixes(level, s, f) == \A x \in Nat : Names(level, s, x) => f[x] = x

\* A whole level under a renaming of its children's nodes.
LEMMA LevelFollows ==
  ASSUME NEW t \in Internal, NEW old, OfNumbers(old), NEW new, OfNumbers(new), NEW f, NEW g,
         Follows(old, new, 1, f, g), Respects(old, 1, f), Respects(old, 2, g)
  PROVE  /\ FreeAt(old, t) => FreeAt(new, t)
         /\ FoldedAt(old, t) /\ (Left[t] \in Leaf => Fixes(old, 1, f)) /\ (Right[t] \in Leaf => Fixes(old, 2, g)) => FoldedAt(new, t)
<1>1. Follows(old, new, 2, g, f)
  <2>1. Follows(old, new, 3 - 1, g, f)
    BY FollowsTurned
  <2> QED  BY <2>1
<1>2. Left[t] \in Children(t) /\ Right[t] \in Children(t) /\ Children(t) = {Left[t], Right[t]} /\ Left[t] # Right[t]
  BY InternalIs DEF Children
<1>3. Side(Left[t]) = 1 /\ Side(Right[t]) = 2
  BY <1>2, ParentOf
<1>4. 3 - 1 = 2 /\ 3 - 2 = 1
  OBVIOUS
<1>5. Free(old, 1) => Free(new, 1)
  BY <1>4, QuotientFree
<1>6. Free(old, 2) => Free(new, 2)
  BY <1>1, <1>4, QuotientFree
<1>7. Fixes(old, 1, f) /\ Foldable(new, 1) => Foldable(old, 1)
  BY <1>4, QuotientFoldable DEF Fixes
<1>8. Fixes(old, 2, g) /\ Foldable(new, 2) => Foldable(old, 2)
  BY <1>1, <1>4, QuotientFoldable DEF Fixes
<1>9. FreeAt(old, t) => FreeAt(new, t)
  BY <1>2, <1>3, <1>5, <1>6 DEF FreeAt
<1>10. FoldedAt(old, t) /\ (Left[t] \in Leaf => Fixes(old, 1, f)) /\ (Right[t] \in Leaf => Fixes(old, 2, g)) => FoldedAt(new, t)
  BY <1>2, <1>3, <1>7, <1>8 DEF FoldedAt
<1> QED  BY <1>9, <1>10

\* What is kept of a level, before its references are moved.
Picked(levels, kept, t) == [k \in 1 .. Cardinality(kept[t]) |-> levels[t][Was(kept, t, k)]]
Tos(kept, c) == [x \in Nat |-> To(kept, c, x)]

\* Dropping nodes renames what is left of a level on both sides.
LEMMA CompactFollows ==
  ASSUME NEW levels, InRange(levels), NEW kept, Closed(levels, kept), NEW t \in Internal
  PROVE  LET old == Picked(levels, kept, t)
             new == Compact(levels, kept)[t]
         IN  /\ OfNumbers(old) /\ OfNumbers(new) /\ Follows(old, new, 1, Tos(kept, Left[t]), Tos(kept, Right[t]))
             /\ Respects(old, 1, Tos(kept, Left[t])) /\ Respects(old, 2, Tos(kept, Right[t]))
             /\ Left[t] \in Leaf => Fixes(old, 1, Tos(kept, Left[t]))
             /\ Right[t] \in Leaf => Fixes(old, 2, Tos(kept, Right[t]))
<1> DEFINE old == Picked(levels, kept, t)
           new == Compact(levels, kept)[t]
           f == Tos(kept, Left[t])
           g == Tos(kept, Right[t])
           n == Cardinality(kept[t])
<1>1. n \in Nat /\ DOMAIN new = 1 .. n /\ DOMAIN old = 1 .. n
  BY CompactShape DEF Picked
<1>2. ASSUME NEW k \in 1 .. n
      PROVE  /\ old[k] = levels[t][Was(kept, t, k)] /\ Was(kept, t, k) \in kept[t] /\ Was(kept, t, k) \in DOMAIN levels[t]
             /\ \A q \in new[k] : \E p \in old[k] : q = MovedPair(kept, t, p)
             /\ \A p \in old[k] : MovedPair(kept, t, p) \in new[k]
  BY <1>1, WasIs, CompactPair DEF Picked
<1>3. OfNumbers(old)
  <2>1. \A k \in 1 .. n : old[k] \subseteq Nat \X Nat
    BY <1>2, LevelIs
  <2> QED  BY <1>1, <2>1 DEF OfNumbers
<1>4. OfNumbers(new)
  <2>1. InRange(Compact(levels, kept))
    BY CompactInRange
  <2>2. \A k \in DOMAIN new : new[k] \subseteq Nat \X Nat
    BY <2>1, LevelIs
  <2> QED  BY <2>2 DEF OfNumbers
<1>5. \A x \in Nat : f[x] = To(kept, Left[t], x) /\ g[x] = To(kept, Right[t], x)
  BY DEF Tos
<1> HIDE DEF old, new, f, g, n
<1>6. Follows(old, new, 1, f, g)
  <2>1. ASSUME NEW k \in 1 .. n, NEW a, NEW b
        PROVE  Cell(new, 1, k, a, b) <=> \E x, y \in Nat : Cell(old, 1, k, x, y) /\ a = f[x] /\ b = g[y]
    <3>1. Cell(new, 1, k, a, b) <=> <<a, b>> \in new[k]
      BY <1>1, <1>4, CellIs
    <3>2. \A x, y : Cell(old, 1, k, x, y) <=> <<x, y>> \in old[k]
      BY <1>1, <1>3, CellIs
    <3>3. ASSUME NEW p \in old[k] PROVE p[1] \in Nat /\ p[2] \in Nat /\ p = <<p[1], p[2]>> /\ MovedPair(kept, t, p) = <<f[p[1]], g[p[2]]>>
      <4>1. p[1] \in Nat /\ p[2] \in Nat /\ p = <<p[1], p[2]>>
        BY <1>1, <1>3 DEF OfNumbers
      <4> QED  BY <4>1, <1>5 DEF MovedPair
    <3>4. ASSUME <<a, b>> \in new[k] PROVE \E x, y \in Nat : <<x, y>> \in old[k] /\ a = f[x] /\ b = g[y]
      <4>1. PICK p \in old[k] : <<a, b>> = MovedPair(kept, t, p)
        BY <1>2, <3>4
      <4> QED  BY <3>3, <4>1
    <3>5. ASSUME NEW x \in Nat, NEW y \in Nat, <<x, y>> \in old[k], a = f[x], b = g[y] PROVE <<a, b>> \in new[k]
      BY <1>2, <3>3, <3>5
    <3> QED  BY <3>1, <3>2, <3>4, <3>5
  <2> QED  BY <1>1, <2>1 DEF Follows
<1>7. ASSUME NEW k \in 1 .. n, NEW p \in old[k] PROVE (Left[t] \notin Leaf => p[1] \in kept[Left[t]]) /\ (Right[t] \notin Leaf => p[2] \in kept[Right[t]])
  BY <1>2 DEF Closed
<1>8. ASSUME NEW x, Names(old, 1, x) PROVE Left[t] \notin Leaf => x \in kept[Left[t]]
  <2>1. PICK k \in DOMAIN old, y \in Nat : Cell(old, 1, k, x, y)
    BY <1>8 DEF Names
  <2>2. PICK q \in old[k] : q[1] = x
    BY <2>1 DEF Cell
  <2> QED  BY <1>1, <1>7, <2>2
<1>9. ASSUME NEW x, Names(old, 2, x) PROVE Right[t] \notin Leaf => x \in kept[Right[t]]
  <2>1. PICK k \in DOMAIN old, y \in Nat : Cell(old, 2, k, x, y)
    BY <1>9 DEF Names
  <2>2. PICK q \in old[k] : q[2] = x
    BY <2>1 DEF Cell
  <2> QED  BY <1>1, <1>7, <2>2
<1>10. Left[t] \in Vtree /\ Right[t] \in Vtree
  BY InternalIs
<1>11. \A s, x : Same(old, s, x, x)
  BY DEF Same
<1>12. Respects(old, 1, f)
  <2>1. ASSUME NEW x \in Nat, NEW y \in Nat, Names(old, 1, x), Names(old, 1, y), f[x] = f[y] PROVE x = y
    BY <1>5, <1>8, <1>10, <2>1, ToIs
  <2> QED  BY <1>11, <2>1 DEF Respects
<1>13. Respects(old, 2, g)
  <2>1. ASSUME NEW x \in Nat, NEW y \in Nat, Names(old, 2, x), Names(old, 2, y), g[x] = g[y] PROVE x = y
    BY <1>5, <1>9, <1>10, <2>1, ToIs
  <2> QED  BY <1>11, <2>1 DEF Respects
<1>14. Left[t] \in Leaf => Fixes(old, 1, f)
  BY <1>5 DEF Fixes, To
<1>15. Right[t] \in Leaf => Fixes(old, 2, g)
  BY <1>5 DEF Fixes, To
<1> QED  BY <1>3, <1>4, <1>6, <1>12, <1>13, <1>14, <1>15 DEF old, new, f, g

\* A level no node of which goes is as free of twins as it was.
LEMMA PickedAll ==
  ASSUME NEW levels, InRange(levels), NEW kept, NEW t \in Internal, kept[t] = DOMAIN levels[t], Closed(levels, kept)
  PROVE  Picked(levels, kept, t) = levels[t]
<1>1. Len(levels[t]) \in Nat /\ DOMAIN levels[t] = 1 .. Len(levels[t])
  BY LevelIs
<1> DEFINE n == Len(levels[t])
<1>2. Cardinality(kept[t]) = n
  BY <1>1, UpToFinite
<1>3. ASSUME NEW k \in 1 .. n PROVE Was(kept, t, k) = k
  <2>1. Was(kept, t, k) \in kept[t] /\ Rank(kept[t], Was(kept, t, k)) = k
    BY <1>2, WasIs
  <2>2. Rank(1 .. n, Was(kept, t, k)) = Was(kept, t, k)
    BY <1>1, <2>1, RankOfAll
  <2> QED  BY <1>1, <2>1, <2>2
<1>4. levels[t] = [k \in 1 .. n |-> levels[t][k]]
  <2>1. levels[t] \in Seq(SUBSET (Nat \X Nat))
    BY LevelIs
  <2> QED  BY <1>1, <2>1
<1> HIDE DEF n
<1>5. Picked(levels, kept, t) = [k \in 1 .. n |-> levels[t][k]]
  BY <1>2, <1>3 DEF Picked
<1> QED  BY <1>4, <1>5

\* A level that loses none of its own nodes keeps no twins and no polarities to fold.
LEMMA CompactKeeps ==
  ASSUME NEW levels, InRange(levels), NEW kept, Closed(levels, kept), NEW t \in Internal
  PROVE  LET old == Picked(levels, kept, t)
             new == Compact(levels, kept)[t]
         IN  (FreeAt(old, t) => FreeAt(new, t)) /\ (FoldedAt(old, t) => FoldedAt(new, t))
<1> DEFINE old == Picked(levels, kept, t)
           new == Compact(levels, kept)[t]
           f == Tos(kept, Left[t])
           g == Tos(kept, Right[t])
<1>1. /\ OfNumbers(old) /\ OfNumbers(new) /\ Follows(old, new, 1, f, g)
      /\ Respects(old, 1, f) /\ Respects(old, 2, g)
      /\ Left[t] \in Leaf => Fixes(old, 1, f)
      /\ Right[t] \in Leaf => Fixes(old, 2, g)
  BY CompactFollows
<1> HIDE DEF old, new, f, g
<1>2. (FreeAt(old, t) => FreeAt(new, t)) /\ (FoldedAt(old, t) => FoldedAt(new, t))
  BY <1>1, LevelFollows
<1> QED  BY <1>2 DEF old, new

\* So do the levels of a diagram that a prune leaves alone.
LEMMA KeptKeeps ==
  ASSUME NEW d, Sound(d), NEW kept, Closed(d.levels, kept), NEW t \in Internal, t \notin Lost(d, kept)
  PROVE  /\ FreeAt(d.levels[t], t) => FreeAt(Kept(d, kept).levels[t], t)
         /\ FoldedAt(d.levels[t], t) => FoldedAt(Kept(d, kept).levels[t], t)
<1>1. InRange(d.levels) /\ Kept(d, kept).levels = LeftLevels(d, kept)
  BY SoundIs, KeptParts
<1>2. CASE Lost(d, kept) = {}
  BY <1>1, <1>2 DEF LeftLevels
<1>3. CASE Lost(d, kept) # {}
  <2>1. Kept(d, kept).levels[t] = Compact(d.levels, kept)[t]
    BY <1>1, <1>3 DEF LeftLevels
  <2>2. kept[t] = DOMAIN d.levels[t]
    BY DEF Lost
  <2>3. Picked(d.levels, kept, t) = d.levels[t]
    BY <1>1, <2>2, PickedAll
  <2> QED  BY <1>1, <2>1, <2>3, CompactKeeps
<1> QED  BY <1>2, <1>3

\* A step of the walk that stops where nothing is lost.
Walked(d, starts, clean, forced, t, above) ==
  IF t \in starts THEN [in |-> TRUE, kept |-> DOMAIN d.levels[t]]
  ELSE IF t = Root THEN IF starts = {} THEN [in |-> TRUE, kept |-> {d.out}]
                                       ELSE [in |-> FALSE, kept |-> DOMAIN d.levels[t]]
  ELSE IF above.in /\ t \notin clean
       THEN [in |-> Enters(t, NamedFrom(d.levels, t, above.kept) # DOMAIN d.levels[t], forced),
             kept |-> NamedFrom(d.levels, t, above.kept)]
       ELSE [in |-> FALSE, kept |-> DOMAIN d.levels[t]]

Walking(d, starts, clean, forced, walk) ==
  \A t \in Internal : walk[t] = Walked(d, starts, clean, forced, t, walk[Parent[t]])
KeptBy(walk) == [t \in Internal |-> walk[t].kept]

\* A prune's walk keeps, at every level, what its walk of the level above says.
LEMMA WalkIs ==
  ASSUME NEW d, Sound(d), d.out # Zero, NEW starts, NEW clean, NEW forced
  PROVE  \E walk : WalkFrom(d, starts, clean, forced) = Kept(d, KeptBy(walk)) /\ Walking(d, starts, clean, forced, walk)
<1> DEFINE levels == d.levels
           E(t, above) ==
             IF t \in starts THEN [in |-> TRUE, kept |-> DOMAIN levels[t]]
             ELSE IF t = Root THEN IF starts = {} THEN [in |-> TRUE, kept |-> {d.out}]
                                                  ELSE [in |-> FALSE, kept |-> DOMAIN levels[t]]
             ELSE IF above.in /\ t \notin clean
                  THEN [in |-> Enters(t, NamedFrom(levels, t, above.kept) # DOMAIN levels[t], forced),
                        kept |-> NamedFrom(levels, t, above.kept)]
                  ELSE [in |-> FALSE, kept |-> DOMAIN levels[t]]
           eq(f) == f = [t \in Internal |-> E(t, f[Parent[t]])]
           V == [in : BOOLEAN, kept : SUBSET Nat]
           within(t, v) == [in |-> v.in, kept |-> v.kept \cap DOMAIN levels[Parent[t]]]
           any == [in |-> FALSE, kept |-> {}]
           step == [x \in Internal \X V |-> IF x[1] = Root THEN any ELSE E(x[1], within(x[1], x[2]))]
           b == E(Root, any)
<1>0. InRange(levels) /\ d.out \in DOMAIN levels[Root] /\ Root \in Internal
  BY SoundIs, RootIs
<1>1. \A t \in Internal : DOMAIN levels[t] \subseteq Nat
  BY <1>0, LevelIs
<1>3. \A t \in Internal \ {Root} : Parent[t] \in Internal /\ t \in Children(Parent[t])
  BY HasParent DEF Vtree
<1>4. ASSUME NEW t \in Internal \ {Root}, NEW above, above \subseteq DOMAIN levels[Parent[t]]
      PROVE  NamedFrom(levels, t, above) \subseteq DOMAIN levels[t]
  <2>2. NamedFrom(levels, t, above) \subseteq Slots(levels, t)
    BY <1>0, <1>3, <1>4, NamedIs
  <2> QED  BY <2>2, <1>0, LevelIs, InternalIs DEF Slots
<1> HIDE DEF levels
\* What E gives, by the case it is in.
<1>5. ASSUME NEW t \in Internal, NEW v, v.kept \subseteq DOMAIN levels[Parent[t]]
      PROVE  /\ E(t, v) \in V /\ E(t, v).kept \subseteq DOMAIN levels[t]
             /\ t # Root => E(t, v).kept \in {DOMAIN levels[t], NamedFrom(levels, t, v.kept)}
             /\ t = Root => E(t, v).kept = (IF starts = {} THEN {d.out} ELSE DOMAIN levels[t])
  <2>1. t # Root => NamedFrom(levels, t, v.kept) \subseteq DOMAIN levels[t]
    BY <1>4, <1>5
  <2>2. t # Root => NamedFrom(levels, t, v.kept) \subseteq Nat
    BY <1>1, <2>1
  <2>3. DOMAIN levels[t] \subseteq Nat
    BY <1>1
  <2>4. Enters(t, NamedFrom(levels, t, v.kept) # DOMAIN levels[t], forced) \in BOOLEAN
    BY DEF Enters
  <2>5. CASE t \in starts
    BY <2>5, <2>3
  <2>6. CASE t \notin starts /\ t = Root
    BY <2>6, <2>3, <1>0
  <2>7. CASE t \notin starts /\ t # Root /\ ~(v.in /\ t \notin clean)
    BY <2>7, <2>3
  <2>8. CASE t \notin starts /\ t # Root /\ (v.in /\ t \notin clean)
    BY <2>8, <2>1, <2>2, <2>4
  <2> QED  BY <2>5, <2>6, <2>7, <2>8
<1>6. \A t \in Internal \ {Root} : \A v : within(t, v).kept \subseteq DOMAIN levels[Parent[t]]
  OBVIOUS
<1>7. b \in V /\ b.kept = (IF starts = {} THEN {d.out} ELSE DOMAIN levels[Root])
  <2>1. any.kept \subseteq DOMAIN levels[Parent[Root]]
    OBVIOUS
  <2> HIDE DEF E, V, any
  <2> QED  BY <2>1, <1>0, <1>5
<1>8. step \in StepsDown(V)
  <2>1. ASSUME NEW x \in Internal \X V
        PROVE  (IF x[1] = Root THEN any ELSE E(x[1], within(x[1], x[2]))) \in V
    <3>1. CASE x[1] = Root
      BY <3>1
    <3>2. CASE x[1] # Root
      <4>1. x[1] \in Internal \ {Root}
        BY <3>2
      <4>2. within(x[1], x[2]).kept \subseteq DOMAIN levels[Parent[x[1]]]
        BY <4>1, <1>6
      <4> HIDE DEF E, V, within
      <4> QED  BY <4>1, <4>2, <3>2, <1>5
    <3> QED  BY <3>1, <3>2
  <2> HIDE DEF E, V, within, any
  <2> QED  BY <2>1 DEF StepsDown
<1>9. PICK f \in [Internal -> V] : f[Root] = b /\ \A t \in Internal \ {Root} : f[t] = step[<<t, f[Parent[t]]>>]
  <2> HIDE DEF V, b, step
  <2> QED  BY <1>7, <1>8, DownExists
<1>10. \A t \in Internal \ {Root} : f[t] = E(t, within(t, f[Parent[t]]))
  <2>1. \A t \in Internal \ {Root} : <<t, f[Parent[t]]>> \in Internal \X V
    BY <1>3, <1>9
  <2> HIDE DEF within, V, E, any
  <2> QED  BY <1>9, <2>1
<1>11. \A t \in Internal : f[t].kept \subseteq DOMAIN levels[t]
  <2>1. b.kept \subseteq DOMAIN levels[Root]
    BY <1>7, <1>0
  <2>2. ASSUME NEW t \in Internal \ {Root} PROVE f[t].kept \subseteq DOMAIN levels[t]
    <3> DEFINE v == within(t, f[Parent[t]])
    <3>1. v.kept \subseteq DOMAIN levels[Parent[t]] /\ f[t] = E(t, v)
      BY <1>6, <1>10
    <3> HIDE DEF v, E
    <3> QED  BY <3>1, <1>5
  <2> HIDE DEF b
  <2> QED  BY <2>1, <2>2, <1>9
<1>12. \A t \in Internal \ {Root} : within(t, f[Parent[t]]) = f[Parent[t]]
  <2>1. ASSUME NEW v \in V, NEW t \in Internal \ {Root}, v.kept \subseteq DOMAIN levels[Parent[t]]
        PROVE  within(t, v) = v
    <3>1. v = [in |-> v.in, kept |-> v.kept]
      BY <2>1
    <3>2. v.kept \cap DOMAIN levels[Parent[t]] = v.kept
      BY <2>1
    <3> QED  BY <3>1, <3>2
  <2>2. \A t \in Internal \ {Root} : f[Parent[t]] \in V /\ f[Parent[t]].kept \subseteq DOMAIN levels[Parent[t]]
    BY <1>3, <1>9, <1>11
  <2> HIDE DEF within, V
  <2> QED  BY <2>1, <2>2
<1>13. eq(f)
  <2>1. f = [t \in Internal |-> f[t]]
    BY <1>9
  <2>2. f[Root] = E(Root, f[Parent[Root]])
    <3>1. \A v, w : E(Root, v) = E(Root, w)
      OBVIOUS
    <3> HIDE DEF E, any
    <3> QED  BY <3>1, <1>9
  <2>3. \A t \in Internal : f[t] = E(t, f[Parent[t]])
    <3> HIDE DEF E, within
    <3> QED  BY <2>2, <1>10, <1>12
  <2> HIDE DEF E
  <2> QED  BY <2>1, <2>3
<1> DEFINE walk == CHOOSE g : eq(g)
           kept == [t \in Internal |-> walk[t].kept]
<1>14. eq(walk)
  <2> HIDE DEF eq
  <2> QED  BY <1>13
<1>15. \A t \in Internal : walk[t] = E(t, walk[Parent[t]])
  <2> HIDE DEF E, walk
  <2> QED  BY <1>14
<1>16. WalkFrom(d, starts, clean, forced) = Kept(d, kept)
  BY DEF WalkFrom, levels
<1> HIDE DEF walk
<1>17. \A t, v : E(t, v) = Walked(d, starts, clean, forced, t, v)
  BY DEF Walked, levels
<1>18. \A t \in Internal : walk[t] = Walked(d, starts, clean, forced, t, walk[Parent[t]])
  <2> HIDE DEF E
  <2> QED  BY <1>15, <1>17
<1>19. WalkFrom(d, starts, clean, forced) = Kept(d, KeptBy(walk)) /\ Walking(d, starts, clean, forced, walk)
  BY <1>16, <1>18 DEF kept, KeptBy, Walking
<1> QED  BY <1>19

\* The levels known to be whole.
LEMMA CleanIs ==
  ASSUME NEW d, NEW loose
  PROVE  /\ Root \in CleanLevels(d, loose) <=> Len(d.levels[Root]) = 1
         /\ \A t \in Internal \ {Root} : t \in CleanLevels(d, loose) <=> Parent[t] \in CleanLevels(d, loose) /\ t \notin loose
<1> DEFINE eq(f) == f = [t \in Internal |-> IF t = Root THEN Len(d.levels[t]) = 1
                                            ELSE f[Parent[t]] /\ t \notin loose]
           V == BOOLEAN
           step == [x \in Internal \X V |-> x[2] /\ x[1] \notin loose]
           b == (Len(d.levels[Root]) = 1)
<1>1. b \in V /\ step \in StepsDown(V)
  BY DEF StepsDown
<1>2. PICK f \in [Internal -> V] : f[Root] = b /\ \A t \in Internal \ {Root} : f[t] = step[<<t, f[Parent[t]]>>]
  <2> HIDE DEF V, b, step
  <2> QED  BY <1>1, DownExists
<1>3. \A t \in Internal \ {Root} : f[t] = (f[Parent[t]] /\ t \notin loose)
  <2>1. \A t \in Internal \ {Root} : Parent[t] \in Internal
    BY HasParent DEF Vtree
  <2>2. \A t \in Internal \ {Root} : <<t, f[Parent[t]]>> \in Internal \X V
    BY <2>1, <1>2
  <2> QED  BY <2>2, <1>2
<1>4. eq(f)
  <2>1. f = [t \in Internal |-> f[t]]
    BY <1>2
  <2>2. \A t \in Internal : f[t] = (IF t = Root THEN Len(d.levels[t]) = 1 ELSE f[Parent[t]] /\ t \notin loose)
    BY <1>2, <1>3
  <2> QED  BY <2>1, <2>2
<1> DEFINE clean == CHOOSE g : eq(g)
<1>5. eq(clean)
  <2> HIDE DEF eq
  <2> QED  BY <1>4
<1>6. CleanLevels(d, loose) = {t \in Internal : clean[t]}
  BY DEF CleanLevels
<1> HIDE DEF clean
<1>7. clean[Root] = (Len(d.levels[Root]) = 1)
  BY <1>5, RootIs
<1>8. \A t \in Internal \ {Root} : clean[t] = (clean[Parent[t]] /\ t \notin loose)
  BY <1>5
<1>9. \A t \in Internal \ {Root} : Parent[t] \in Internal
  BY HasParent DEF Vtree
<1> QED  BY <1>6, <1>7, <1>8, <1>9, RootIs

\* The levels above a loose one.
LEMMA AboveIs ==
  ASSUME NEW loose
  PROVE  \A t \in Internal : \A c \in Children(t) \ Leaf : c \in loose \/ c \in Above(loose) => t \in Above(loose)
<1> DEFINE eq(f) == f = [t \in Internal |-> \E c \in Children(t) \ Leaf : c \in loose \/ f[c]]
           V == BOOLEAN
           base == [t \in Leaf |-> FALSE]
           has(c, above) == c \notin Leaf /\ (c \in loose \/ above)
           step == [x \in Internal \X V \X V |-> has(Left[x[1]], x[2]) \/ has(Right[x[1]], x[3])]
<1>1. V # {} /\ base \in [Leaf -> V] /\ step \in StepsUp(V)
  BY DEF StepsUp
<1>2. PICK f \in [Vtree -> V] : /\ \A t \in Leaf : f[t] = base[t]
                                /\ \A t \in Internal : f[t] = step[<<t, f[Left[t]], f[Right[t]]>>]
  <2> HIDE DEF V, base, step
  <2> QED  BY <1>1, UpExists
<1> DEFINE g == [t \in Internal |-> f[t]]
<1>3. \A t \in Internal : f[t] = (has(Left[t], f[Left[t]]) \/ has(Right[t], f[Right[t]]))
  <2>1. \A t \in Internal : <<t, f[Left[t]], f[Right[t]]>> \in Internal \X V \X V
    BY <1>2, InternalIs
  <2> QED  BY <1>2, <2>1
<1>4. eq(g)
  <2>1. \A t \in Internal : \A c \in Children(t) \ Leaf : g[c] = f[c]
    BY InternalIs DEF Children, Vtree
  <2>2. \A t \in Internal : g[t] = (\E c \in Children(t) \ Leaf : c \in loose \/ g[c])
    <3>1. \A t \in Internal : g[t] = f[t] /\ f[t] \in BOOLEAN
      BY <1>2 DEF Vtree
    <3> HIDE DEF g
    <3>2. ASSUME NEW t \in Internal PROVE (\E c \in Children(t) \ Leaf : c \in loose \/ g[c]) <=> has(Left[t], f[Left[t]]) \/ has(Right[t], f[Right[t]])
      BY <2>1 DEF Children
    <3> HIDE DEF has
    <3> QED  BY <1>3, <3>1, <3>2
  <2> QED  BY <2>2
<1> DEFINE up == CHOOSE h : eq(h)
<1>5. eq(up)
  <2> HIDE DEF eq, g
  <2> QED  BY <1>4
<1>6. Above(loose) = {t \in Internal : up[t]}
  BY DEF Above
<1> HIDE DEF up
<1>7. \A t \in Internal : up[t] = (\E c \in Children(t) \ Leaf : c \in loose \/ up[c])
  BY <1>5
<1> QED  BY <1>6, <1>7

\* What is reached from the output, and nothing else.
Exact(d, kept) == /\ kept[Root] = {d.out}
                  /\ \A t \in Internal \ {Root} : kept[t] = NamedFrom(d.levels, t, kept[Parent[t]])

\* What all the nodes above name is what is named.
LEMMA NamedAll ==
  \A levels, t : NamedFrom(levels, t, DOMAIN levels[Parent[t]]) = Named(levels, t)
BY DEF NamedFrom, Named, PairsAt, PairsOf

\* Keeping exactly what is named from the output down leaves nothing unnamed.
LEMMA ExactTrims ==
  ASSUME NEW d, Sound(d), d.out # Zero, NEW kept, Exact(d, kept)
  PROVE  Closed(d.levels, kept) /\ d.out \in kept[Root] /\ Trim(Kept(d, kept)) /\ (Trim(d) => Lost(d, kept) = {})
<1> DEFINE levels == d.levels
           made == Kept(d, kept)
<1>1. InRange(levels) /\ d.out \in DOMAIN levels[Root] /\ Root \in Internal
  BY SoundIs, RootIs
<1>2. Closed(levels, kept)
  <2>1. kept[Root] \subseteq DOMAIN levels[Root]
    BY <1>1 DEF Exact
  <2> QED  BY <1>1, <2>1, ClosedFrom DEF Exact
<1>3. d.out \in kept[Root]
  BY DEF Exact
<1>4. made.levels = LeftLevels(d, kept)
  BY KeptParts
<1>5. Sound(made) /\ made.out # Zero /\ DOMAIN made.levels[Root] = {made.out} \ {Zero}
  <2>1. Sound(made) /\ made.out # Zero /\ Len(made.levels[Root]) = Cardinality(kept[Root])
    BY <1>2, <1>3, KeptRoot
  <2>2. Cardinality(kept[Root]) = 1
    BY FS_Singleton DEF Exact
  <2>3. DOMAIN made.levels[Root] = 1 .. 1 /\ made.out \in {Zero} \cup DOMAIN made.levels[Root]
    <3> HIDE DEF made
    <3>1. InRange(made.levels)
      BY <2>1, SoundIs
    <3> QED  BY <2>1, <2>2, <3>1, <1>1, LevelIs, SoundIs
  <2>4. 1 .. 1 = {1}
    OBVIOUS
  <2> HIDE DEF made
  <2> QED  BY <2>1, <2>3, <2>4 DEF Zero
<1>6. ASSUME NEW t \in Internal, t # Root, NEW i \in DOMAIN made.levels[t]
      PROVE  Names(made.levels[Parent[t]], Side(t), i)
  <2> DEFINE p == Parent[t]
             s == Side(t)
  <2>1. p \in Internal /\ t \in Children(p) /\ t \notin Leaf /\ s \in {1, 2} /\ Side(t) = (IF t = Left[p] THEN 1 ELSE 2)
    BY <1>6, InternalChild, ParentOf
  <2>2. kept[t] = NamedFrom(levels, t, kept[p])
    BY <1>6 DEF Exact
  <2>3. kept[t] = {q[s] : q \in UNION {levels[p][m] : m \in kept[p]}}
    BY <1>1, <2>1, <2>2, NamedIs
  <2>4. ASSUME NEW level, OfNumbers(level), NEW k \in DOMAIN level, NEW q \in level[k], q[s] = i PROVE Names(level, s, i)
    <3>1. Cell(level, s, k, i, q[3 - s])
      BY <2>4 DEF Cell
    <3>2. q[3 - s] \in Nat
      <4> HIDE DEF s, p
      <4> QED  BY <2>1, <2>4, <3>1, CellTurned
    <3> QED  BY <3>1, <3>2 DEF Names
  <2>5. OfNumbers(made.levels[p])
    <3> HIDE DEF made, p
    <3>1. InRange(made.levels)
      BY <1>5, SoundIs
    <3> QED  BY <2>1, <3>1, LevelIs DEF OfNumbers
  <2>6. CASE Lost(d, kept) = {}
    <3>1. made.levels = levels
      BY <1>4, <2>6 DEF LeftLevels
    <3>2. i \in kept[t]
      BY <1>6, <2>6, <3>1 DEF Lost
    <3>3. PICK m \in kept[p] : \E q \in levels[p][m] : q[s] = i
      BY <2>3, <3>2
    <3>4. m \in DOMAIN levels[p]
      BY <1>2, <2>1 DEF Closed
    <3> HIDE DEF made, p, s, levels
    <3> QED  BY <2>4, <2>5, <3>1, <3>3, <3>4 DEF p, s
  <2>7. CASE Lost(d, kept) # {}
    <3> DEFINE new == Compact(levels, kept)
               w == Was(kept, t, i)
    <3>1. made.levels = new
      BY <1>4, <2>7 DEF LeftLevels
    <3>2. i \in 1 .. Cardinality(kept[t]) /\ w \in kept[t] /\ Rank(kept[t], w) = i
      <4>1. i \in 1 .. Cardinality(kept[t])
        BY <1>1, <1>2, <1>6, <3>1, CompactShape
      <4> QED  BY <4>1, <1>1, <1>2, WasIs
    <3>3. PICK m \in kept[p] : \E q \in levels[p][m] : q[s] = w
      BY <2>3, <3>2
    <3>4. PICK q \in levels[p][m] : q[s] = w
      BY <3>3
    <3> DEFINE k == Rank(kept[p], m)
    <3>5. k \in DOMAIN new[p] /\ Was(kept, p, k) = m
      BY <1>1, <1>2, <2>1, WasIs, CompactShape
    <3>6. MovedPair(kept, p, q) \in new[p][k]
      BY <1>1, <1>2, <2>1, <3>5, CompactPair
    <3>7. MovedPair(kept, p, q)[s] = i
      <4>1. MovedPair(kept, p, q)[s] = To(kept, t, q[s])
        <5>1. t = Left[p] \/ t = Right[p]
          BY <2>1 DEF Children
        <5>2. t = Left[p] => s = 1
          BY <2>1
        <5>3. t # Left[p] => s = 2
          BY <2>1
        <5> HIDE DEF s, p
        <5> QED  BY <5>1, <5>2, <5>3 DEF MovedPair
      <4>2. To(kept, t, w) = Rank(kept[t], w)
        BY <2>1 DEF To
      <4> QED  BY <4>1, <4>2, <3>2, <3>4
    <3> HIDE DEF made, p, s, levels, new, k
    <3> QED  BY <2>4, <2>5, <3>1, <3>5, <3>6, <3>7 DEF p, s
  <2> QED  BY <2>6, <2>7
<1>7. Trim(made)
  <2> HIDE DEF made
  <2>1. InRange(made.levels)
    BY <1>5, SoundIs
  <2>2. HasUnnamed(made) = {}
    BY <1>6, <2>1, UnnamedIs DEF Unread
  <2> QED  BY <1>5, <2>2 DEF Trim
<1>8. ASSUME Trim(d) PROVE Lost(d, kept) = {}
  <2> DEFINE P == {t \in Internal : kept[t] = DOMAIN levels[t]}
  <2>1. Root \in P
    BY <1>1, <1>8 DEF Trim, Exact
  <2>2. ASSUME NEW t \in Internal \ {Root}, Parent[t] \in P PROVE t \in P
    <3>1. kept[t] = Named(levels, t)
      BY <2>2, NamedAll DEF Exact
    <3>2. DOMAIN levels[t] = Named(levels, t)
      BY <1>8 DEF Trim, HasUnnamed
    <3> QED  BY <3>1, <3>2
  <2> HIDE DEF P
  <2>3. Internal \subseteq P
    BY <2>1, <2>2, DownInduction
  <2> QED  BY <2>3 DEF P, Lost
<1> QED  BY <1>2, <1>3, <1>7, <1>8

Followed(d, starts, clean, walk) ==
  \A t \in Internal \ {Root} :
    \/ t \notin starts /\ walk[Parent[t]].in /\ t \notin clean
    \/ /\ t \notin HasUnnamed(d) /\ walk[t].kept = DOMAIN d.levels[t]
       /\ walk[Parent[t]].kept = DOMAIN d.levels[Parent[t]]

\* A walk is exact if it follows every name, or all are named where it stopped.
LEMMA WalkExact ==
  ASSUME NEW d, Sound(d), d.out # Zero, NEW starts, NEW clean, NEW forced, NEW walk,
         Walking(d, starts, clean, forced, walk), walk[Root].kept = {d.out}, Followed(d, starts, clean, walk)
  PROVE  Exact(d, KeptBy(walk))
<1> DEFINE kept == [t \in Internal |-> walk[t].kept]
<1>1. ASSUME NEW t \in Internal \ {Root} PROVE walk[t].kept = NamedFrom(d.levels, t, walk[Parent[t]].kept)
  <2>1. CASE t \notin starts /\ walk[Parent[t]].in /\ t \notin clean
    <3>1. walk[t] = [in |-> Enters(t, NamedFrom(d.levels, t, walk[Parent[t]].kept) # DOMAIN d.levels[t], forced),
                     kept |-> NamedFrom(d.levels, t, walk[Parent[t]].kept)]
      BY <2>1 DEF Walked, Walking
    <3> HIDE DEF kept
    <3> QED  BY <3>1
  <2>2. CASE /\ t \notin HasUnnamed(d) /\ walk[t].kept = DOMAIN d.levels[t]
             /\ walk[Parent[t]].kept = DOMAIN d.levels[Parent[t]]
    <3>1. DOMAIN d.levels[t] = Named(d.levels, t)
      BY <2>2 DEF HasUnnamed
    <3> QED  BY <2>2, <3>1, NamedAll
  <2> QED  BY <2>1, <2>2 DEF Followed
<1>2. \A t \in Internal : kept[t] = walk[t].kept
  OBVIOUS
<1>3. \A t \in Internal \ {Root} : Parent[t] \in Internal
  BY InternalChild
<1> HIDE DEF kept
<1>4. Exact(d, kept)
  BY <1>1, <1>2, <1>3, RootIs DEF Exact
<1> QED  BY <1>4 DEF kept, KeptBy

\* Where a walk did not go in it kept all.
LEMMA WalkedIs ==
  ASSUME NEW d, NEW starts, NEW clean, NEW forced, NEW t, NEW above
  PROVE  LET w == Walked(d, starts, clean, forced, t, above)
         IN  /\ w.in \/ w.kept = DOMAIN d.levels[t]
             /\ w.in \/ t \notin forced \/ (t = Root /\ starts # {}) \/ ~above.in \/ t \in clean
             /\ t \in starts => w.in /\ w.kept = DOMAIN d.levels[t]
             /\ t \notin starts /\ t # Root /\ ~(above.in /\ t \notin clean) => ~w.in /\ w.kept = DOMAIN d.levels[t]
             /\ t \notin starts /\ t = Root => IF starts = {} THEN w.in /\ w.kept = {d.out} ELSE ~w.in /\ w.kept = DOMAIN d.levels[t]
<1>1. CASE t \in starts
  BY <1>1 DEF Walked
<1>2. CASE t \notin starts /\ t = Root
  BY <1>2 DEF Walked
<1>3. CASE t \notin starts /\ t # Root /\ ~(above.in /\ t \notin clean)
  BY <1>3 DEF Walked
<1>4. CASE t \notin starts /\ t # Root /\ (above.in /\ t \notin clean)
  BY <1>4 DEF Walked, Enters
<1> QED  BY <1>1, <1>2, <1>3, <1>4

\* What a prune must leave: what the output reaches and no more.
ExactCut(d, made) == (made = d /\ Trim(d)) \/ \E kept : Exact(d, kept) /\ made = Kept(d, kept)

\* The prune of the whole diagram keeps exactly that.
LEMMA PruneWholeExact ==
  ASSUME NEW d, Sound(d), d.out # Zero
  PROVE  ExactCut(d, PruneWhole(d))
<1> DEFINE kept == Reached(d.levels, d.out)
<1>1. InRange(d.levels) /\ d.out \in DOMAIN d.levels[Root]
  BY SoundIs
<1>2. /\ kept[Root] = {d.out}
      /\ \A t \in Internal \ {Root} : kept[t] = NamedFrom(d.levels, t, kept[Parent[t]])
  BY <1>1, ReachedIs
<1>3. PruneWhole(d) = Kept(d, kept)
  BY DEF PruneWhole
<1> HIDE DEF kept
<1> QED  BY <1>2, <1>3 DEF Exact, ExactCut

\* The walk from the root, where no level left is in doubt.
LEMMA RootWalkExact ==
  ASSUME NEW d, Sound(d), d.out # Zero, NEW forced,
         \A t \in HasUnnamed(d) : t \in Children(Root) \/ \A u \in Internal : t \in Children(u) => u \in forced,
         \A t \in Internal : \A c \in Children(t) : c \in forced => t \in forced
  PROVE  ExactCut(d, WalkFrom(d, {}, {}, forced))
<1>1. PICK walk : WalkFrom(d, {}, {}, forced) = Kept(d, KeptBy(walk)) /\ Walking(d, {}, {}, forced, walk)
  BY WalkIs
<1>2. \A t \in Internal :
        /\ walk[t].in \/ walk[t].kept = DOMAIN d.levels[t]
        /\ walk[t].in \/ t \notin forced \/ ~walk[Parent[t]].in
        /\ t # Root /\ ~walk[Parent[t]].in => ~walk[t].in /\ walk[t].kept = DOMAIN d.levels[t]
        /\ t = Root => walk[t].in /\ walk[t].kept = {d.out}
  <2>1. \A t \in Internal : walk[t] = Walked(d, {}, {}, forced, t, walk[Parent[t]])
    BY <1>1 DEF Walking
  <2> QED  BY <2>1, WalkedIs
<1>3. \A t \in Internal \ {Root} : Parent[t] \in Internal /\ t \in Children(Parent[t])
  BY InternalChild
<1> DEFINE P == {t \in Internal : walk[t].in \/ t \notin forced}
<1>4. Internal \subseteq P
  <2>1. Root \in P
    BY <1>2, RootIs
  <2>2. ASSUME NEW t \in Internal \ {Root}, Parent[t] \in P PROVE t \in P
    <3>1. CASE walk[Parent[t]].in
      BY <1>2, <3>1
    <3>2. CASE Parent[t] \notin forced
      BY <1>3, <3>2
    <3> QED  BY <2>2, <3>1, <3>2
  <2> HIDE DEF P
  <2> QED  BY <2>1, <2>2, DownInduction
<1>5. ASSUME NEW t \in Internal \ {Root}
      PROVE  \/ t \notin {} /\ walk[Parent[t]].in /\ t \notin {}
             \/ /\ t \notin HasUnnamed(d) /\ walk[t].kept = DOMAIN d.levels[t]
                /\ walk[Parent[t]].kept = DOMAIN d.levels[Parent[t]]
  <2>1. CASE walk[Parent[t]].in
    BY <2>1
  <2>2. CASE ~walk[Parent[t]].in
    <3>1. Parent[t] \notin forced /\ Parent[t] # Root
      BY <1>2, <1>3, <1>4, <2>2
    <3>2. t \notin Children(Root)
      BY <3>1, RootIs, ParentOf
    <3>3. t \notin HasUnnamed(d)
      BY <1>3, <3>1, <3>2
    <3> QED  BY <1>2, <1>3, <2>2, <3>3
  <2> QED  BY <2>1, <2>2
<1>6. walk[Root].kept = {d.out}
  BY <1>2, RootIs
<1>7. Exact(d, KeptBy(walk))
  <2>1. Followed(d, {}, {}, walk)
    BY <1>5 DEF Followed
  <2> HIDE DEF P
  <2> QED  BY <1>1, <1>6, <2>1, WalkExact
<1> QED  BY <1>1, <1>7 DEF ExactCut

\* So does the prune below the root, if nothing deeper is unnamed.
LEMMA PruneBelowRootExact ==
  ASSUME NEW d, Sound(d), d.out # Zero, HasUnnamed(d) \subseteq Children(Root)
  PROVE  ExactCut(d, PruneBelowRoot(d))
<1>1. \A t \in HasUnnamed(d) : t \in Children(Root) \/ \A u \in Internal : t \in Children(u) => u \in {}
  OBVIOUS
<1>2. \A t \in Internal : \A c \in Children(t) : c \in {} => t \in {}
  OBVIOUS
<1> QED  BY <1>1, <1>2, RootWalkExact DEF PruneBelowRoot

\* The loose levels a prune starts from.
LEMMA SettleKeeps ==
  ASSUME NEW d, d.loose # Unknown, Listed(d)
  PROVE  HasUnnamed(d) \subseteq SettleLoose(d) /\ SettleLoose(d) \subseteq d.loose
<1>1. ASSUME NEW c \in HasUnnamed(d) PROVE c \in d.loose /\ DOMAIN d.levels[c] # Named(d.levels, c)
  BY DEF Listed, HasUnnamed
<1> QED  BY <1>1 DEF SettleLoose, Stays

\* So does a walk from the parents of the loose levels.
LEMMA SeededWalkExact ==
  ASSUME NEW d, Sound(d), d.out # Zero, NEW loose, HasUnnamed(d) \subseteq loose, loose \subseteq Internal \ {Root},
         Root \in CleanLevels(d, loose), NEW seeds, seeds = {Parent[c] : c \in loose} \cap CleanLevels(d, loose), seeds # {},
         NEW tidy, tidy = {c \in UNION {Children(t) : t \in seeds} : c \notin loose}
  PROVE  ExactCut(d, WalkFrom(d, seeds, tidy, Above(loose)))
<1> DEFINE clean == CleanLevels(d, loose)
           up == Above(loose)
<1>1. PICK walk : WalkFrom(d, seeds, tidy, up) = Kept(d, KeptBy(walk)) /\ Walking(d, seeds, tidy, up, walk)
  BY WalkIs
<1>2. \A t \in Internal :
        /\ walk[t].in \/ walk[t].kept = DOMAIN d.levels[t]
        /\ walk[t].in \/ t \notin up \/ t = Root \/ ~walk[Parent[t]].in \/ t \in tidy
        /\ t \in seeds => walk[t].in /\ walk[t].kept = DOMAIN d.levels[t]
        /\ t \notin seeds /\ t # Root /\ ~(walk[Parent[t]].in /\ t \notin tidy) => ~walk[t].in /\ walk[t].kept = DOMAIN d.levels[t]
        /\ t \notin seeds /\ t = Root => ~walk[t].in /\ walk[t].kept = DOMAIN d.levels[t]
  <2>1. ASSUME NEW t \in Internal
        PROVE  LET w == walk[t]
                   above == walk[Parent[t]]
               IN  /\ w.in \/ w.kept = DOMAIN d.levels[t]
                   /\ w.in \/ t \notin up \/ (t = Root /\ seeds # {}) \/ ~above.in \/ t \in tidy
                   /\ t \in seeds => w.in /\ w.kept = DOMAIN d.levels[t]
                   /\ t \notin seeds /\ t # Root /\ ~(above.in /\ t \notin tidy) => ~w.in /\ w.kept = DOMAIN d.levels[t]
                   /\ t \notin seeds /\ t = Root => IF seeds = {} THEN w.in /\ w.kept = {d.out} ELSE ~w.in /\ w.kept = DOMAIN d.levels[t]
    <3>1. walk[t] = Walked(d, seeds, tidy, up, t, walk[Parent[t]])
      BY <1>1 DEF Walking
    <3> HIDE DEF up
    <3> QED  BY <3>1, WalkedIs
  <2> HIDE DEF up
  <2> QED  BY <2>1
<1>3. \A t \in Internal \ {Root} : Parent[t] \in Internal /\ t \in Children(Parent[t])
  BY InternalChild
<1>4. /\ Len(d.levels[Root]) = 1
      /\ \A t \in Internal \ {Root} : t \in clean <=> Parent[t] \in clean /\ t \notin loose
  BY CleanIs
<1>5. \A t \in Internal \ {Root} : Parent[t] \in seeds <=> Parent[t] \in clean /\ \E c \in loose : Parent[c] = Parent[t]
  OBVIOUS
<1>6. seeds \subseteq clean
  OBVIOUS
<1>7. \A t \in Internal \ {Root} : t \in tidy <=> Parent[t] \in seeds /\ t \notin loose
  <2>1. ASSUME NEW t \in Internal \ {Root}, t \in tidy PROVE Parent[t] \in seeds
    <3>1. PICK u \in seeds : t \in Children(u)
      BY <2>1
    <3>2. u \in Internal
      BY DEF CleanLevels
    <3> QED  BY <3>1, <3>2, ParentOf
  <2>2. ASSUME NEW t \in Internal \ {Root}, Parent[t] \in seeds, t \notin loose PROVE t \in tidy
    BY <1>3, <2>2
  <2> QED  BY <2>1, <2>2
<1> HIDE DEF clean, up
\* A clean level is whole, and gone into from a seed only.
<1> DEFINE P == {t \in Internal : t \in clean => walk[t].kept = DOMAIN d.levels[t] /\ (walk[t].in => t \in seeds)}
<1>8. Internal \subseteq P
  <2>1. Root \in P
    BY <1>2, RootIs
  <2>2. ASSUME NEW t \in Internal \ {Root}, Parent[t] \in P, t \in clean, t \notin seeds PROVE ~walk[t].in /\ walk[t].kept = DOMAIN d.levels[t]
    <3>1. Parent[t] \in clean /\ t \notin loose
      BY <1>4, <2>2
    <3>2. walk[Parent[t]].in => t \in tidy
      BY <1>7, <2>2, <3>1
    <3> QED  BY <1>2, <2>2, <3>2
  <2>3. ASSUME NEW t \in Internal \ {Root}, Parent[t] \in P PROVE t \in P
    BY <1>2, <2>2, <2>3
  <2> HIDE DEF P
  <2> QED  BY <2>1, <2>3, DownInduction
\* Another level not gone into has no loose level below.
<1> DEFINE Q == {t \in Internal : t \in clean \/ walk[t].in \/ t \notin up}
<1>9. \A t \in Internal : \A c \in Children(t) \ Leaf : c \in loose \/ c \in up => t \in up
  BY AboveIs DEF up
<1>10. Internal \subseteq Q
  <2>1. Root \in Q
    BY RootIs DEF clean
  <2>2. ASSUME NEW t \in Internal \ {Root}, Parent[t] \in Q, t \notin clean, ~walk[t].in PROVE t \notin up
    <3>0. t \notin seeds /\ t \notin Leaf
      BY <1>6, <2>2, InternalIs
    <3>1. CASE Parent[t] \in clean
      <4>1. t \in loose /\ Parent[t] \in seeds
        BY <1>4, <1>5, <2>2, <3>1
      <4>2. walk[Parent[t]].in /\ t \notin tidy
        BY <1>2, <1>3, <1>7, <4>1
      <4> QED  BY <1>2, <2>2, <4>2
    <3>2. CASE Parent[t] \notin clean /\ walk[Parent[t]].in
      <4>1. t \notin tidy
        BY <1>6, <1>7, <3>2
      <4> QED  BY <1>2, <2>2, <3>2, <4>1
    <3>3. CASE Parent[t] \notin up
      BY <1>3, <1>9, <3>0, <3>3
    <3> QED  BY <2>2, <3>1, <3>2, <3>3
  <2>3. ASSUME NEW t \in Internal \ {Root}, Parent[t] \in Q PROVE t \in Q
    BY <2>2, <2>3
  <2> HIDE DEF Q
  <2> QED  BY <2>1, <2>3, DownInduction
<1>11. ASSUME NEW t \in Internal \ {Root}
       PROVE  \/ t \notin seeds /\ walk[Parent[t]].in /\ t \notin tidy
              \/ /\ t \notin HasUnnamed(d) /\ walk[t].kept = DOMAIN d.levels[t]
                 /\ walk[Parent[t]].kept = DOMAIN d.levels[Parent[t]]
  <2>1. CASE t \in clean
    <3>1. Parent[t] \in clean /\ t \notin loose
      BY <1>4, <2>1
    <3> QED  BY <1>3, <1>8, <2>1, <3>1
  <2>2. CASE t \notin clean /\ Parent[t] \in clean
    <3>1. t \in loose /\ Parent[t] \in seeds
      BY <1>4, <1>5, <2>2
    <3> QED  BY <1>2, <1>3, <1>6, <1>7, <2>2, <3>1
  <2>3. CASE t \notin clean /\ Parent[t] \notin clean /\ walk[Parent[t]].in
    BY <1>6, <1>7, <2>3
  <2>4. CASE t \notin clean /\ Parent[t] \notin clean /\ ~walk[Parent[t]].in
    <3>1. Parent[t] \notin up /\ t \notin Leaf
      BY <1>3, <1>10, <2>4, InternalIs
    <3>2. t \notin loose
      BY <1>3, <1>9, <3>1
    <3> QED  BY <1>2, <1>3, <1>6, <2>4, <3>2
  <2> QED  BY <2>1, <2>2, <2>3, <2>4
<1>12. walk[Root].kept = {d.out}
  <2>1. walk[Root].kept = DOMAIN d.levels[Root]
    BY <1>8, RootIs DEF clean
  <2>2. InRange(d.levels) /\ d.out \in DOMAIN d.levels[Root]
    BY SoundIs
  <2>3. DOMAIN d.levels[Root] = 1 .. 1
    BY <1>4, <2>2, LevelIs, RootIs
  <2>4. 1 .. 1 = {1}
    OBVIOUS
  <2> QED  BY <2>1, <2>2, <2>3, <2>4
<1>13. Exact(d, KeptBy(walk))
  <2>1. Followed(d, seeds, tidy, walk)
    BY <1>11 DEF Followed
  <2> HIDE DEF P, Q
  <2> QED  BY <1>1, <1>12, <2>1, WalkExact
<1>14. WalkFrom(d, seeds, tidy, up) = Kept(d, KeptBy(walk))
  BY <1>1
<1> QED  BY <1>13, <1>14 DEF ExactCut, up

\* So does the prune of a diagram that knows its loose levels.
LEMMA PruneSeededExact ==
  ASSUME NEW d, Sound(d), d.out # Zero, d.loose # Unknown, Listed(d)
  PROVE  ExactCut(d, PruneSeeded(d))
<1> DEFINE loose == SettleLoose(d)
           clean == CleanLevels(d, loose)
           seeds == {Parent[c] : c \in loose} \cap clean
           kept  == {c \in UNION {Children(t) : t \in seeds} : c \notin loose}
<1>1. PruneSeeded(d) = IF Root \notin clean THEN WalkFrom(d, {}, {}, Above(loose))
                       ELSE IF seeds = {} THEN d
                       ELSE WalkFrom(d, seeds, kept, Above(loose))
  BY DEF PruneSeeded
<1>2. HasUnnamed(d) \subseteq loose /\ loose \subseteq Internal \ {Root}
  <2>1. loose \subseteq d.loose
    BY SettleKeeps
  <2> HIDE DEF loose
  <2> QED  BY <2>1, SettleKeeps, SoundIs DEF loose
<1>3. \A t \in Internal : \A c \in Children(t) \ Leaf : c \in loose \/ c \in Above(loose) => t \in Above(loose)
  <2> HIDE DEF loose
  <2> QED  BY AboveIs
<1>4. CASE Root \notin clean
  <2>1. \A t \in HasUnnamed(d) : t \in Children(Root) \/ \A u \in Internal : t \in Children(u) => u \in Above(loose)
    <3> HIDE DEF loose
    <3> QED  BY <1>2, <1>3, InternalIs
  <2>2. \A t \in Internal : \A c \in Children(t) : c \in Above(loose) => t \in Above(loose)
    <3>1. Above(loose) \subseteq Internal
      BY DEF Above
    <3> HIDE DEF loose
    <3> QED  BY <1>3, <3>1, InternalIs
  <2> HIDE DEF loose, clean, seeds, kept
  <2>3. ExactCut(d, WalkFrom(d, {}, {}, Above(loose)))
    BY <2>1, <2>2, RootWalkExact
  <2> QED  BY <1>1, <1>4, <2>3
<1>5. CASE Root \in clean /\ seeds = {}
  <2>1. /\ Root \in clean <=> Len(d.levels[Root]) = 1
        /\ \A t \in Internal \ {Root} : t \in clean <=> Parent[t] \in clean /\ t \notin loose
    <3> HIDE DEF loose
    <3> QED  BY CleanIs
  <2>2. \A c \in loose : Parent[c] \notin clean
    <3> HIDE DEF clean, loose
    <3> QED  BY <1>5
  <2> HIDE DEF loose, clean, seeds, kept
  <2>3. Internal \subseteq clean
    <3>1. \A t \in Internal \ {Root} : Parent[t] \in clean => t \in clean
      BY <2>1, <2>2
    <3> QED  BY <1>5, <3>1, DownInduction
  <2>4. HasUnnamed(d) = {}
    <3>1. \A t \in Internal \ {Root} : t \notin loose
      BY <2>1, <2>3
    <3> QED  BY <1>2, <3>1
  <2>5. InRange(d.levels) /\ d.out \in DOMAIN d.levels[Root]
    BY SoundIs
  <2>6. DOMAIN d.levels[Root] = 1 .. 1
    BY <1>5, <2>1, <2>5, LevelIs, RootIs
  <2>7. 1 .. 1 = {1}
    OBVIOUS
  <2>8. Trim(d)
    BY <2>4, <2>5, <2>6, <2>7 DEF Trim, Zero
  <2> QED  BY <1>1, <1>5, <2>8 DEF ExactCut
<1>6. CASE Root \in clean /\ seeds # {}
  <2>1. Root \in CleanLevels(d, loose) /\ seeds = {Parent[c] : c \in loose} \cap CleanLevels(d, loose)
    BY <1>6
  <2>2. kept = {c \in UNION {Children(t) : t \in seeds} : c \notin loose}
    OBVIOUS
  <2> HIDE DEF loose, clean, seeds, kept
  <2>3. ExactCut(d, WalkFrom(d, seeds, kept, Above(loose)))
    BY <1>2, <1>6, <2>1, <2>2, SeededWalkExact
  <2> QED  BY <1>1, <1>6, <2>3
<1> QED  BY <1>4, <1>5, <1>6

\* An empty level has nothing to merge.
LEMMA EmptyIs ==
  ASSUME NEW t
  PROVE  FreeAt(<<>>, t) /\ FoldedAt(<<>>, t)
BY DEF FreeAt, FoldedAt, Free, Foldable, Names

\* What a cut leaves is whole, and owes nothing new but the levels it shrank.
Tended(d, made) ==
  /\ Trim(made)
  /\ d.contract \subseteq made.contract /\ d.leaves \subseteq made.leaves
  /\ \A t \in Internal : t \notin made.contract /\ FreeAt(d.levels[t], t) => FreeAt(made.levels[t], t)
  /\ \A t \in Internal : t \notin made.leaves /\ FoldedAt(d.levels[t], t) => FoldedAt(made.levels[t], t)
  /\ Best(d) => Best(made)
  /\ made.certified => d.certified

\* What keeping exactly that does to the rest.
LEMMA ExactCutPrunes ==
  ASSUME NEW d, Sound(d), d.out # Zero, NEW made, ExactCut(d, made)
  PROVE  Tended(d, made)
<1>1. CASE made = d /\ Trim(d)
  BY <1>1 DEF Tended
<1>2. ASSUME NEW kept, Exact(d, kept), made = Kept(d, kept) PROVE Tended(d, made)
  <2>1. Closed(d.levels, kept) /\ Trim(made) /\ (Trim(d) => Lost(d, kept) = {})
    BY <1>2, ExactTrims
  <2>2. /\ made.levels = LeftLevels(d, kept)
        /\ made.contract = d.contract \cup Lost(d, kept) /\ made.leaves = d.leaves \cup Lost(d, kept)
        /\ made.certified = IF Lost(d, kept) = {} THEN d.certified ELSE FALSE
    BY <1>2, KeptParts
  <2>3. \A t \in Internal : t \notin Lost(d, kept) =>
          (FreeAt(d.levels[t], t) => FreeAt(made.levels[t], t)) /\ (FoldedAt(d.levels[t], t) => FoldedAt(made.levels[t], t))
    BY <1>2, <2>1, KeptKeeps
  <2>4. Best(d) => Best(made)
    <3>1. Best(d) => made.levels = d.levels
      BY <2>1, <2>2 DEF Best, LeftLevels
    <3> QED  BY <2>1, <3>1 DEF Best, FreeOff, FoldedOff
  <2>5. /\ \A t \in Internal : t \notin made.contract /\ FreeAt(d.levels[t], t) => FreeAt(made.levels[t], t)
        /\ \A t \in Internal : t \notin made.leaves /\ FoldedAt(d.levels[t], t) => FoldedAt(made.levels[t], t)
    BY <2>2, <2>3
  <2>6. made.certified => d.certified
    BY <2>2
  <2>7. d.contract \subseteq made.contract /\ d.leaves \subseteq made.leaves
    BY <2>2
  <2> QED  BY <2>1, <2>4, <2>5, <2>6, <2>7 DEF Tended
<1> QED  BY <1>1, <1>2 DEF ExactCut

\* The prune, whichever walk it takes.
LEMMA PruneTrims ==
  ASSUME NEW d, Sound(d), Listed(d), NEW belowRoot, belowRoot => HasUnnamed(d) \subseteq Children(Root)
  PROVE  Tended(d, Prune(d, belowRoot)) /\ Prune(d, belowRoot).loose = {}
<1>1. CASE d.out = Zero
  <2>1. d = Diagram(d.levels, d.out, d.contract, d.leaves, d.loose, d.certified)
    BY SoundIs
  <2>2. Prune(d, belowRoot) = Diagram(NoLevels, Zero, d.contract, d.leaves, {}, FALSE)
    BY <1>1, <2>1 DEF Prune, Diagram
  <2> DEFINE made == Prune(d, belowRoot)
  <2>3. /\ made.levels = NoLevels /\ made.out = Zero /\ made.contract = d.contract /\ made.leaves = d.leaves
        /\ made.loose = {} /\ made.certified = FALSE
    BY <2>2 DEF Diagram
  <2>4. \A t \in Internal : NoLevels[t] = <<>>
    BY DEF NoLevels
  <2>5. DOMAIN made.levels[Root] = {made.out} \ {Zero}
    BY <2>3, <2>4, RootIs
  <2> HIDE DEF made
  <2>6. InRange(made.levels)
    BY <2>3, NothingIs
  <2>7. HasUnnamed(made) = {}
    <3>1. \A t \in Internal : ~Unread(made.levels, t)
      BY <2>3, <2>4 DEF Unread
    <3> QED  BY <2>6, <3>1, UnnamedIs
  <2>8. \A t \in Internal : FreeAt(made.levels[t], t) /\ FoldedAt(made.levels[t], t)
    BY <2>3, <2>4, EmptyIs
  <2>9. Tended(d, made)
    BY <2>3, <2>5, <2>7, <2>8 DEF Tended, Trim, Best, FreeOff, FoldedOff
  <2> QED  BY <2>3, <2>9 DEF made
<1>2. CASE d.out # Zero
  <2> DEFINE cut == IF belowRoot THEN PruneBelowRoot(d)
                    ELSE IF d.loose # Unknown THEN PruneSeeded(d) ELSE PruneWhole(d)
  <2>1. ExactCut(d, cut)
    BY <1>2, PruneBelowRootExact, PruneSeededExact, PruneWholeExact
  <2>2. Prune(d, belowRoot) = [cut EXCEPT !.loose = {}]
    BY <1>2 DEF Prune
  <2>3. Sound(cut)
    <3>1. Sound(PruneBelowRoot(d))
      BY <1>2, WalkSound DEF PruneBelowRoot
    <3> QED  BY <1>2, <3>1, PruneSeededSound, PruneWholeSound
  <2> HIDE DEF cut
  <2>4. Tended(d, cut)
    BY <1>2, <2>1, ExactCutPrunes
  <2> DEFINE made == [cut EXCEPT !.loose = {}]
  <2>5. cut = Diagram(cut.levels, cut.out, cut.contract, cut.leaves, cut.loose, cut.certified)
    BY <2>3, SoundIs
  <2>6. made = Diagram(cut.levels, cut.out, cut.contract, cut.leaves, {}, cut.certified)
    BY <2>5 DEF Diagram
  <2>7. /\ made.levels = cut.levels /\ made.out = cut.out /\ made.contract = cut.contract /\ made.leaves = cut.leaves
        /\ made.loose = {} /\ made.certified = cut.certified
    BY <2>6, DiagramIs
  <2> HIDE DEF made
  <2>8. HasUnnamed(made) = HasUnnamed(cut)
    BY <2>7 DEF HasUnnamed
  <2>9. Tended(d, made)
    BY <2>4, <2>7, <2>8 DEF Tended, Trim, Best, FreeOff, FoldedOff
  <2> QED  BY <2>2, <2>7, <2>9 DEF made
<1> QED  BY <1>1, <1>2

-------------------------------------------------------------------------------
(***************************************************************************)
(* Residual classes: of a diagram in its best form the nodes of a level    *)
(* and the classes of assignments below it are one to one.                 *)
(***************************************************************************)
\* The sets of variables that may be true.
Assignments == SUBSET Leaf

\* Every slot of a diagram without empty nodes is satisfied by something.
LEMMA SlotsLive ==
  ASSUME NEW levels, InRange(levels), NodesLive(levels), NEW t \in Vtree, NEW i \in Slots(levels, t)
  PROVE  \E z \in Assignments : Holds(levels, t, i, z)
<1> DEFINE P == {u \in Vtree : \A k \in Slots(levels, u) : \E z \in Assignments : Holds(levels, u, k, z)}
<1>1. Leaf \subseteq P
  <2> SUFFICES ASSUME NEW u \in Leaf, NEW k \in {1, 2, 3} PROVE \E z \in Assignments : Holds(levels, u, k, z)
    BY LeafSlots DEF Vtree
  <2>1. CASE k = 1
    <3>1. Holds(levels, u, k, {u})
      BY <2>1, LeafHolds
    <3>2. {u} \in Assignments
      BY DEF Assignments
    <3> QED  BY <3>1, <3>2
  <2>2. CASE k # 1
    <3>1. Holds(levels, u, k, {})
      BY <2>2, LeafHolds
    <3>2. {} \in Assignments
      BY DEF Assignments
    <3> QED  BY <3>1, <3>2
  <2> QED  BY <2>1, <2>2
<1>2. \A u \in Internal : Left[u] \in P /\ Right[u] \in P => u \in P
  <2> SUFFICES ASSUME NEW u \in Internal, Left[u] \in P, Right[u] \in P, NEW k \in DOMAIN levels[u]
               PROVE  \E z \in Assignments : Holds(levels, u, k, z)
    BY InternalIs DEF Slots, Vtree
  <2>1. PICK p \in levels[u][k] : TRUE
    BY DEF NodesLive
  <2>2. p[1] \in Slots(levels, Left[u]) /\ p[2] \in Slots(levels, Right[u])
    BY PairIs
  <2>3. PICK x \in Assignments : Holds(levels, Left[u], p[1], x)
    BY <2>2
  <2>4. PICK y \in Assignments : Holds(levels, Right[u], p[2], y)
    BY <2>2
  <2> DEFINE X == Scope[Left[u]]
             Y == Scope[Right[u]]
             z == (x \cap X) \cup (y \cap Y)
  <2>5. z \in Assignments /\ z \cap X = x \cap X /\ z \cap Y = y \cap Y
    BY ScopesApart DEF Assignments
  <2>6. Holds(levels, Left[u], p[1], z) /\ Holds(levels, Right[u], p[2], z)
    BY <2>3, <2>4, <2>5 DEF Holds
  <2> HIDE DEF z
  <2>7. Holds(levels, u, k, z)
    BY <2>6, NodeHolds
  <2> QED  BY <2>5, <2>7
<1>3. t \in P
  <2> HIDE DEF P
  <2> QED  BY <1>1, <1>2, UpInduction
<1> QED  BY <1>3

\* A node is satisfied through one of its cells.
LEMMA CellHolds ==
  ASSUME NEW levels, InRange(levels), NEW t \in Internal, NEW c \in Children(t), NEW k \in DOMAIN levels[t], NEW z
  PROVE  /\ Holds(levels, t, k, z) <=>
              \E i, x : /\ Cell(levels[t], Side(c), k, i, x)
                        /\ Holds(levels, c, i, z) /\ Holds(levels, Sibling(c), x, z)
         /\ \A i, x : Cell(levels[t], Side(c), k, i, x) => i \in Slots(levels, c) /\ x \in Slots(levels, Sibling(c))
<1>1. Side(Sibling(c)) = 3 - Side(c)
  BY SiblingOf DEF Children
<1>2. Holds(levels, t, k, z) <=>
        \E p \in levels[t][k] : Holds(levels, c, p[Side(c)], z) /\ Holds(levels, Sibling(c), p[3 - Side(c)], z)
  BY <1>1, SidesHold
<1>3. \A p \in levels[t][k] : p[Side(c)] \in Slots(levels, c) /\ p[3 - Side(c)] \in Slots(levels, Sibling(c))
  BY <1>1, SidesIs
<1> QED  BY <1>2, <1>3 DEF Cell

\* Nodes of one form name a child by one slot for each assignment.
LEMMA CellsMeet ==
  ASSUME NEW d, Sound(d), NEW t \in Internal, NEW c \in Children(t),
         NEW k \in DOMAIN d.levels[t], NEW m \in DOMAIN d.levels[t], t # Root \/ k = m,
         NEW i, NEW x, NEW j, NEW y, NEW z,
         Cell(d.levels[t], Side(c), k, i, x), Cell(d.levels[t], Side(c), m, j, y),
         Holds(d.levels, c, i, z), Holds(d.levels, c, j, z)
  PROVE  i = j
<1>1. InRange(d.levels) /\ Deterministic(d.levels)
  BY SoundIs
<1>2. OneForm(t, d.levels[t][k], d.levels[t][m])
  BY <1>1, DeterministicIs
<1>3. c \in Leaf => (i = 3 <=> j = 3)
  BY <1>2, OneFormIs DEF Cell, One
<1>4. i \in Slots(d.levels, c) /\ j \in Slots(d.levels, c)
  BY <1>1, CellHolds
<1>5. Distinct(d.levels, c)
  BY <1>1, NodesApart, ParentOf
<1> QED  BY <1>3, <1>4, <1>5 DEF Distinct, Apart2, Holds

\* An assignment with the part below a vnode from another.
Spliced(t, a, z) == (a \cap Scope[t]) \cup (z \ Scope[t])

\* The part outside.
Rest(t, z) == z \ Scope[t]

LEMMA SplicedIs ==
  ASSUME NEW t \in Internal, NEW c \in Children(t), NEW a \in Assignments, NEW b \in Assignments, NEW z \in Assignments,
         NEW w, w = Spliced(c, a, Spliced(Sibling(c), b, z))
  PROVE  /\ w \in Assignments /\ Rest(t, w) = Rest(t, z)
         /\ w \cap Scope[c] = a \cap Scope[c] /\ w \cap Scope[Sibling(c)] = b \cap Scope[Sibling(c)]
         /\ Rest(c, w) = Rest(c, Spliced(Sibling(c), b, z))
<1> DEFINE X == Scope[c]
           Y == Scope[Sibling(c)]
<1>1. Scope[t] = X \cup Y /\ X \cap Y = {}
  <2>1. Scope[t] = Scope[Left[t]] \cup Scope[Right[t]] /\ Scope[Left[t]] \cap Scope[Right[t]] = {}
    BY ScopeIs, ScopesApart DEF ScopesOf
  <2>2. c = Left[t] \/ c = Right[t]
    BY DEF Children
  <2>3. c = Left[t] => Sibling(c) = Right[t]
    BY SiblingOf
  <2>4. c = Right[t] => Sibling(c) = Left[t]
    BY SiblingOf
  <2> QED  BY <2>1, <2>2, <2>3, <2>4
<1>2. w = (a \cap X) \cup (((b \cap Y) \cup (z \ Y)) \ X)
  BY DEF Spliced
<1>3. Spliced(Sibling(c), b, z) = (b \cap Y) \cup (z \ Y)
  BY DEF Spliced
<1> HIDE DEF X, Y
<1>4. w \in Assignments /\ w \cap X = a \cap X /\ w \cap Y = b \cap Y
  BY <1>1, <1>2 DEF Assignments
<1>5. Rest(t, w) = Rest(t, z)
  BY <1>1, <1>2 DEF Rest
<1>6. Rest(c, w) = Rest(c, Spliced(Sibling(c), b, z))
  BY <1>2, <1>3 DEF Rest, X
<1> QED  BY <1>4, <1>5, <1>6 DEF X, Y

\* What a vnode's nodes say of the diagram's function: of assignments alike
\* outside its scope, two that satisfy the same node are both models or neither is;
\* for any two nodes there are some of which one is; every model satisfies a node,
\* and every node some model.
Classed(F, levels, t) ==
  /\ \A z \in F : \E i \in DOMAIN levels[t] : Holds(levels, t, i, z)
  /\ \A i \in DOMAIN levels[t] : \E z \in F : Holds(levels, t, i, z)
  /\ \A i \in DOMAIN levels[t] : \A y, z \in Assignments :
       Holds(levels, t, i, y) /\ Holds(levels, t, i, z) /\ Rest(t, y) = Rest(t, z) => (y \in F <=> z \in F)
  /\ \A i, j \in DOMAIN levels[t] : i # j =>
       \E y, z \in Assignments : /\ Holds(levels, t, i, y) /\ Holds(levels, t, j, z) /\ Rest(t, y) = Rest(t, z)
                                 /\ ~(y \in F <=> z \in F)

LEMMA RootClassed ==
  ASSUME NEW d, Sound(d), NodesLive(d.levels), Trim(d)
  PROVE  Classed(Fn(d), d.levels, Root)
<1>1. /\ Fn(d) \subseteq Assignments
      /\ \A z \in Assignments : z \in Fn(d) <=> d.out # Zero /\ Holds(d.levels, Root, d.out, z)
  BY FnHolds DEF Assignments
<1>2. DOMAIN d.levels[Root] = {d.out} \ {Zero}
  BY DEF Trim
<1>3. \A i \in DOMAIN d.levels[Root] : i = d.out /\ d.out # Zero /\ \E z \in Assignments : Holds(d.levels, Root, d.out, z)
  <2> SUFFICES ASSUME NEW i \in DOMAIN d.levels[Root] PROVE \E z \in Assignments : Holds(d.levels, Root, i, z)
    BY <1>2
  <2>1. i \in Slots(d.levels, Root) /\ Root \in Vtree
    BY RootIs, InternalIs DEF Slots, Vtree
  <2> QED  BY <2>1, SlotsLive, SoundIs
<1> DEFINE F == Fn(d)
<1> HIDE DEF F
<1>4. Classed(F, d.levels, Root)
  BY <1>1, <1>2, <1>3 DEF Classed, F
<1> QED  BY <1>4 DEF F

\* From a parent's nodes to a child's.
LEMMA ChildClassed ==
  ASSUME NEW d, Sound(d), NodesLive(d.levels), Best(d), NEW F, F \subseteq Assignments,
         NEW c \in Internal \ {Root}, Classed(F, d.levels, Parent[c])
  PROVE  Classed(F, d.levels, c)
<1> DEFINE t == Parent[c]
           e == Sibling(c)
           levels == d.levels
           level == d.levels[t]
           s == Side(c)
<1>1. /\ t \in Internal /\ c \in Children(t) /\ c \notin Leaf /\ c \in Vtree /\ e \in Vtree /\ e \in Children(t)
      /\ InRange(levels) /\ Slots(levels, c) = DOMAIN levels[c]
  <2>1. t \in Internal /\ c \in Children(t) /\ c \notin Leaf /\ c \in Vtree
    BY InternalChild DEF Vtree
  <2>2. e \in Children(t) /\ e \in Vtree
    BY <2>1, SiblingOf, ParentOf
  <2> QED  BY <2>1, <2>2, SoundIs DEF Slots
<1>2. \A k, m \in DOMAIN level : t # Root \/ k = m
  BY DEF Best, Trim
<1>3. Free(level, s)
  BY <1>1 DEF Best, FreeOff, FreeAt
<1>4. \A i \in DOMAIN levels[c] : Names(level, s, i) /\ i \in Nat
  <2>1. ~Unread(levels, c)
    BY <1>1, UnnamedIs DEF Best, Trim
  <2>2. \A i \in DOMAIN levels[c] : i \in Nat
    BY LevelIs, <1>1
  <2> QED  BY <2>1, <2>2 DEF Unread
<1>5. /\ OfNumbers(level) /\ s \in {1, 2}
      /\ Side(e) = 3 - s /\ Sibling(e) = c
  <2>1. OfNumbers(level) /\ s \in {1, 2}
    BY <1>1, ContextCells
  <2>2. Side(e) = 3 - s /\ Sibling(e) = c
    BY <1>1, SiblingOf DEF Children
  <2> QED  BY <2>1, <2>2
<1>6. /\ \A z \in F : \E k \in DOMAIN level : Holds(levels, t, k, z)
      /\ \A k \in DOMAIN level : \E z \in F : Holds(levels, t, k, z)
      /\ \A k \in DOMAIN level : \A y, z \in Assignments :
           Holds(levels, t, k, y) /\ Holds(levels, t, k, z) /\ Rest(t, y) = Rest(t, z) => (y \in F <=> z \in F)
      /\ \A k, m \in DOMAIN level : k # m =>
           \E y, z \in Assignments : /\ Holds(levels, t, k, y) /\ Holds(levels, t, m, z) /\ Rest(t, y) = Rest(t, z)
                                     /\ ~(y \in F <=> z \in F)
  BY DEF Classed
<1>7. \A k \in DOMAIN level : \A z :
        /\ Holds(levels, t, k, z) <=>
             \E i, x : Cell(level, s, k, i, x) /\ Holds(levels, c, i, z) /\ Holds(levels, e, x, z)
        /\ \A i, x : Cell(level, s, k, i, x) => i \in DOMAIN levels[c] /\ x \in Slots(levels, e)
  <2> SUFFICES ASSUME NEW k \in DOMAIN level, NEW z
               PROVE  /\ Holds(levels, t, k, z) <=>
                           \E i, x : Cell(level, s, k, i, x) /\ Holds(levels, c, i, z) /\ Holds(levels, e, x, z)
                      /\ \A i, x : Cell(level, s, k, i, x) => i \in DOMAIN levels[c] /\ x \in Slots(levels, e)
    OBVIOUS
  <2>0. t \in Internal /\ c \in Children(t) /\ InRange(levels) /\ k \in DOMAIN levels[t]
    BY <1>1
  <2>1. /\ Holds(levels, t, k, z) <=>
             \E i, x : Cell(level, s, k, i, x) /\ Holds(levels, c, i, z) /\ Holds(levels, e, x, z)
        /\ \A i, x : Cell(level, s, k, i, x) => i \in Slots(levels, c) /\ x \in Slots(levels, e)
    BY <2>0, CellHolds
  <2> QED  BY <1>1, <2>1
<1>8. \A k, m \in DOMAIN level : \A i, x, j, y, z :
        Cell(level, s, k, i, x) /\ Cell(level, s, m, j, y) =>
          /\ Holds(levels, c, i, z) /\ Holds(levels, c, j, z) => i = j
          /\ Holds(levels, e, x, z) /\ Holds(levels, e, y, z) => x = y
  <2> SUFFICES ASSUME NEW k \in DOMAIN level, NEW m \in DOMAIN level, NEW i, NEW x, NEW j, NEW y, NEW z,
                      Cell(level, s, k, i, x), Cell(level, s, m, j, y)
               PROVE  /\ Holds(levels, c, i, z) /\ Holds(levels, c, j, z) => i = j
                      /\ Holds(levels, e, x, z) /\ Holds(levels, e, y, z) => x = y
    OBVIOUS
  <2>1. Cell(level, Side(e), k, x, i) /\ Cell(level, Side(e), m, y, j)
    BY <1>5, CellTurned
  <2> HIDE DEF t, e, s
  <2>2. Holds(levels, c, i, z) /\ Holds(levels, c, j, z) => i = j
    BY <1>1, <1>2, CellsMeet DEF s
  <2>3. Holds(levels, e, x, z) /\ Holds(levels, e, y, z) => x = y
    BY <1>1, <1>2, <2>1, CellsMeet
  <2> QED  BY <2>2, <2>3
<1>9. \A i \in DOMAIN levels[c] : \E z \in Assignments : Holds(levels, c, i, z)
  BY <1>1, SlotsLive
<1>10. \A x \in Slots(levels, e) : \E z \in Assignments : Holds(levels, e, x, z)
  BY <1>1, SlotsLive
<1>11. ASSUME NEW a \in Assignments, NEW b \in Assignments, NEW z \in Assignments, NEW i, NEW x, NEW w,
              w = Spliced(c, a, Spliced(e, b, z)), Holds(levels, c, i, a), Holds(levels, e, x, b)
       PROVE  /\ w \in Assignments /\ Rest(t, w) = Rest(t, z) /\ Rest(c, w) = Rest(c, Spliced(e, b, z))
              /\ Holds(levels, c, i, w) /\ Holds(levels, e, x, w)
  <2>0. t \in Internal /\ c \in Children(t)
    BY <1>1
  <2>1. /\ w \in Assignments /\ Rest(t, w) = Rest(t, z) /\ Rest(c, w) = Rest(c, Spliced(e, b, z))
        /\ w \cap Scope[c] = a \cap Scope[c] /\ w \cap Scope[e] = b \cap Scope[e]
    BY <1>11, <2>0, SplicedIs
  <2>2. Holds(levels, c, i, w) /\ Holds(levels, e, x, w)
    BY <1>11, <2>1 DEF Holds
  <2> QED  BY <2>1, <2>2
<1> HIDE DEF t, e, levels, level, s
\* Every model satisfies a node.
<1>12. ASSUME NEW z \in F PROVE \E i \in DOMAIN levels[c] : Holds(levels, c, i, z)
  <2>1. PICK k \in DOMAIN level : Holds(levels, t, k, z)
    BY <1>6
  <2> QED  BY <1>7, <2>1
\* A node's assignments are models together.
<1>13. ASSUME NEW i \in DOMAIN levels[c], NEW y \in Assignments, NEW z \in Assignments,
              Holds(levels, c, i, y), Holds(levels, c, i, z), Rest(c, y) = Rest(c, z), y \in F
       PROVE  z \in F
  <2>1. PICK k \in DOMAIN level : Holds(levels, t, k, y)
    BY <1>6, <1>13
  <2>2. PICK j, x : Cell(level, s, k, j, x) /\ Holds(levels, c, j, y) /\ Holds(levels, e, x, y)
    BY <1>7, <2>1
  <2>3. j = i
    <3>1. Names(level, s, i)
      BY <1>4
    <3>2. PICK m \in DOMAIN level : \E v \in Nat : Cell(level, s, m, i, v)
      BY <3>1 DEF Names
    <3> QED  BY <1>8, <1>13, <2>2, <3>2
  <2>4. Scope[c] \cap Scope[e] = {} /\ Scope[t] = Scope[c] \cup Scope[e]
    <3>1. Scope[t] = Scope[Left[t]] \cup Scope[Right[t]] /\ Scope[Left[t]] \cap Scope[Right[t]] = {}
      BY <1>1, ScopeIs, ScopesApart DEF ScopesOf
    <3>2. c = Left[t] \/ c = Right[t]
      BY <1>1 DEF Children
    <3>3. c = Left[t] => e = Right[t]
      BY <1>1, SiblingOf DEF e
    <3>4. c = Right[t] => e = Left[t]
      BY <1>1, SiblingOf DEF e
    <3> QED  BY <3>1, <3>2, <3>3, <3>4
  <2>5. y \cap Scope[e] = z \cap Scope[e] /\ Rest(t, y) = Rest(t, z)
    BY <1>13, <2>4 DEF Rest
  <2>6. Holds(levels, e, x, z)
    BY <2>2, <2>5 DEF Holds
  <2>7. Holds(levels, t, k, z)
    BY <1>7, <1>13, <2>2, <2>3, <2>6
  <2> QED  BY <1>6, <1>13, <2>1, <2>5, <2>7
\* Two assignments put together from a cell's halves outside the parent alike.
<1>14. ASSUME NEW i \in DOMAIN levels[c], NEW j \in DOMAIN levels[c], NEW k \in DOMAIN level, NEW x,
              Cell(level, s, k, i, x), ~Cell(level, s, k, j, x)
       PROVE  \E y, z \in Assignments : /\ Holds(levels, c, i, y) /\ Holds(levels, c, j, z) /\ Rest(c, y) = Rest(c, z)
                                        /\ ~(y \in F <=> z \in F)
  <2>1. PICK a \in Assignments : Holds(levels, c, i, a)
    BY <1>9
  <2>2. PICK a2 \in Assignments : Holds(levels, c, j, a2)
    BY <1>9
  <2>3. PICK b \in Assignments : Holds(levels, e, x, b)
    BY <1>7, <1>10, <1>14
  <2> DEFINE made(u, v) == Spliced(c, u, Spliced(e, b, v))
  <2>4. \A v \in Assignments :
          /\ made(a, v) \in Assignments /\ made(a2, v) \in Assignments
          /\ Rest(t, made(a, v)) = Rest(t, v) /\ Rest(t, made(a2, v)) = Rest(t, v)
          /\ Rest(c, made(a, v)) = Rest(c, made(a2, v))
          /\ Holds(levels, c, i, made(a, v)) /\ Holds(levels, e, x, made(a, v))
          /\ Holds(levels, c, j, made(a2, v)) /\ Holds(levels, e, x, made(a2, v))
    <3> SUFFICES ASSUME NEW v \in Assignments
                 PROVE  /\ made(a, v) \in Assignments /\ made(a2, v) \in Assignments
                        /\ Rest(t, made(a, v)) = Rest(t, v) /\ Rest(t, made(a2, v)) = Rest(t, v)
                        /\ Rest(c, made(a, v)) = Rest(c, made(a2, v))
                        /\ Holds(levels, c, i, made(a, v)) /\ Holds(levels, e, x, made(a, v))
                        /\ Holds(levels, c, j, made(a2, v)) /\ Holds(levels, e, x, made(a2, v))
      OBVIOUS
    <3>1. ASSUME NEW u \in Assignments, NEW n, Holds(levels, c, n, u)
          PROVE  /\ made(u, v) \in Assignments /\ Rest(t, made(u, v)) = Rest(t, v)
                 /\ Rest(c, made(u, v)) = Rest(c, Spliced(e, b, v))
                 /\ Holds(levels, c, n, made(u, v)) /\ Holds(levels, e, x, made(u, v))
      <4> DEFINE w == made(u, v)
      <4>1. w = Spliced(c, u, Spliced(e, b, v))
        OBVIOUS
      <4> HIDE DEF w
      <4>2. /\ w \in Assignments /\ Rest(t, w) = Rest(t, v)
            /\ Rest(c, w) = Rest(c, Spliced(e, b, v))
            /\ Holds(levels, c, n, w) /\ Holds(levels, e, x, w)
        BY <1>11, <2>3, <3>1, <4>1
      <4> QED  BY <4>2 DEF w
    <3> HIDE DEF made
    <3> QED  BY <2>1, <2>2, <3>1
  <2> HIDE DEF made
  <2>5. ASSUME NEW v \in Assignments PROVE Holds(levels, t, k, made(a, v))
    BY <1>7, <1>14, <2>4
  <2>6. ASSUME NEW v \in Assignments, NEW m \in DOMAIN level, Holds(levels, t, m, made(a2, v)) PROVE Cell(level, s, m, j, x)
    <3>1. PICK j2, x2 : /\ Cell(level, s, m, j2, x2) /\ Holds(levels, c, j2, made(a2, v))
                        /\ Holds(levels, e, x2, made(a2, v))
      BY <1>7, <2>6
    <3>2. x2 = x
      BY <1>8, <1>14, <2>4, <3>1
    <3>3. j2 = j
      <4>1. Names(level, s, j)
        BY <1>4
      <4>2. PICK n \in DOMAIN level : \E w \in Nat : Cell(level, s, n, j, w)
        BY <4>1 DEF Names
      <4> QED  BY <1>8, <2>4, <3>1, <4>2
    <3> QED  BY <3>1, <3>2, <3>3
  <2>7. CASE \E m \in DOMAIN level : Cell(level, s, m, j, x)
    <3>1. PICK m \in DOMAIN level : Cell(level, s, m, j, x)
      BY <2>7
    <3>2. m # k
      BY <1>14, <3>1
    <3>3. PICK y, z \in Assignments : /\ Holds(levels, t, k, y) /\ Holds(levels, t, m, z) /\ Rest(t, y) = Rest(t, z)
                                      /\ ~(y \in F <=> z \in F)
      BY <1>6, <3>2
    <3>4. Holds(levels, t, m, made(a2, y))
      BY <1>7, <2>4, <3>1
    <3>5. made(a, y) \in F <=> y \in F
      BY <1>6, <2>4, <2>5, <3>3
    <3>6. made(a2, y) \in F <=> z \in F
      BY <1>6, <2>4, <3>3, <3>4
    <3> QED  BY <2>4, <3>3, <3>5, <3>6
  <2>8. CASE ~\E m \in DOMAIN level : Cell(level, s, m, j, x)
    <3>1. PICK z \in F : Holds(levels, t, k, z)
      BY <1>6
    <3>2. made(a, z) \in F
      BY <1>6, <2>4, <2>5, <3>1
    <3>3. made(a2, z) \notin F
      BY <1>6, <2>6, <2>8
    <3> QED  BY <2>4, <3>2, <3>3
  <2> QED  BY <2>7, <2>8
\* Every node has a model.
<1>15. ASSUME NEW i \in DOMAIN levels[c] PROVE \E z \in F : Holds(levels, c, i, z)
  <2>1. PICK k \in DOMAIN level : \E x \in Nat : Cell(level, s, k, i, x)
    BY <1>4 DEF Names
  <2>2. PICK x \in Nat : Cell(level, s, k, i, x)
    BY <2>1
  <2>3. PICK z \in F : Holds(levels, t, k, z)
    BY <1>6
  <2>4. PICK a \in Assignments : Holds(levels, c, i, a)
    BY <1>9
  <2>5. PICK b \in Assignments : Holds(levels, e, x, b)
    BY <1>7, <1>10, <2>2
  <2> DEFINE w == Spliced(c, a, Spliced(e, b, z))
  <2>6. /\ w \in Assignments /\ Rest(t, w) = Rest(t, z)
        /\ Holds(levels, c, i, w) /\ Holds(levels, e, x, w)
    <3>1. w = Spliced(c, a, Spliced(e, b, z)) /\ z \in Assignments
      OBVIOUS
    <3> HIDE DEF w
    <3> QED  BY <1>11, <2>4, <2>5, <3>1
  <2> HIDE DEF w
  <2>7. Holds(levels, t, k, w)
    BY <1>7, <2>2, <2>6
  <2>8. w \in F
    BY <1>6, <2>3, <2>6, <2>7
  <2> QED  BY <2>6, <2>8
\* No two nodes are one class.
<1>16. ASSUME NEW i \in DOMAIN levels[c], NEW j \in DOMAIN levels[c], i # j
       PROVE  \E y, z \in Assignments : /\ Holds(levels, c, i, y) /\ Holds(levels, c, j, z) /\ Rest(c, y) = Rest(c, z)
                                        /\ ~(y \in F <=> z \in F)
  <2>1. ~Same(level, s, i, j)
    BY <1>3, <1>4, <1>16 DEF Free
  <2>2. PICK k \in DOMAIN level : \E x \in Nat : ~(Cell(level, s, k, i, x) <=> Cell(level, s, k, j, x))
    BY <2>1 DEF Same
  <2>3. PICK x \in Nat : ~(Cell(level, s, k, i, x) <=> Cell(level, s, k, j, x))
    BY <2>2
  <2>4. CASE Cell(level, s, k, i, x) /\ ~Cell(level, s, k, j, x)
    BY <1>14, <2>4
  <2>5. CASE Cell(level, s, k, j, x) /\ ~Cell(level, s, k, i, x)
    <3>1. PICK y, z \in Assignments : /\ Holds(levels, c, j, y) /\ Holds(levels, c, i, z) /\ Rest(c, y) = Rest(c, z)
                                      /\ ~(y \in F <=> z \in F)
      BY <1>14, <2>5
    <3> QED  BY <3>1
  <2> QED  BY <2>3, <2>4, <2>5
<1>17. \A i \in DOMAIN levels[c] : \A y, z \in Assignments :
         Holds(levels, c, i, y) /\ Holds(levels, c, i, z) /\ Rest(c, y) = Rest(c, z) => (y \in F <=> z \in F)
  BY <1>13
<1> QED  BY <1>12, <1>15, <1>16, <1>17 DEF Classed, levels

LEMMA AllClassed ==
  ASSUME NEW d, Sound(d), NodesLive(d.levels), Best(d)
  PROVE  \A t \in Internal : Classed(Fn(d), d.levels, t)
<1> DEFINE F == Fn(d)
           P == {t \in Internal : Classed(F, d.levels, t)}
<1>1. F \subseteq Assignments
  BY FnHolds DEF Assignments
<1>2. Root \in P
  BY RootClassed, RootIs DEF Best
<1> HIDE DEF F
<1>3. \A t \in Internal \ {Root} : Parent[t] \in P => t \in P
  <2> SUFFICES ASSUME NEW t \in Internal \ {Root}, Classed(F, d.levels, Parent[t]) PROVE Classed(F, d.levels, t)
    OBVIOUS
  <2> QED  BY <1>1, ChildClassed
<1>4. Internal \subseteq P
  <2> HIDE DEF P
  <2> QED  BY <1>2, <1>3, DownInduction
<1> QED  BY <1>4 DEF F

\* The recursion VarsBelow is defined by.
VarsBody(below) == [u \in Leaf \cup Internal |-> IF u \in Leaf THEN {u} ELSE below[Left[u]] \cup below[Right[u]]]
VarsOf == CHOOSE below : below = VarsBody(below)

LEMMA VarsAre == \A t \in Internal : VarsBelow(t) = Scope[t]
<1>1. Scope \in [Vtree -> SUBSET Leaf] /\ ScopesOf(Scope)
  BY ScopeIs
<1>2. Scope = VarsBody(Scope)
  <2>1. \A u \in Vtree : Scope[u] = IF u \in Leaf THEN {u} ELSE Scope[Left[u]] \cup Scope[Right[u]]
    BY <1>1 DEF ScopesOf, Vtree
  <2>2. Scope = [u \in Vtree |-> Scope[u]]
    BY <1>1
  <2>3. Scope = [u \in Vtree |-> IF u \in Leaf THEN {u} ELSE Scope[Left[u]] \cup Scope[Right[u]]]
    BY <2>1, <2>2
  <2> QED  BY <2>3 DEF VarsBody, Vtree
<1>3. VarsOf = VarsBody(VarsOf)
  <2> HIDE DEF VarsBody
  <2> QED  BY <1>2 DEF VarsOf
<1> DEFINE P == {u \in Vtree : VarsOf[u] = Scope[u]}
<1>4. Leaf \subseteq P
  <2> SUFFICES ASSUME NEW u \in Leaf PROVE VarsOf[u] = Scope[u]
    BY DEF Vtree
  <2>1. VarsBody(VarsOf)[u] = {u}
    BY DEF VarsBody
  <2> QED  BY <1>1, <1>3, <2>1 DEF ScopesOf
<1>5. \A u \in Internal : Left[u] \in P /\ Right[u] \in P => u \in P
  <2> SUFFICES ASSUME NEW u \in Internal, VarsOf[Left[u]] = Scope[Left[u]], VarsOf[Right[u]] = Scope[Right[u]]
               PROVE  VarsOf[u] = Scope[u]
    BY DEF Vtree
  <2>1. u \notin Leaf
    BY InternalIs
  <2>2. VarsBody(VarsOf)[u] = VarsOf[Left[u]] \cup VarsOf[Right[u]]
    BY <2>1 DEF VarsBody
  <2> QED  BY <1>1, <1>3, <2>2 DEF ScopesOf
<1>6. Vtree \subseteq P
  <2> HIDE DEF P
  <2> QED  BY <1>4, <1>5, UpInduction
<1>7. \A t : VarsBelow(t) = VarsOf[t]
  BY DEF VarsBelow, VarsOf, VarsBody
<1> QED  BY <1>6, <1>7 DEF Vtree

\* The assignments outside that complete one below to a model.
Completions(F, S, a) == {m \ S : m \in {n \in F : n \cap S = a}}

LEMMA ResidualsAre ==
  ASSUME NEW F, NEW t \in Internal
  PROVE  Residuals(F, t) = {Completions(F, Scope[t], a) : a \in {m \cap Scope[t] : m \in F}}
<1> DEFINE S == Scope[t]
           parts == {<<m \cap S, m \ S>> : m \in F}
<1>1. Residuals(F, t) = {{q[2] : q \in {p \in parts : p[1] = a}} : a \in {p[1] : p \in parts}}
  BY VarsAre DEF Residuals
<1> HIDE DEF S
<1>2. /\ \A m \in F : <<m \cap S, m \ S>> \in parts
      /\ \A p \in parts : \E m \in F : p[1] = m \cap S /\ p[2] = m \ S
  OBVIOUS
<1> DEFINE half(m) == <<m \cap S, m \ S>>
<1> HIDE DEF parts
<1>3. \A m : half(m)[1] = m \cap S /\ half(m)[2] = m \ S
  OBVIOUS
<1>4. \A m \in F : half(m) \in parts
  BY <1>2
<1> HIDE DEF half
<1>5. {p[1] : p \in parts} = {m \cap S : m \in F}
  <2>1. \A p \in parts : p[1] \in {m \cap S : m \in F}
    BY <1>2
  <2>2. \A m \in F : m \cap S \in {p[1] : p \in parts}
    BY <1>3, <1>4
  <2> QED  BY <2>1, <2>2
<1>6. ASSUME NEW a PROVE {q[2] : q \in {p \in parts : p[1] = a}} = Completions(F, S, a)
  <2>1. ASSUME NEW q \in parts, q[1] = a PROVE q[2] \in Completions(F, S, a)
    <3>1. PICK m \in F : q[1] = m \cap S /\ q[2] = m \ S
      BY <1>2
    <3> QED  BY <2>1, <3>1 DEF Completions
  <2>2. ASSUME NEW m \in F, m \cap S = a PROVE m \ S \in {q[2] : q \in {p \in parts : p[1] = a}}
    BY <1>3, <1>4, <2>2
  <2>3. {q[2] : q \in {p \in parts : p[1] = a}} \subseteq Completions(F, S, a)
    BY <2>1
  <2>4. Completions(F, S, a) \subseteq {q[2] : q \in {p \in parts : p[1] = a}}
    BY <2>2 DEF Completions
  <2> QED  BY <2>3, <2>4
<1> DEFINE inner(a) == {q[2] : q \in {p \in parts : p[1] = a}}
           firsts == {p[1] : p \in parts}
<1>7. Residuals(F, t) = {inner(a) : a \in firsts}
  BY <1>1
<1>8. \A a : inner(a) = Completions(F, S, a)
  BY <1>6
<1>9. firsts = {m \cap S : m \in F}
  BY <1>5
<1> HIDE DEF inner, firsts
<1>10. {inner(a) : a \in firsts} = {Completions(F, S, a) : a \in firsts}
  BY <1>8
<1>11. Residuals(F, t) = {Completions(F, S, a) : a \in {m \cap S : m \in F}}
  BY <1>7, <1>9, <1>10
<1> QED  BY <1>11 DEF S

\* The same of a node.
NodeClass(F, levels, t, i) == {Rest(t, m) : m \in {n \in F : Holds(levels, t, i, n)}}

\* Classes and nodes are as many.
LEMMA AsManyClasses ==
  ASSUME NEW levels, InRange(levels), NEW F, F \subseteq Assignments, NEW t \in Internal, Classed(F, levels, t)
  PROVE  Len(levels[t]) = Cardinality(Residuals(F, t))
<1> DEFINE S == Scope[t]
           D == DOMAIN levels[t]
           classes == {Completions(F, S, a) : a \in {m \cap S : m \in F}}
           f == [i \in D |-> NodeClass(F, levels, t, i)]
<1>1. /\ \A z \in F : \E i \in D : Holds(levels, t, i, z)
      /\ \A i \in D : \E z \in F : Holds(levels, t, i, z)
      /\ \A i \in D : \A y, z \in Assignments :
           Holds(levels, t, i, y) /\ Holds(levels, t, i, z) /\ Rest(t, y) = Rest(t, z) => (y \in F <=> z \in F)
      /\ \A i, j \in D : i # j =>
           \E y, z \in Assignments : /\ Holds(levels, t, i, y) /\ Holds(levels, t, j, z) /\ Rest(t, y) = Rest(t, z)
                                     /\ ~(y \in F <=> z \in F)
  BY DEF Classed
<1> HIDE DEF D
\* The class of a node is that of each of its assignments.
<1>2. ASSUME NEW i \in D, NEW a, a \in F, Holds(levels, t, i, a)
      PROVE  NodeClass(F, levels, t, i) = Completions(F, S, a \cap S)
  <2>1. ASSUME NEW m \in F, Holds(levels, t, i, m)
        PROVE  Rest(t, m) \in Completions(F, S, a \cap S)
    <3> DEFINE n == (a \cap S) \cup (m \ S)
    <3>1. n \in Assignments /\ n \cap S = a \cap S /\ n \ S = m \ S
      BY <1>2 DEF Assignments
    <3> HIDE DEF n
    <3>2. Holds(levels, t, i, n) /\ Rest(t, n) = Rest(t, m)
      BY <1>2, <3>1 DEF Holds, Rest
    <3>3. n \in F
      BY <1>1, <2>1, <3>1, <3>2
    <3> QED  BY <3>1, <3>3 DEF Completions, Rest
  <2>2. ASSUME NEW m \in F, m \cap S = a \cap S PROVE m \ S \in NodeClass(F, levels, t, i)
    <3>1. Holds(levels, t, i, m)
      BY <1>2, <2>2 DEF Holds
    <3> QED  BY <3>1 DEF NodeClass, Rest
  <2>3. NodeClass(F, levels, t, i) \subseteq Completions(F, S, a \cap S)
    BY <2>1 DEF NodeClass
  <2>4. Completions(F, S, a \cap S) \subseteq NodeClass(F, levels, t, i)
    BY <2>2 DEF Completions
  <2> QED  BY <2>3, <2>4
<1>3. \A i \in D : f[i] \in classes
  <2> SUFFICES ASSUME NEW i \in D PROVE NodeClass(F, levels, t, i) \in classes
    OBVIOUS
  <2>1. PICK a \in F : Holds(levels, t, i, a)
    BY <1>1
  <2> QED  BY <1>2, <2>1
<1>4. \A r \in classes : \E i \in D : f[i] = r
  <2> SUFFICES ASSUME NEW m \in F PROVE \E i \in D : f[i] = Completions(F, S, m \cap S)
    OBVIOUS
  <2>1. PICK i \in D : Holds(levels, t, i, m)
    BY <1>1
  <2> QED  BY <1>2, <2>1
<1>5. ASSUME NEW i \in D, NEW j \in D, NEW y \in F, NEW z \in Assignments,
             Holds(levels, t, i, y), Holds(levels, t, j, z), Rest(t, y) = Rest(t, z), z \notin F
      PROVE  NodeClass(F, levels, t, i) # NodeClass(F, levels, t, j)
  <2>1. Rest(t, y) \in NodeClass(F, levels, t, i)
    BY <1>5 DEF NodeClass
  <2>2. ASSUME Rest(t, y) \in NodeClass(F, levels, t, j) PROVE FALSE
    <3>1. PICK m \in F : Holds(levels, t, j, m) /\ Rest(t, m) = Rest(t, y)
      BY <2>2 DEF NodeClass
    <3> QED  BY <1>1, <1>5, <3>1
  <2> QED  BY <2>1, <2>2
<1>6. \A i, j \in D : f[i] = f[j] => i = j
  <2> SUFFICES ASSUME NEW i \in D, NEW j \in D, i # j PROVE NodeClass(F, levels, t, i) # NodeClass(F, levels, t, j)
    OBVIOUS
  <2>1. PICK y, z \in Assignments : /\ Holds(levels, t, i, y) /\ Holds(levels, t, j, z) /\ Rest(t, y) = Rest(t, z)
                                    /\ ~(y \in F <=> z \in F)
    BY <1>1
  <2>2. CASE y \in F
    BY <1>5, <2>1, <2>2
  <2>3. CASE z \in F
    BY <1>5, <2>1, <2>3
  <2> QED  BY <2>1, <2>2, <2>3
<1>7. f = [i \in D |-> f[i]]
  OBVIOUS
<1> HIDE DEF f, classes
<1>8. f \in Bijection(D, classes)
  BY <1>3, <1>4, <1>6, <1>7 DEF Bijection, Injection, Surjection, IsInjective
<1>9. ExistsBijection(D, classes)
  BY <1>8 DEF ExistsBijection
<1>10. IsFiniteSet(D) /\ Cardinality(D) = Len(levels[t])
  BY LevelIs, UpToFinite DEF D
<1>11. Cardinality(classes) = Len(levels[t])
  BY <1>9, <1>10, FS_Bijection
<1>12. Residuals(F, t) = classes
  BY ResidualsAre DEF classes
<1> QED  BY <1>11, <1>12

-------------------------------------------------------------------------------
(* Disjunction and difference (apply/overlay): the parts of a level. *)
\* Every node of f with every node of g or none, and every node of g alone, is
\* one part.
Numbers(F, G, M) ==
  /\ M \in Nat
  /\ \A m \in 1 .. M : /\ PartAt(F, G, m) = <<PartAt(F, G, m)[1], PartAt(F, G, m)[2]>>
                       /\ PartAt(F, G, m)[1] \in {0} \cup DOMAIN F
                       /\ PartAt(F, G, m)[2] \in {0} \cup DOMAIN G
                       /\ PartAt(F, G, m)[1] = 0 => PartAt(F, G, m)[2] \in DOMAIN G
  /\ \A m, n \in 1 .. M : PartAt(F, G, m) = PartAt(F, G, n) => m = n
  /\ \A a \in DOMAIN F, b \in {0} \cup DOMAIN G : \E m \in 1 .. M : PartAt(F, G, m) = <<a, b>>
  /\ \A b \in DOMAIN G : \E m \in 1 .. M : PartAt(F, G, m) = <<0, b>>

\* The parts of a level are numbered once each.
LEMMA PartsAre ==
  ASSUME NEW F, Numbered(F), NEW G, Numbered(G), NEW M, M = Len(F) * (Len(G) + 1) + Len(G)
  PROVE  Numbers(F, G, M)
<1> DEFINE k == Len(F)
           n == Len(G)
           w == n + 1
           N == k * w
           at(m) == PartAt(F, G, m)
<1>1. k \in Nat /\ n \in Nat /\ w \in Nat /\ w # 0 /\ DOMAIN F = 1 .. k /\ DOMAIN G = 1 .. n
  BY DEF Numbered
<1>2. \A m : at(m) = IF m <= N THEN <<((m - 1) \div w) + 1, m % w>> ELSE <<0, m - N>>
  BY DEF PartAt, Absent
<1>3. M = N + n
  OBVIOUS
<1> HIDE DEF k, n, at
<1>4. N \in Nat
  BY <1>1
<1>5. w = n + 1
  OBVIOUS
<1>6. \A a \in 1 .. k, b \in 0 .. n : w * (a - 1) + b <= N /\ w * (a - 1) + b \in Nat
  <2>1. ASSUME NEW a \in 1 .. k, NEW b \in 0 .. n PROVE w * (a - 1) + b <= N /\ w * (a - 1) + b \in Nat
    <3>1. PICK e \in Nat : k = (a - 1) + 1 + e
      <4>1. k - a \in Nat
        BY <1>1
      <4> QED  BY <4>1, <1>1
    <3>2. a - 1 \in Nat
      BY <1>1
    <3> DEFINE c == a - 1
    <3>3. N = w * c + w + w * e
      BY <3>1, <3>2, <1>1
    <3>4. w * c \in Nat /\ w * e \in Nat
      BY <3>2, <1>1
    <3> HIDE DEF c, N
    <3> QED  BY <3>3, <3>4, <1>1, <1>5 DEF c
  <2> QED  BY <2>1
<1> HIDE DEF N
<1>7. ASSUME NEW m \in 1 .. N
      PROVE  /\ at(m) = <<at(m)[1], at(m)[2]>> /\ at(m)[1] \in 1 .. k /\ at(m)[2] \in 0 .. n
             /\ m = w * (at(m)[1] - 1) + (IF at(m)[2] = 0 THEN w ELSE at(m)[2])
  <2> DEFINE q == (m - 1) \div w
             r == (m - 1) % w
  <2>1. m - 1 \in Nat /\ m \in Nat
    BY <1>4
  <2>2. q \in Nat /\ r \in 0 .. (w - 1) /\ m - 1 = w * q + r
    BY <2>1, <1>1, DivMod
  <2> HIDE DEF q, r
  <2>3. at(m) = <<q + 1, m % w>>
    BY <1>2, <1>4 DEF q
  <2>4. q < k
    <3>1. SUFFICES ASSUME q >= k PROVE FALSE
      BY <1>1, <2>2
    <3>2. PICK e \in Nat : q = k + e
      <4>1. q - k \in Nat
        BY <3>1, <1>1, <2>2
      <4> QED  BY <4>1, <1>1, <2>2
    <3>3. w * q = w * k + w * e /\ w * e \in Nat /\ w * k = N
      BY <3>2, <1>1 DEF N
    <3> QED  BY <3>3, <2>2, <1>4, <1>1
  <2>5. m % w = IF r = w - 1 THEN 0 ELSE r + 1
    <3>1. m \div w \in Nat /\ m % w \in 0 .. (w - 1) /\ m = w * (m \div w) + (m % w)
      BY <2>1, <1>1, DivMod
    <3> DEFINE x == m \div w
               e == m % w
    <3>2. x \in Nat /\ e \in 0 .. (w - 1) /\ m = w * x + e
      BY <3>1
    <3> HIDE DEF x, e
    <3>3. CASE r = w - 1
      <4>1. m = w * (q + 1) + 0
        BY <3>3, <2>2, <2>1, <1>1
      <4>2. q + 1 \in Nat /\ 0 \in 0 .. (w - 1)
        BY <2>2, <1>1
      <4> HIDE DEF w
      <4>3. w * x + e = w * (q + 1) + 0
        BY <3>2, <4>1
      <4>4. e = 0
        BY <3>2, <4>2, <4>3, <1>1, DivModOf
      <4> QED  BY <3>3, <4>4 DEF e
    <3>4. CASE r # w - 1
      <4>1. m = w * q + (r + 1) /\ r + 1 \in 0 .. (w - 1)
        BY <3>4, <2>2, <2>1, <1>1
      <4> HIDE DEF w
      <4>2. w * x + e = w * q + (r + 1)
        BY <3>2, <4>1
      <4>3. e = r + 1
        BY <3>2, <4>1, <4>2, <2>2, <1>1, DivModOf
      <4> QED  BY <3>4, <4>3 DEF e
    <3> QED  BY <3>3, <3>4
  <2>6. at(m)[1] = q + 1 /\ at(m)[2] = m % w /\ at(m) = <<at(m)[1], at(m)[2]>>
    BY <2>3
  <2>7. m % w \in 0 .. n /\ q + 1 \in 1 .. k /\ (q + 1) - 1 = q
    BY <2>2, <2>4, <2>5, <1>1
  <2>8. m = w * q + (IF m % w = 0 THEN w ELSE m % w)
    <3>1. w * q \in Nat
      BY <2>2, <1>1
    <3> HIDE DEF w
    <3>2. CASE r = w - 1
      BY <2>1, <2>2, <2>5, <3>1, <3>2, <1>1
    <3>3. CASE r # w - 1
      <4>1. m % w = r + 1 /\ r + 1 # 0
        BY <2>2, <2>5, <3>3
      <4> QED  BY <2>1, <2>2, <3>1, <4>1, <1>1
    <3> QED  BY <3>2, <3>3
  <2> QED  BY <2>6, <2>7, <2>8
<1>8. ASSUME NEW m \in 1 .. M, ~(m <= N)
      PROVE  at(m) = <<0, m - N>> /\ at(m)[1] = 0 /\ at(m)[2] = m - N /\ m - N \in 1 .. n /\ m \in Nat
  BY <1>1, <1>2, <1>3, <1>4, <1>8
<1>9. \A m \in 1 .. M : m <= N => m \in 1 .. N
  BY <1>1, <1>3, <1>4
<1>10. M \in Nat
  BY <1>1, <1>3, <1>4
<1>11. \A m \in 1 .. M : /\ at(m) = <<at(m)[1], at(m)[2]>>
                         /\ at(m)[1] \in {0} \cup 1 .. k /\ at(m)[2] \in {0} \cup 1 .. n
                         /\ at(m)[1] = 0 => at(m)[2] \in 1 .. n
  <2>1. ASSUME NEW m \in 1 .. M
        PROVE  /\ at(m) = <<at(m)[1], at(m)[2]>>
               /\ at(m)[1] \in {0} \cup 1 .. k /\ at(m)[2] \in {0} \cup 1 .. n
               /\ at(m)[1] = 0 => at(m)[2] \in 1 .. n
    <3>1. CASE m <= N
      <4>1. at(m) = <<at(m)[1], at(m)[2]>> /\ at(m)[1] \in 1 .. k /\ at(m)[2] \in 0 .. n
        BY <3>1, <1>7, <1>9
      <4> QED  BY <4>1, <1>1
    <3>2. CASE ~(m <= N)
      BY <3>2, <1>8
    <3> QED  BY <3>1, <3>2
  <2> QED  BY <2>1
<1>12. ASSUME NEW i \in 1 .. M, NEW j \in 1 .. M, at(i) = at(j) PROVE i = j
  <2>1. CASE i <= N
    <3>1. at(i)[1] # 0
      BY <2>1, <1>1, <1>7, <1>9
    <3>2. j <= N
      BY <3>1, <1>8, <1>12
    <3> QED  BY <2>1, <3>2, <1>7, <1>9, <1>12
  <2>2. CASE ~(i <= N)
    <3>1. at(i)[1] = 0
      BY <2>2, <1>8
    <3>2. ~(j <= N)
      BY <3>1, <1>1, <1>7, <1>9, <1>12
    <3>3. i - N = j - N /\ i \in Nat /\ j \in Nat
      BY <2>2, <3>2, <1>8, <1>12
    <3> QED  BY <3>3, <1>4
  <2> QED  BY <2>1, <2>2
<1>13. ASSUME NEW a \in 1 .. k, NEW b \in {0} \cup 1 .. n PROVE \E m \in 1 .. M : at(m) = <<a, b>>
  <2> DEFINE y == IF b = 0 THEN n ELSE b - 1
             m == w * (a - 1) + y + 1
  <2>0. y \in 0 .. n
    BY <1>1
  <2>1. w * (a - 1) \in Nat /\ a - 1 \in Nat
    BY <1>1
  <2>2. w * (a - 1) + y + 1 <= N
    <3>1. CASE b = 0
      <4>1. PICK e \in Nat : k = (a - 1) + 1 + e
        <5>1. k - a \in Nat
          BY <1>1
        <5> QED  BY <5>1, <1>1
      <4> DEFINE c == a - 1
      <4>2. N = w * c + w + w * e /\ w * e \in Nat
        BY <4>1, <2>1, <1>1 DEF N
      <4> HIDE DEF c
      <4>3. w * c \in Nat
        BY <2>1 DEF c
      <4> QED  BY <3>1, <4>2, <4>3, <1>1 DEF c
    <3>2. CASE b # 0
      <4>1. w * (a - 1) + b <= N
        <5>1. b \in 0 .. n
          BY <1>1
        <5> QED  BY <5>1, <1>6
      <4> HIDE DEF w
      <4> QED  BY <3>2, <4>1, <2>1, <1>1
    <3> QED  BY <3>1, <3>2
  <2>3. m \in 1 .. N
    <3> HIDE DEF w, y
    <3> QED  BY <2>0, <2>1, <2>2, <1>4
  <2>4. m \in 1 .. M
    BY <2>3, <1>1, <1>3, <1>4
  <2>5. /\ at(m) = <<at(m)[1], at(m)[2]>> /\ at(m)[1] \in 1 .. k /\ at(m)[2] \in 0 .. n
        /\ m = w * (at(m)[1] - 1) + (IF at(m)[2] = 0 THEN w ELSE at(m)[2])
    BY <2>3, <1>7
  <2>6. m = w * (a - 1) + y + 1
    OBVIOUS
  <2> DEFINE x == at(m)[1]
             e == at(m)[2]
             u == x - 1
             v == (IF e = 0 THEN w ELSE e) - 1
  <2>7. x \in 1 .. k /\ e \in 0 .. n /\ m = w * (x - 1) + (IF e = 0 THEN w ELSE e)
    BY <2>5
  <2> HIDE DEF x, e, m
  <2>8. u \in Nat /\ v \in 0 .. (w - 1) /\ m = w * u + (v + 1)
    <3>1. u \in Nat /\ v \in 0 .. (w - 1) /\ (IF e = 0 THEN w ELSE e) = v + 1
      BY <2>7, <1>1
    <3> QED  BY <2>7, <3>1
  <2>9. w * (a - 1) + y = w * u + v
    <3>1. w * u \in Nat
      BY <2>8, <1>1
    <3> HIDE DEF w, y, u, v
    <3> QED  BY <2>0, <2>1, <2>6, <2>8, <3>1, <1>1
  <2>10. a - 1 = u /\ y = v
    <3>1. y \in 0 .. (w - 1)
      BY <2>0, <1>1
    <3> HIDE DEF w, u, v, y
    <3> QED  BY <2>1, <2>8, <2>9, <3>1, <1>1, DivModOf
  <2>11. x = a
    BY <2>7, <2>10, <1>1
  <2>12. e = b
    <3>1. y = (IF e = 0 THEN w ELSE e) - 1
      BY <2>10
    <3>2. b \in Nat /\ b <= n
      BY <1>1
    <3>3. CASE b = 0
      BY <2>7, <3>1, <3>2, <3>3, <1>1
    <3>4. CASE b # 0
      BY <2>7, <3>1, <3>2, <3>4, <1>1
    <3> QED  BY <3>3, <3>4
  <2> QED  BY <2>4, <2>5, <2>11, <2>12 DEF x, e
<1>14. ASSUME NEW b \in 1 .. n PROVE \E m \in 1 .. M : at(m) = <<0, b>>
  <2>1. N + b \in 1 .. M /\ ~(N + b <= N) /\ (N + b) - N = b
    BY <1>1, <1>3, <1>4
  <2> QED  BY <2>1, <1>8
<1>15. \A m, j \in 1 .. M : at(m) = at(j) => m = j
  BY <1>12
<1> QED  BY <1>1, <1>10, <1>11, <1>13, <1>14, <1>15 DEF at, Numbers

\* The cells an operand's node splits into are of the children's pieces.
LEMMA PartCellsIn ==
  ASSUME NEW op, NEW F, NEW G, NEW left, NEW right, NEW part
  PROVE  PartCells(op, F, G, left, right, part) \subseteq (DOMAIN left) \X (DOMAIN right)
BY DEF PartCells, Residue, Cells

\* The level two levels split into: its nodes are the parts that have cells.
Overlaid(op, F, G, left, right, parts, level) ==
  LET of(x) == PartCells(op, F, G, left, right, x)
  IN  /\ IsSequence(level) /\ DOMAIN parts = DOMAIN level /\ IsSequence(parts)
      /\ \A k \in DOMAIN parts : /\ parts[k] = <<parts[k][1], parts[k][2]>>
                                 /\ parts[k][1] \in {0} \cup DOMAIN F /\ parts[k][2] \in {0} \cup DOMAIN G
                                 /\ parts[k][1] = 0 => parts[k][2] \in DOMAIN G
                                 /\ level[k] = of(parts[k]) /\ of(parts[k]) # {}
      /\ \A j, k \in DOMAIN parts : parts[j] = parts[k] => j = k
      /\ \A a \in DOMAIN F, b \in {0} \cup DOMAIN G : of(<<a, b>>) # {} => \E k \in DOMAIN parts : parts[k] = <<a, b>>
      /\ \A b \in DOMAIN G : of(<<0, b>>) # {} => \E k \in DOMAIN parts : parts[k] = <<0, b>>

\* A level keeps just the parts that have cells, in their order.
LEMMA OverlaidIs ==
  ASSUME NEW op, NEW F, Numbered(F), NEW G, Numbered(G), NEW left, NEW right,
         NEW made, made = OverlayLevel(op, F, G, left, right)
  PROVE  Overlaid(op, F, G, left, right, made.parts, made.level)
<1> DEFINE M == Len(F) * (Len(G) + 1) + Len(G)
           at(m) == PartAt(F, G, m)
           of(x) == PartCells(op, F, G, left, right, x)
           cells == [m \in 1 .. M |-> of(at(m))]
           keep == {m \in DOMAIN cells : cells[m] # {}}
           order == Ascending(keep)
           K == Cardinality(keep)
           parts == [k \in DOMAIN order |-> at(order[k])]
           level == [k \in DOMAIN order |-> cells[order[k]]]
<1>1. /\ M \in Nat
      /\ \A m \in 1 .. M : /\ at(m) = <<at(m)[1], at(m)[2]>>
                           /\ at(m)[1] \in {0} \cup DOMAIN F /\ at(m)[2] \in {0} \cup DOMAIN G
                           /\ at(m)[1] = 0 => at(m)[2] \in DOMAIN G
      /\ \A m, n \in 1 .. M : at(m) = at(n) => m = n
      /\ \A a \in DOMAIN F, b \in {0} \cup DOMAIN G : \E m \in 1 .. M : at(m) = <<a, b>>
      /\ \A b \in DOMAIN G : \E m \in 1 .. M : at(m) = <<0, b>>
  <2>1. Numbers(F, G, M)
    BY PartsAre
  <2> HIDE DEF M
  <2> QED  BY <2>1 DEF Numbers
<1>2. made.parts = parts /\ made.level = level
  <2>1. Table(cells) = cells
    BY TableIs
  <2> DEFINE ordered(x) == Ascending({m \in DOMAIN x : x[m] # {}})
             from(x) == [parts |-> [k \in DOMAIN ordered(x) |-> at(ordered(x)[k])],
                         level |-> [k \in DOMAIN ordered(x) |-> x[ordered(x)[k]]]]
  <2>2. made = from(Table(cells))
    BY DEF OverlayLevel
  <2>3. from(cells) = [parts |-> parts, level |-> level]
    OBVIOUS
  <2> HIDE DEF parts, level, from, cells
  <2>4. made = [parts |-> parts, level |-> level]
    BY <2>1, <2>2, <2>3
  <2> QED  BY <2>4
<1> HIDE DEF at, M, of
<1>3. DOMAIN cells = 1 .. M /\ \A m \in 1 .. M : cells[m] = of(at(m))
  OBVIOUS
<1> HIDE DEF cells
<1>4. keep \subseteq 1 .. M /\ keep \subseteq Nat /\ IsFiniteSet(keep) /\ \A m \in 1 .. M : m \in keep <=> cells[m] # {}
  <2>1. keep \subseteq 1 .. M /\ \A m \in 1 .. M : m \in keep <=> cells[m] # {}
    BY <1>3
  <2> HIDE DEF keep
  <2>2. IsFiniteSet(1 .. M) /\ 1 .. M \subseteq Nat
    BY <1>1, UpToFinite
  <2> QED  BY <2>1, <2>2, FS_Subset
<1> HIDE DEF keep
<1>5. /\ K \in Nat /\ DOMAIN order = 1 .. K /\ \A k \in 1 .. K : order[k] \in keep
      /\ \A m \in keep : \E k \in 1 .. K : order[k] = m
      /\ \A i, j \in 1 .. K : order[i] = order[j] => i = j
  <2>1. /\ order \in [1 .. K -> keep] /\ K \in Nat
        /\ \A k \in 1 .. K : Rank(keep, order[k]) = k
        /\ \A m \in keep : Rank(keep, m) \in 1 .. K /\ order[Rank(keep, m)] = m
    BY <1>4, AscendingIs
  <2> HIDE DEF order
  <2>2. \A i, j \in 1 .. K : order[i] = order[j] => i = j
    BY <2>1
  <2> QED  BY <2>1, <2>2
<1> HIDE DEF order, K
<1>6. DOMAIN parts = 1 .. K /\ DOMAIN level = 1 .. K /\ IsSequence(level) /\ IsSequence(parts)
  BY <1>5 DEF IsSequence
<1>7. \A k \in 1 .. K : parts[k] = at(order[k]) /\ level[k] = of(parts[k]) /\ of(parts[k]) # {} /\ order[k] \in 1 .. M
  <2>1. ASSUME NEW k \in 1 .. K
        PROVE  parts[k] = at(order[k]) /\ level[k] = of(parts[k]) /\ of(parts[k]) # {} /\ order[k] \in 1 .. M
    <3>1. order[k] \in keep /\ order[k] \in 1 .. M
      BY <1>4, <1>5
    <3>2. parts[k] = at(order[k]) /\ level[k] = cells[order[k]]
      BY <1>5
    <3> QED  BY <1>3, <1>4, <3>1, <3>2
  <2> QED  BY <2>1
<1> HIDE DEF parts, level
<1>8. \A k \in 1 .. K : /\ parts[k] = <<parts[k][1], parts[k][2]>>
                        /\ parts[k][1] \in {0} \cup DOMAIN F /\ parts[k][2] \in {0} \cup DOMAIN G
                        /\ parts[k][1] = 0 => parts[k][2] \in DOMAIN G
  BY <1>1, <1>7
<1>9. \A i, j \in 1 .. K : parts[i] = parts[j] => i = j
  BY <1>1, <1>5, <1>7
<1>10. ASSUME NEW m \in 1 .. M, of(at(m)) # {} PROVE \E k \in 1 .. K : parts[k] = at(m)
  BY <1>3, <1>4, <1>5, <1>7, <1>10
<1>11. ASSUME NEW a \in DOMAIN F, NEW b \in {0} \cup DOMAIN G, of(<<a, b>>) # {}
       PROVE  \E k \in 1 .. K : parts[k] = <<a, b>>
  <2>1. PICK m \in 1 .. M : at(m) = <<a, b>>
    BY <1>1
  <2> QED  BY <1>10, <1>11, <2>1
<1>12. ASSUME NEW b \in DOMAIN G, of(<<0, b>>) # {} PROVE \E k \in 1 .. K : parts[k] = <<0, b>>
  <2>1. PICK m \in 1 .. M : at(m) = <<0, b>>
    BY <1>1
  <2> QED  BY <1>10, <1>12, <2>1
<1>13. Overlaid(op, F, G, left, right, parts, level)
  <2>1. \A k \in DOMAIN parts : /\ parts[k] = <<parts[k][1], parts[k][2]>>
                                /\ parts[k][1] \in {0} \cup DOMAIN F /\ parts[k][2] \in {0} \cup DOMAIN G
                                /\ parts[k][1] = 0 => parts[k][2] \in DOMAIN G
                                /\ level[k] = of(parts[k]) /\ of(parts[k]) # {}
    BY <1>6, <1>7, <1>8
  <2> QED  BY <1>6, <1>9, <1>11, <1>12, <2>1 DEF Overlaid, of
<1> QED  BY <1>2, <1>13

\* The recursion's values.
PartTables == UNION {[X -> Nat \X Nat] : X \in SUBSET Nat}
OverlayValues == [parts : PartTables, level : LevelValues]

\* A level split from such values is one.
LEMMA OverlayValue ==
  ASSUME NEW op, NEW f, InRange(f.levels), NEW g, InRange(g.levels), NEW t \in Internal,
         NEW x \in OverlayValues, NEW y \in OverlayValues
  PROVE  OverlayLevel(op, f.levels[t], g.levels[t], x.parts, y.parts) \in OverlayValues
<1> DEFINE F == f.levels[t]
           G == g.levels[t]
           left == x.parts
           right == y.parts
           made == OverlayLevel(op, F, G, left, right)
           parts == made.parts
           level == made.level
<1>1. Numbered(F) /\ Numbered(G) /\ DOMAIN F \subseteq Nat /\ DOMAIN G \subseteq Nat
  BY LevelIs DEF Numbered
<1>2. DOMAIN left \subseteq Nat /\ DOMAIN right \subseteq Nat
  BY DEF OverlayValues, PartTables
<1> HIDE DEF F, G, left, right
<1>3. /\ IsSequence(level) /\ DOMAIN parts = DOMAIN level /\ IsSequence(parts)
      /\ \A k \in DOMAIN parts : /\ parts[k] = <<parts[k][1], parts[k][2]>>
                                 /\ parts[k][1] \in {0} \cup DOMAIN F /\ parts[k][2] \in {0} \cup DOMAIN G
                                 /\ level[k] = PartCells(op, F, G, left, right, parts[k])
  <2>1. Overlaid(op, F, G, left, right, parts, level)
    BY <1>1, OverlaidIs
  <2> HIDE DEF made, parts, level
  <2> QED  BY <2>1 DEF Overlaid
<1>4. made = [parts |-> parts, level |-> level]
  BY DEF OverlayLevel
<1> HIDE DEF made
<1>5. PICK n \in Nat : DOMAIN level = 1 .. n /\ level = [k \in 1 .. n |-> level[k]]
  BY <1>3 DEF IsSequence
<1>6. \A k \in 1 .. n : level[k] \subseteq Nat \X Nat
  <2>1. ASSUME NEW k \in 1 .. n PROVE level[k] \subseteq Nat \X Nat
    <3>1. level[k] \subseteq (DOMAIN left) \X (DOMAIN right)
      BY <1>3, <1>5, PartCellsIn
    <3> QED  BY <3>1, <1>2
  <2> QED  BY <2>1
<1>7. level \in LevelValues
  <2>1. level \in [1 .. n -> SUBSET (Nat \X Nat)]
    BY <1>5, <1>6
  <2> QED  BY <2>1 DEF LevelValues
<1>8. parts \in [1 .. n -> Nat \X Nat]
  <2>1. \A k \in 1 .. n : parts[k] \in Nat \X Nat
    <3>1. ASSUME NEW k \in 1 .. n PROVE parts[k] \in Nat \X Nat
      <4>1. parts[k] = <<parts[k][1], parts[k][2]>> /\ parts[k][1] \in Nat /\ parts[k][2] \in Nat
        BY <1>1, <1>3, <1>5
      <4> QED  BY <4>1
    <3> QED  BY <3>1
  <2>2. parts = [k \in 1 .. n |-> parts[k]]
    BY <1>3, <1>5 DEF IsSequence
  <2> QED  BY <2>1, <2>2
<1>9. parts \in PartTables
  <2>1. 1 .. n \in SUBSET Nat
    OBVIOUS
  <2> QED  BY <1>8, <2>1 DEF PartTables
<1> HIDE DEF parts, level
<1>10. made \in OverlayValues
  BY <1>4, <1>7, <1>9 DEF OverlayValues
<1> QED  BY <1>10 DEF made, F, G, left, right

\* The overlay's levels, each split over its children's pieces.
Overlays(op, f, g, over) ==
  /\ \A t \in Leaf : over[t].parts = LeafParts(f, g, t)
  /\ \A t \in Internal : over[t] = OverlayLevel(op, f.levels[t], g.levels[t],
                                                over[Left[t]].parts, over[Right[t]].parts)

\* The overlay's recursion is what it is defined by, at every node.
LEMMA OverlayBelowIs ==
  ASSUME NEW op, NEW f, InRange(f.levels), NEW g, InRange(g.levels)
  PROVE  Overlays(op, f, g, OverlayBelow(op, f, g))
<1> DEFINE V == OverlayValues
           leaf(t) == [parts |-> LeafParts(f, g, t), level |-> <<>>]
           At1(t, x, y) == OverlayLevel(op, f.levels[t], g.levels[t], x.parts, y.parts)
           base == [t \in Leaf |-> leaf(t)]
           step == [x \in Internal \X V \X V |-> At1(x[1], x[2], x[3])]
           body(over) == [t \in Leaf \cup Internal |->
                            IF t \in Leaf THEN leaf(t) ELSE At1(t, over[Left[t]], over[Right[t]])]
<1>1. \A t \in Leaf : leaf(t) \in V
  <2>1. ASSUME NEW t \in Leaf PROVE leaf(t) \in V
    <3>1. LeafParts(f, g, t) \in [{One} -> Nat \X Nat] \cup [{Pos, Neg} -> Nat \X Nat]
      BY DEF LeafParts, One, Pos, Neg
    <3>2. {One} \in SUBSET Nat /\ {Pos, Neg} \in SUBSET Nat
      BY DEF One, Pos, Neg
    <3>3. LeafParts(f, g, t) \in PartTables
      BY <3>1, <3>2 DEF PartTables
    <3>4. <<>> \in LevelValues
      BY DEF LevelValues
    <3> QED  BY <3>3, <3>4 DEF OverlayValues
  <2> QED  BY <2>1
<1>2. V # {} /\ base \in [Leaf -> V]
  <2>1. \E t : t \in Leaf
    <3>1. SUFFICES ASSUME Leaf = {} PROVE FALSE
      OBVIOUS
    <3>2. Scope[Root] = {}
      BY <3>1, RootScope
    <3>3. \A t \in Internal : Left[t] \in Internal /\ Left[t] < t /\ t \in Nat
      BY <3>1, InternalIs DEF Vtree
    <3>4. Internal \subseteq Nat /\ Internal # {}
      BY <3>3, RootIs
    <3>5. PICK t \in Internal : \A u \in Internal : t <= u
      BY <3>4, LeastNumber
    <3> QED  BY <3>3, <3>5
  <2> HIDE DEF leaf
  <2> QED  BY <1>1, <2>1
<1>3. step \in StepsUp(V)
  <2>1. \A x \in Internal \X V \X V : At1(x[1], x[2], x[3]) \in V
    <3>1. SUFFICES ASSUME NEW x \in Internal \X V \X V PROVE At1(x[1], x[2], x[3]) \in V
      OBVIOUS
    <3>2. x[1] \in Internal /\ x[2] \in V /\ x[3] \in V
      OBVIOUS
    <3> QED  BY <3>2, OverlayValue
  <2> HIDE DEF At1
  <2> QED  BY <2>1 DEF StepsUp
<1>4. \A t \in Internal : \A l, r \in V : step[<<t, l, r>>] = At1(t, l, r)
  OBVIOUS
<1>5. \A t \in Leaf : base[t] = leaf(t)
  OBVIOUS
<1> HIDE DEF base, step, leaf, At1, V
<1>6. PICK s \in [Vtree -> V] : /\ \A t \in Leaf : s[t] = base[t]
                                /\ \A t \in Internal : s[t] = step[<<t, s[Left[t]], s[Right[t]]>>]
  BY <1>2, <1>3, UpExists
<1>7. s = body(s)
  <2>1. ASSUME NEW t \in Internal PROVE s[t] = At1(t, s[Left[t]], s[Right[t]]) /\ t \notin Leaf
    <3>1. Left[t] \in Vtree /\ Right[t] \in Vtree /\ t \notin Leaf
      BY InternalIs
    <3>2. s[Left[t]] \in V /\ s[Right[t]] \in V
      BY <3>1
    <3> QED  BY <1>4, <1>6, <3>1, <3>2
  <2>2. \A t \in Vtree : s[t] = IF t \in Leaf THEN leaf(t) ELSE At1(t, s[Left[t]], s[Right[t]])
    BY <1>5, <1>6, <2>1 DEF Vtree
  <2>3. s = [t \in Vtree |-> s[t]]
    OBVIOUS
  <2> QED  BY <2>2, <2>3 DEF Vtree
<1> DEFINE over == CHOOSE s1 : s1 = body(s1)
<1>8. over = body(over)
  <2> HIDE DEF body
  <2> QED  BY <1>7
<1>9. OverlayBelow(op, f, g) = over
  BY TableIs DEF OverlayBelow, leaf, At1
<1> HIDE DEF over
<1>10. /\ \A t \in Leaf : over[t] = leaf(t)
       /\ \A t \in Internal : over[t] = At1(t, over[Left[t]], over[Right[t]])
  BY <1>8, InternalIs
<1>11. \A t \in Leaf : over[t].parts = LeafParts(f, g, t)
  <2>1. \A t \in Leaf : leaf(t).parts = LeafParts(f, g, t)
    BY DEF leaf
  <2> QED  BY <1>10, <2>1
<1>12. \A t \in Internal : over[t] = OverlayLevel(op, f.levels[t], g.levels[t],
                                                   over[Left[t]].parts, over[Right[t]].parts)
  BY <1>10 DEF At1
<1> QED  BY <1>9, <1>11, <1>12 DEF Overlays

\* A level names a leaf below it in one form throughout, the root's nodes
\* included.
OneFormed(levels) == \A t \in Internal : OneForm(t, PairsAt(levels, t), PairsAt(levels, t))

\* An operand of an overlay.
Splits(d) == Sound(d) /\ OneFormed(d.levels)

\* The nodes a level is read by, which share no assignment.
Form(d, c) == IF c \in Leaf THEN (IF NamesOne(d, c) THEN {One} ELSE {Pos, Neg}) ELSE DOMAIN d.levels[c]

\* Of those nodes, i and no other holds z.
Tells(d, c, i, z) == \A j \in Form(d, c) : Holds(d.levels, c, j, z) <=> j = i
\* z is held by one of those nodes.
HeldAt(d, c, z) == \E j \in Form(d, c) : Holds(d.levels, c, j, z)

\* A node names its children in their own forms.
LEMMA FormIs ==
  ASSUME NEW d, Splits(d), NEW t \in Internal
  PROVE  /\ \A i \in DOMAIN d.levels[t] : \A p \in d.levels[t][i] :
              p = <<p[1], p[2]>> /\ p[1] \in Form(d, Left[t]) /\ p[2] \in Form(d, Right[t])
         /\ \A c \in Vtree : Form(d, c) \subseteq Slots(d.levels, c)
<1>1. InRange(d.levels)
  BY SoundIs DEF Splits
<1>2. \A c \in Vtree : Form(d, c) \subseteq Slots(d.levels, c)
  BY LeafSlots DEF Form, Slots, One, Pos, Neg
<1>3. ASSUME NEW i \in DOMAIN d.levels[t], NEW p \in d.levels[t][i]
      PROVE  p = <<p[1], p[2]>> /\ p[1] \in Form(d, Left[t]) /\ p[2] \in Form(d, Right[t])
  <2>1. p = <<p[1], p[2]>> /\ p[1] \in Slots(d.levels, Left[t]) /\ p[2] \in Slots(d.levels, Right[t])
    BY <1>1, <1>3, PairIs
  <2>2. p \in PairsAt(d.levels, t)
    BY <1>3 DEF PairsAt, PairsOf
  <2>3. ASSUME NEW c \in Children(t), c \in Leaf PROVE p[Side(c)] \in Form(d, c)
    <3>1. Parent[c] = t
      BY ParentOf
    <3>2. p[Side(c)] \in {1, 2, 3}
      BY <2>1, <2>3, SidesOf, LeafSlots DEF Children
    <3>3. p[Side(c)] \in Named(d.levels, c)
      BY <2>2, <3>1 DEF Named
    <3>4. CASE NamesOne(d, c)
      BY <2>3, <3>3, <3>4 DEF Form, NamesOne
    <3>5. CASE ~NamesOne(d, c)
      <4>1. PICK q \in PairsAt(d.levels, t) : q[Side(c)] # 3
        BY <3>1, <3>5 DEF NamesOne, Named, One
      <4>2. OneForm(t, PairsAt(d.levels, t), PairsAt(d.levels, t))
        BY DEF Splits, OneFormed
      <4>3. p[Side(c)] # 3
        <5>1. CASE c = Left[t]
          BY <2>2, <2>3, <4>1, <4>2, <5>1, SidesOf DEF OneForm
        <5>2. CASE c = Right[t]
          BY <2>2, <2>3, <4>1, <4>2, <5>2, SidesOf DEF OneForm
        <5> QED  BY <5>1, <5>2 DEF Children
      <4> QED  BY <2>3, <3>2, <3>5, <4>3 DEF Form, Pos, Neg
    <3> QED  BY <3>4, <3>5
  <2>4. p[1] \in Form(d, Left[t])
    <3>1. CASE Left[t] \in Leaf
      BY <2>3, <3>1, SidesOf DEF Children
    <3>2. CASE Left[t] \notin Leaf
      BY <2>1, <3>2 DEF Form, Slots
    <3> QED  BY <3>1, <3>2
  <2>5. p[2] \in Form(d, Right[t])
    <3>1. CASE Right[t] \in Leaf
      BY <2>3, <3>1, SidesOf DEF Children
    <3>2. CASE Right[t] \notin Leaf
      BY <2>1, <3>2 DEF Form, Slots
    <3> QED  BY <3>1, <3>2
  <2> QED  BY <2>1, <2>4, <2>5
<1> QED  BY <1>2, <1>3

\* At most one of them holds an assignment.
LEMMA FormApart ==
  ASSUME NEW d, Splits(d), NEW c \in Vtree, c # Root, NEW i \in Form(d, c), NEW j \in Form(d, c), NEW z,
         Holds(d.levels, c, i, z), Holds(d.levels, c, j, z)
  PROVE  i = j
<1>1. InRange(d.levels) /\ Deterministic(d.levels)
  BY SoundIs DEF Splits
<1>2. Distinct(d.levels, c)
  BY <1>1, NodesApart
<1>3. i \in Slots(d.levels, c) /\ j \in Slots(d.levels, c)
  <2>1. Form(d, c) \subseteq Slots(d.levels, c)
    BY FormIs, RootIs
  <2> QED  BY <2>1
<1>4. CASE c \in Leaf /\ NamesOne(d, c)
  BY <1>4 DEF Form
<1>5. CASE ~(c \in Leaf /\ NamesOne(d, c))
  <2>1. c \in Leaf => i # 3 /\ j # 3
    BY <1>5 DEF Form, Pos, Neg
  <2>2. i # j => Apart2(ModelsBelow(d.levels)[c][i], ModelsBelow(d.levels)[c][j])
    BY <1>2, <1>3, <2>1 DEF Distinct
  <2> QED  BY <2>2 DEF Apart2, Holds
<1> QED  BY <1>4, <1>5

\* What holds the halves decides which nodes hold the whole.
LEMMA CellTells ==
  ASSUME NEW d, Splits(d), NEW t \in Internal, NEW z, NEW u, NEW v,
         Tells(d, Left[t], u, z), Tells(d, Right[t], v, z), NEW i \in DOMAIN d.levels[t]
  PROVE  Holds(d.levels, t, i, z) <=> <<u, v>> \in d.levels[t][i]
<1>1. InRange(d.levels)
  BY SoundIs DEF Splits
<1>2. Holds(d.levels, t, i, z) <=>
        \E p \in d.levels[t][i] : Holds(d.levels, Left[t], p[1], z) /\ Holds(d.levels, Right[t], p[2], z)
  BY <1>1, NodeHolds
<1>3. \A p \in d.levels[t][i] : p = <<p[1], p[2]>> /\ p[1] \in Form(d, Left[t]) /\ p[2] \in Form(d, Right[t])
  BY FormIs
<1>4. \A p \in d.levels[t][i] : Holds(d.levels, Left[t], p[1], z) /\ Holds(d.levels, Right[t], p[2], z) <=> p = <<u, v>>
  <2>1. \A p \in d.levels[t][i] : /\ Holds(d.levels, Left[t], p[1], z) <=> p[1] = u
                                  /\ Holds(d.levels, Right[t], p[2], z) <=> p[2] = v
    BY <1>3 DEF Tells
  <2> QED  BY <1>3, <2>1
<1> QED  BY <1>2, <1>4

\* What a node holds is held on each side.
LEMMA HalvesHeld ==
  ASSUME NEW d, Splits(d), NEW t \in Internal, NEW z, NEW i \in DOMAIN d.levels[t], Holds(d.levels, t, i, z)
  PROVE  HeldAt(d, Left[t], z) /\ HeldAt(d, Right[t], z)
<1>1. InRange(d.levels)
  BY SoundIs DEF Splits
<1>2. PICK p \in d.levels[t][i] : Holds(d.levels, Left[t], p[1], z) /\ Holds(d.levels, Right[t], p[2], z)
  BY <1>1, NodeHolds
<1>3. p[1] \in Form(d, Left[t]) /\ p[2] \in Form(d, Right[t])
  BY FormIs
<1> QED  BY <1>2, <1>3 DEF HeldAt

(* The pieces of a level: each lies in the nodes it names, and together they   *)
(* hold all that either operand does, or the first of a difference.           *)
Wanted(op, f, g, c, z) == HeldAt(f, c, z) \/ (op # "and_not" /\ HeldAt(g, c, z))

\* The pieces are a child's parts, in the overlay's levels.
Pieced(op, f, g, parts, new, c) ==
  /\ DOMAIN parts \subseteq Slots(new, c)
  /\ \A z : /\ \A k \in DOMAIN parts : Holds(new, c, k, z) => /\ Tells(f, c, parts[k][1], z)
                                                              /\ Tells(g, c, parts[k][2], z)
            /\ Wanted(op, f, g, c, z) => \E k \in DOMAIN parts : Holds(new, c, k, z)

\* The parts of a leaf are its pieces.
LEMMA LeafPieced ==
  ASSUME NEW op, NEW f, Splits(f), NEW g, Splits(g), NEW new, InRange(new), NEW c \in Leaf
  PROVE  Pieced(op, f, g, LeafParts(f, g, c), new, c)
<1> DEFINE parts == LeafParts(f, g, c)
           of(d) == NamesOne(d, c)
<1>1. \A d \in {f, g} : \A i \in {1, 2, 3} : \A z :
        Holds(d.levels, c, i, z) <=> (i = 1 /\ c \in z) \/ (i = 2 /\ c \notin z) \/ i = 3
  <2>1. InRange(f.levels) /\ InRange(g.levels)
    BY SoundIs DEF Splits
  <2> QED  BY <2>1, LeafHolds
<1>2. \A i \in {1, 2, 3} : \A z : Holds(new, c, i, z) <=> (i = 1 /\ c \in z) \/ (i = 2 /\ c \notin z) \/ i = 3
  BY LeafHolds
<1>3. /\ DOMAIN parts = IF of(f) /\ of(g) THEN {3} ELSE {1, 2}
      /\ \A k \in DOMAIN parts : /\ parts[k][1] = IF of(f) THEN 3 ELSE k
                                 /\ parts[k][2] = IF of(g) THEN 3 ELSE k
  BY DEF LeafParts, One, Pos, Neg
<1>4. \A d : Form(d, c) = IF of(d) THEN {3} ELSE {1, 2}
  BY DEF Form, One, Pos, Neg
<1> HIDE DEF parts, of
<1>5. DOMAIN parts \subseteq Slots(new, c)
  BY <1>3, LeafSlots
<1>6. ASSUME NEW z, NEW k \in DOMAIN parts, Holds(new, c, k, z), NEW d \in {f, g}
      PROVE  Tells(d, c, IF of(d) THEN 3 ELSE k, z)
  <2>1. ASSUME NEW j \in Form(d, c) PROVE Holds(d.levels, c, j, z) <=> j = IF of(d) THEN 3 ELSE k
    <3>1. j \in {1, 2, 3} /\ k \in {1, 2, 3}
      BY <1>3, <1>4, <2>1
    <3>2. Holds(d.levels, c, j, z) <=> (j = 1 /\ c \in z) \/ (j = 2 /\ c \notin z) \/ j = 3
      BY <1>1, <3>1
    <3>3. (k = 1 /\ c \in z) \/ (k = 2 /\ c \notin z) \/ k = 3
      BY <1>2, <1>6, <3>1
    <3>4. CASE of(d)
      BY <1>4, <2>1, <3>2, <3>4
    <3>5. CASE ~of(d)
      <4>1. j \in {1, 2} /\ k \in {1, 2}
        BY <1>3, <1>4, <1>6, <2>1, <3>5
      <4> QED  BY <3>2, <3>3, <3>5, <4>1
    <3> QED  BY <3>4, <3>5
  <2> QED  BY <2>1 DEF Tells
<1>7. ASSUME NEW z PROVE \E k \in DOMAIN parts : Holds(new, c, k, z)
  <2>1. CASE of(f) /\ of(g)
    BY <1>2, <1>3, <2>1
  <2>2. CASE ~(of(f) /\ of(g))
    BY <1>2, <1>3, <2>2
  <2> QED  BY <2>1, <2>2
<1>8. \A z : \A k \in DOMAIN parts : Holds(new, c, k, z) => Tells(f, c, parts[k][1], z) /\ Tells(g, c, parts[k][2], z)
  BY <1>3, <1>6
<1>9. Pieced(op, f, g, parts, new, c)
  BY <1>5, <1>7, <1>8 DEF Pieced
<1> QED  BY <1>9 DEF parts

\* The cell that holds an assignment either operand holds, and what it tells.
Sorts(d, k, t, new, left, right, z) ==
  \A l \in DOMAIN left, r \in DOMAIN right :
    Holds(new, Left[t], l, z) /\ Holds(new, Right[t], r, z) =>
      \A i \in DOMAIN d.levels[t] : Holds(d.levels, t, i, z) <=> <<left[l][k], right[r][k]>> \in d.levels[t][i]

\* What an operand holds lies in a pair of pieces.
Catches(op, f, g, t, new, left, right, z) ==
  \/ \E i \in DOMAIN f.levels[t] : Holds(f.levels, t, i, z)
  \/ op # "and_not" /\ \E i \in DOMAIN g.levels[t] : Holds(g.levels, t, i, z)
  => \E l \in DOMAIN left, r \in DOMAIN right : Holds(new, Left[t], l, z) /\ Holds(new, Right[t], r, z)

\* A pair of pieces sorts what it holds into the operands' pairs.
LEMMA PiecedCell ==
  ASSUME NEW op, NEW f, Splits(f), NEW g, Splits(g), NEW new, NEW t \in Internal,
         NEW left, NEW right, Pieced(op, f, g, left, new, Left[t]), Pieced(op, f, g, right, new, Right[t])
  PROVE  \A z : /\ Sorts(f, 1, t, new, left, right, z) /\ Sorts(g, 2, t, new, left, right, z)
                /\ Catches(op, f, g, t, new, left, right, z)
<1>1. ASSUME NEW z, NEW l \in DOMAIN left, NEW r \in DOMAIN right, Holds(new, Left[t], l, z), Holds(new, Right[t], r, z)
      PROVE  /\ \A i \in DOMAIN f.levels[t] : Holds(f.levels, t, i, z) <=> <<left[l][1], right[r][1]>> \in f.levels[t][i]
             /\ \A i \in DOMAIN g.levels[t] : Holds(g.levels, t, i, z) <=> <<left[l][2], right[r][2]>> \in g.levels[t][i]
  <2>1. /\ Tells(f, Left[t], left[l][1], z) /\ Tells(g, Left[t], left[l][2], z)
        /\ Tells(f, Right[t], right[r][1], z) /\ Tells(g, Right[t], right[r][2], z)
    BY <1>1 DEF Pieced
  <2> QED  BY <2>1, CellTells
<1>2. ASSUME NEW z, \/ \E i \in DOMAIN f.levels[t] : Holds(f.levels, t, i, z)
                    \/ op # "and_not" /\ \E i \in DOMAIN g.levels[t] : Holds(g.levels, t, i, z)
      PROVE  \E l \in DOMAIN left, r \in DOMAIN right : Holds(new, Left[t], l, z) /\ Holds(new, Right[t], r, z)
  <2>1. Wanted(op, f, g, Left[t], z) /\ Wanted(op, f, g, Right[t], z)
    BY <1>2, HalvesHeld DEF Wanted
  <2> QED  BY <2>1 DEF Pieced
<1>3. \A z : Sorts(f, 1, t, new, left, right, z) /\ Sorts(g, 2, t, new, left, right, z)
  BY <1>1 DEF Sorts
<1>4. \A z : Catches(op, f, g, t, new, left, right, z)
  BY <1>2 DEF Catches
<1> QED  BY <1>3, <1>4

\* What a part's cells are.
LEMMA CellsAre ==
  ASSUME NEW op, NEW F, NEW G, NEW left, NEW right, NEW a, NEW b, NEW c,
         c \in PartCells(op, F, G, left, right, <<a, b>>)
  PROVE  /\ c = <<c[1], c[2]>> /\ c[1] \in DOMAIN left /\ c[2] \in DOMAIN right
         /\ a = 0 => /\ op # "and_not" /\ <<left[c[1]][2], right[c[2]][2]>> \in G[b]
                     /\ \A i \in DOMAIN F : <<left[c[1]][1], right[c[2]][1]>> \notin F[i]
         /\ a # 0 => /\ <<left[c[1]][1], right[c[2]][1]>> \in F[a]
                     /\ b = Owner(G, <<left[c[1]][2], right[c[2]][2]>>)
<1>1. c \in (DOMAIN left) \X (DOMAIN right)
  BY PartCellsIn
<1>2. CASE a = 0
  <2>1. c \in Residue(op, F, G[b], left, right)
    BY <1>2 DEF PartCells, Absent
  <2>2. op # "and_not" /\ c \in Cells(G[b], 2, left, right) /\ Under(c, 1, left, right) \notin PairsOf(F)
    BY <2>1 DEF Residue
  <2> QED  BY <1>1, <1>2, <2>2 DEF Cells, Under, PairsOf
<1>3. CASE a # 0
  <2>1. c \in Cells(F[a], 1, left, right) /\ Owner(G, Under(c, 2, left, right)) = b
    BY <1>3 DEF PartCells, Absent
  <2> QED  BY <1>1, <1>3, <2>1 DEF Cells, Under
<1> QED  BY <1>2, <1>3

\* Which part a cell is of.
LEMMA CellOf ==
  ASSUME NEW op, NEW F, NEW G, NEW left, NEW right, NEW l \in DOMAIN left, NEW r \in DOMAIN right
  PROVE  /\ \A a \in DOMAIN F \ {0} : <<left[l][1], right[r][1]>> \in F[a] =>
              <<l, r>> \in PartCells(op, F, G, left, right, <<a, Owner(G, <<left[l][2], right[r][2]>>)>>)
         /\ \A b \in DOMAIN G :
              /\ op # "and_not" /\ <<left[l][2], right[r][2]>> \in G[b]
              /\ \A a \in DOMAIN F : <<left[l][1], right[r][1]>> \notin F[a]
              => <<l, r>> \in PartCells(op, F, G, left, right, <<0, b>>)
<1>1. /\ <<l, r>> \in (DOMAIN left) \X (DOMAIN right) /\ <<l, r>>[1] = l /\ <<l, r>>[2] = r
  OBVIOUS
<1>2. ASSUME NEW a \in DOMAIN F \ {0}, <<left[l][1], right[r][1]>> \in F[a]
      PROVE  <<l, r>> \in PartCells(op, F, G, left, right, <<a, Owner(G, <<left[l][2], right[r][2]>>)>>)
  <2>1. <<l, r>> \in Cells(F[a], 1, left, right)
    BY <1>1, <1>2 DEF Cells
  <2>2. Under(<<l, r>>, 2, left, right) = <<left[l][2], right[r][2]>>
    BY <1>1 DEF Under
  <2> QED  BY <1>2, <2>1, <2>2 DEF PartCells, Absent
<1>3. ASSUME NEW b \in DOMAIN G, op # "and_not", <<left[l][2], right[r][2]>> \in G[b],
             \A a \in DOMAIN F : <<left[l][1], right[r][1]>> \notin F[a]
      PROVE  <<l, r>> \in PartCells(op, F, G, left, right, <<0, b>>)
  <2>1. <<l, r>> \in Cells(G[b], 2, left, right)
    BY <1>1, <1>3 DEF Cells
  <2>2. Under(<<l, r>>, 1, left, right) \notin PairsOf(F)
    BY <1>1, <1>3 DEF Under, PairsOf
  <2> QED  BY <1>3, <2>1, <2>2 DEF PartCells, Residue, Absent
<1> QED  BY <1>2, <1>3

\* The owner of a pair is the node that names it, if one does.
LEMMA OwnerIs ==
  ASSUME NEW level, NEW pair
  PROVE  \/ Owner(level, pair) \in DOMAIN level /\ pair \in level[Owner(level, pair)]
         \/ Owner(level, pair) = 0 /\ \A b \in DOMAIN level : pair \notin level[b]
<1>1. CASE \E b \in DOMAIN level : pair \in level[b]
  <2> DEFINE b == CHOOSE i \in DOMAIN level : pair \in level[i]
  <2>1. b \in DOMAIN level /\ pair \in level[b]
    BY <1>1
  <2> QED  BY <1>1, <2>1 DEF Owner
<1>2. CASE ~\E b \in DOMAIN level : pair \in level[b]
  BY <1>2 DEF Owner, Absent
<1> QED  BY <1>1, <1>2

\* A level's pieces from its children's.
LEMMA LevelPieced ==
  ASSUME NEW op, NEW f, Splits(f), NEW g, Splits(g), NEW new, InRange(new), NEW t \in Internal, t # Root,
         NEW left, NEW right, Pieced(op, f, g, left, new, Left[t]), Pieced(op, f, g, right, new, Right[t]),
         NEW made, made = OverlayLevel(op, f.levels[t], g.levels[t], left, right), new[t] = made.level
  PROVE  Pieced(op, f, g, made.parts, new, t)
<1> DEFINE F == f.levels[t]
           G == g.levels[t]
           parts == made.parts
           of(x) == PartCells(op, F, G, left, right, x)
<1>1. InRange(f.levels) /\ InRange(g.levels)
  BY SoundIs DEF Splits
<1>2. Numbered(F) /\ Numbered(G) /\ 0 \notin DOMAIN F /\ 0 \notin DOMAIN G
  BY <1>1, LevelIs DEF Numbered
<1>3. Form(f, t) = DOMAIN F /\ Form(g, t) = DOMAIN G
  BY InternalIs DEF Form
<1>4. /\ \A z : \A l \in DOMAIN left, r \in DOMAIN right :
            Holds(new, Left[t], l, z) /\ Holds(new, Right[t], r, z) =>
              /\ \A i \in DOMAIN F : Holds(f.levels, t, i, z) <=> <<left[l][1], right[r][1]>> \in F[i]
              /\ \A i \in DOMAIN G : Holds(g.levels, t, i, z) <=> <<left[l][2], right[r][2]>> \in G[i]
      /\ \A z : \/ \E i \in DOMAIN F : Holds(f.levels, t, i, z)
                \/ op # "and_not" /\ \E i \in DOMAIN G : Holds(g.levels, t, i, z)
                => \E l \in DOMAIN left, r \in DOMAIN right : Holds(new, Left[t], l, z) /\ Holds(new, Right[t], r, z)
  <2>1. \A z : /\ Sorts(f, 1, t, new, left, right, z) /\ Sorts(g, 2, t, new, left, right, z)
               /\ Catches(op, f, g, t, new, left, right, z)
    BY PiecedCell
  <2>2. ASSUME NEW z PROVE Sorts(f, 1, t, new, left, right, z) /\ Sorts(g, 2, t, new, left, right, z)
    BY <2>1
  <2>3. ASSUME NEW z PROVE Catches(op, f, g, t, new, left, right, z)
    BY <2>1
  <2> QED  BY <2>2, <2>3 DEF Sorts, Catches, F, G
<1>5. /\ \A z : \A i, j \in DOMAIN F : Holds(f.levels, t, i, z) /\ Holds(f.levels, t, j, z) => i = j
      /\ \A z : \A i, j \in DOMAIN G : Holds(g.levels, t, i, z) /\ Holds(g.levels, t, j, z) => i = j
  <2>1. t \in Vtree
    BY DEF Vtree
  <2> QED  BY <1>3, <2>1, FormApart
<1> HIDE DEF F, G
<1>6. /\ DOMAIN parts = DOMAIN new[t]
      /\ \A k \in DOMAIN parts : /\ parts[k] = <<parts[k][1], parts[k][2]>>
                                 /\ parts[k][1] \in {0} \cup DOMAIN F /\ parts[k][2] \in {0} \cup DOMAIN G
                                 /\ parts[k][1] = 0 => parts[k][2] \in DOMAIN G
                                 /\ new[t][k] = of(parts[k])
      /\ \A a \in DOMAIN F, b \in {0} \cup DOMAIN G : of(<<a, b>>) # {} => \E k \in DOMAIN parts : parts[k] = <<a, b>>
      /\ \A b \in DOMAIN G : of(<<0, b>>) # {} => \E k \in DOMAIN parts : parts[k] = <<0, b>>
  <2>1. made = OverlayLevel(op, F, G, left, right)
    BY DEF F, G
  <2>2. Overlaid(op, F, G, left, right, parts, made.level)
    BY <1>2, <2>1, OverlaidIs
  <2> HIDE DEF parts
  <2> QED  BY <2>2 DEF Overlaid
<1> HIDE DEF parts, of
<1>7. \A z : \A k \in DOMAIN parts : Holds(new, t, k, z) <=>
        \E c \in of(parts[k]) : Holds(new, Left[t], c[1], z) /\ Holds(new, Right[t], c[2], z)
  <2>1. \A z : \A k \in DOMAIN new[t] : Holds(new, t, k, z) <=>
          \E c \in new[t][k] : Holds(new, Left[t], c[1], z) /\ Holds(new, Right[t], c[2], z)
    BY NodeHolds
  <2> QED  BY <1>6, <2>1
<1>8. ASSUME NEW z, NEW k \in DOMAIN parts, Holds(new, t, k, z)
      PROVE  Tells(f, t, parts[k][1], z) /\ Tells(g, t, parts[k][2], z)
  <2> DEFINE a == parts[k][1]
             b == parts[k][2]
  <2>1. PICK c \in of(parts[k]) : Holds(new, Left[t], c[1], z) /\ Holds(new, Right[t], c[2], z)
    BY <1>7, <1>8
  <2>2. c \in PartCells(op, F, G, left, right, <<a, b>>)
    BY <1>6, <1>8, <2>1 DEF of
  <2>3. /\ c[1] \in DOMAIN left /\ c[2] \in DOMAIN right
        /\ a = 0 => /\ <<left[c[1]][2], right[c[2]][2]>> \in G[b]
                    /\ \A i \in DOMAIN F : <<left[c[1]][1], right[c[2]][1]>> \notin F[i]
        /\ a # 0 => /\ <<left[c[1]][1], right[c[2]][1]>> \in F[a]
                    /\ b = Owner(G, <<left[c[1]][2], right[c[2]][2]>>)
    <3> HIDE DEF a, b
    <3> QED  BY <2>2, CellsAre
  <2>4. /\ \A i \in DOMAIN F : Holds(f.levels, t, i, z) <=> <<left[c[1]][1], right[c[2]][1]>> \in F[i]
        /\ \A i \in DOMAIN G : Holds(g.levels, t, i, z) <=> <<left[c[1]][2], right[c[2]][2]>> \in G[i]
    BY <1>4, <2>1, <2>3
  <2>5. a \in {0} \cup DOMAIN F /\ b \in {0} \cup DOMAIN G /\ (a = 0 => b \in DOMAIN G)
    BY <1>6, <1>8
  <2>6. Tells(f, t, a, z)
    <3> HIDE DEF a, b
    <3>1. CASE a = 0
      BY <1>2, <1>3, <2>3, <2>4, <3>1 DEF Tells
    <3>2. CASE a # 0
      BY <1>3, <1>5, <2>3, <2>4, <2>5, <3>2 DEF Tells
    <3> QED  BY <3>1, <3>2
  <2>7. Tells(g, t, b, z)
    <3> HIDE DEF a, b
    <3>1. CASE b = 0
      <4>1. a # 0
        BY <1>2, <2>5, <3>1
      <4>2. \A i \in DOMAIN G : <<left[c[1]][2], right[c[2]][2]>> \notin G[i]
        BY <1>2, <2>3, <3>1, <4>1, OwnerIs
      <4> QED  BY <1>2, <1>3, <2>4, <3>1, <4>2 DEF Tells
    <3>2. CASE b # 0
      <4>1. <<left[c[1]][2], right[c[2]][2]>> \in G[b]
        BY <2>3, <3>2, OwnerIs
      <4> QED  BY <1>3, <1>5, <2>4, <2>5, <3>2, <4>1 DEF Tells
    <3> QED  BY <3>1, <3>2
  <2> QED  BY <2>6, <2>7
<1>9. ASSUME NEW z, Wanted(op, f, g, t, z) PROVE \E k \in DOMAIN parts : Holds(new, t, k, z)
  <2>1. \/ \E i \in DOMAIN F : Holds(f.levels, t, i, z)
        \/ op # "and_not" /\ \E i \in DOMAIN G : Holds(g.levels, t, i, z)
    BY <1>3, <1>9 DEF Wanted, HeldAt
  <2>2. PICK l \in DOMAIN left, r \in DOMAIN right : Holds(new, Left[t], l, z) /\ Holds(new, Right[t], r, z)
    BY <1>4, <2>1
  <2>3. /\ \A i \in DOMAIN F : Holds(f.levels, t, i, z) <=> <<left[l][1], right[r][1]>> \in F[i]
        /\ \A i \in DOMAIN G : Holds(g.levels, t, i, z) <=> <<left[l][2], right[r][2]>> \in G[i]
    BY <1>4, <2>2
  <2>4. PICK x : <<l, r>> \in of(x) /\ \E k \in DOMAIN parts : parts[k] = x
    <3>1. CASE \E i \in DOMAIN F : Holds(f.levels, t, i, z)
      <4>1. PICK a \in DOMAIN F : <<left[l][1], right[r][1]>> \in F[a]
        BY <2>3, <3>1
      <4>2. PICK b : b = Owner(G, <<left[l][2], right[r][2]>>)
        OBVIOUS
      <4>3. <<l, r>> \in of(<<a, b>>)
        BY <1>2, <4>1, <4>2, CellOf DEF of
      <4>4. b \in {0} \cup DOMAIN G
        BY <4>2, OwnerIs
      <4> QED  BY <1>6, <4>3, <4>4
    <3>2. CASE ~\E i \in DOMAIN F : Holds(f.levels, t, i, z)
      <4>1. PICK b \in DOMAIN G : <<left[l][2], right[r][2]>> \in G[b]
        BY <2>1, <2>3, <3>2
      <4>2. op # "and_not" /\ \A i \in DOMAIN F : <<left[l][1], right[r][1]>> \notin F[i]
        BY <2>1, <2>3, <3>2
      <4>3. <<l, r>> \in of(<<0, b>>)
        BY <4>1, <4>2, CellOf DEF of
      <4> QED  BY <1>6, <4>3
    <3> QED  BY <3>1, <3>2
  <2>5. PICK k \in DOMAIN parts : parts[k] = x
    BY <2>4
  <2>6. <<l, r>> \in of(parts[k]) /\ <<l, r>>[1] = l /\ <<l, r>>[2] = r
    BY <2>4, <2>5
  <2>7. Holds(new, t, k, z)
    BY <1>7, <2>2, <2>6
  <2> QED  BY <2>7
<1>10. DOMAIN parts \subseteq Slots(new, t)
  BY <1>6, InternalIs DEF Slots
<1>11. Pieced(op, f, g, parts, new, t)
  BY <1>8, <1>9, <1>10 DEF Pieced
<1> QED  BY <1>11 DEF parts

(* Whether the levels fit. *)
\* The pieces of a level name one leaf form, and are of disjoint cells.
Parted(made, left, right) ==
  /\ IsSequence(made.level) /\ DOMAIN made.parts = DOMAIN made.level
  /\ \A k \in DOMAIN made.level : /\ made.level[k] # {}
                                  /\ made.level[k] \subseteq (DOMAIN left) \X (DOMAIN right)
  /\ \A j, k \in DOMAIN made.level : j # k => made.level[j] \cap made.level[k] = {}

\* A level of parts splits its children's pairs.
LEMMA LevelSplitFits ==
  ASSUME NEW op, NEW f, Splits(f), NEW g, Splits(g), NEW t \in Internal, t # Root,
         NEW left, NEW right,
         NEW made, made = OverlayLevel(op, f.levels[t], g.levels[t], left, right)
  PROVE  Parted(made, left, right)
<1> DEFINE F == f.levels[t]
           G == g.levels[t]
           parts == made.parts
           level == made.level
           of(x) == PartCells(op, F, G, left, right, x)
<1>1. InRange(f.levels) /\ InRange(g.levels) /\ Deterministic(f.levels) /\ Deterministic(g.levels)
  BY SoundIs DEF Splits
<1>2. Numbered(F) /\ Numbered(G) /\ 0 \notin DOMAIN F /\ 0 \notin DOMAIN G
  BY <1>1, LevelIs DEF Numbered
<1>3. /\ \A i, j \in DOMAIN F : i # j => F[i] \cap F[j] = {}
      /\ \A i, j \in DOMAIN G : i # j => G[i] \cap G[j] = {}
  BY <1>1 DEF Deterministic
<1> HIDE DEF F, G
<1>4. /\ IsSequence(level) /\ DOMAIN parts = DOMAIN level
      /\ \A k \in DOMAIN parts : /\ parts[k] = <<parts[k][1], parts[k][2]>>
                                 /\ parts[k][1] \in {0} \cup DOMAIN F /\ parts[k][2] \in {0} \cup DOMAIN G
                                 /\ parts[k][1] = 0 => parts[k][2] \in DOMAIN G
                                 /\ level[k] = of(parts[k]) /\ of(parts[k]) # {}
      /\ \A j, k \in DOMAIN parts : parts[j] = parts[k] => j = k
  <2>1. made = OverlayLevel(op, F, G, left, right)
    BY DEF F, G
  <2>2. Overlaid(op, F, G, left, right, parts, made.level)
    BY <1>2, <2>1, OverlaidIs
  <2> HIDE DEF parts
  <2> QED  BY <2>2 DEF Overlaid
<1> HIDE DEF parts, level, of
<1>5. \A k \in DOMAIN level : level[k] # {} /\ level[k] \subseteq (DOMAIN left) \X (DOMAIN right)
  BY <1>4, PartCellsIn DEF of
<1>6. ASSUME NEW j \in DOMAIN parts, NEW k \in DOMAIN parts, NEW c \in of(parts[j]), c \in of(parts[k])
      PROVE  j = k
  <2> DEFINE u == <<left[c[1]][1], right[c[2]][1]>>
             v == <<left[c[1]][2], right[c[2]][2]>>
  <2>1. \A m \in {j, k} : /\ parts[m][1] = 0 => v \in G[parts[m][2]] /\ \A i \in DOMAIN F : u \notin F[i]
                          /\ parts[m][1] # 0 => u \in F[parts[m][1]] /\ parts[m][2] = Owner(G, v)
    <3>1. ASSUME NEW m \in {j, k}
          PROVE  /\ parts[m][1] = 0 => v \in G[parts[m][2]] /\ \A i \in DOMAIN F : u \notin F[i]
                 /\ parts[m][1] # 0 => u \in F[parts[m][1]] /\ parts[m][2] = Owner(G, v)
      <4>1. c \in PartCells(op, F, G, left, right, <<parts[m][1], parts[m][2]>>)
        BY <1>4, <1>6 DEF of
      <4> QED  BY <4>1, CellsAre
    <3> QED  BY <3>1
  <2> HIDE DEF u, v
  <2>2. parts[j][1] = parts[k][1] /\ parts[j][2] = parts[k][2]
    <3>1. CASE parts[j][1] = 0 /\ parts[k][1] = 0
      BY <1>3, <1>4, <2>1, <3>1
    <3>2. CASE parts[j][1] # 0 /\ parts[k][1] # 0
      BY <1>3, <1>4, <2>1, <3>2
    <3>3. CASE (parts[j][1] = 0) # (parts[k][1] = 0)
      BY <1>4, <2>1, <3>3
    <3> QED  BY <3>1, <3>2, <3>3
  <2>3. parts[j] = parts[k]
    BY <1>4, <2>2
  <2> QED  BY <1>4, <2>3
<1>7. \A j, k \in DOMAIN level : j # k => level[j] \cap level[k] = {}
  BY <1>4, <1>6
<1>8. /\ IsSequence(level) /\ DOMAIN parts = DOMAIN level
      /\ \A k \in DOMAIN level : level[k] # {} /\ level[k] \subseteq (DOMAIN left) \X (DOMAIN right)
      /\ \A j, k \in DOMAIN level : j # k => level[j] \cap level[k] = {}
  BY <1>4, <1>5, <1>7
<1> QED  BY <1>8 DEF parts, level, Parted

(* The overlay. *)
\* Below its root an overlay's levels are what the operands split into, and its
\* root is one node.
OverlaidAs(over, cells) == [t \in Internal |-> IF t = Root THEN <<cells>> ELSE over[t].level]

\* A leaf has one form.
LEMMA LeafDomain ==
  ASSUME NEW f, NEW g, NEW c
  PROVE  DOMAIN LeafParts(f, g, c) = {3} \/ DOMAIN LeafParts(f, g, c) = {1, 2}
BY DEF LeafParts, One, Pos, Neg

\* The levels of an overlay are again split, and pieces of both operands.
LEMMA OverlaySplits ==
  ASSUME NEW op, NEW f, Splits(f), NEW g, Splits(g), NEW over, over = OverlayBelow(op, f, g),
         NEW cells, cells \subseteq (DOMAIN over[Left[Root]].parts) \X (DOMAIN over[Right[Root]].parts),
         NEW new, new = OverlaidAs(over, cells)
  PROVE  /\ InRange(new) /\ Deterministic(new) /\ OneFormed(new) /\ new[Root] = <<cells>>
         /\ \A t \in Internal \ {Root} : \A k \in DOMAIN new[t] : new[t][k] # {}
         /\ \A c \in Vtree \ {Root} : Pieced(op, f, g, over[c].parts, new, c)
<1> DEFINE at(c) == DOMAIN over[c].parts
<1>1. InRange(f.levels) /\ InRange(g.levels)
  BY SoundIs DEF Splits
<1>2. /\ \A t \in Leaf : over[t].parts = LeafParts(f, g, t)
      /\ \A t \in Internal : over[t] = OverlayLevel(op, f.levels[t], g.levels[t],
                                                    over[Left[t]].parts, over[Right[t]].parts)
  <2>1. Overlays(op, f, g, over)
    BY <1>1, OverlayBelowIs
  <2> QED  BY <2>1 DEF Overlays
<1>3. /\ new = [t \in Internal |-> new[t]] /\ new[Root] = <<cells>>
      /\ \A t \in Internal \ {Root} : new[t] = over[t].level
  BY RootIs DEF OverlaidAs
<1>4. ASSUME NEW t \in Internal, t # Root
      PROVE  /\ IsSequence(over[t].level) /\ at(t) = DOMAIN over[t].level
             /\ \A k \in DOMAIN over[t].level : /\ over[t].level[k] # {}
                                                /\ over[t].level[k] \subseteq at(Left[t]) \X at(Right[t])
             /\ \A j, k \in DOMAIN over[t].level : j # k => over[t].level[j] \cap over[t].level[k] = {}
  <2> DEFINE left == over[Left[t]].parts
             right == over[Right[t]].parts
             made == over[t]
  <2>1. made = OverlayLevel(op, f.levels[t], g.levels[t], left, right)
    BY <1>2, <1>4
  <2> HIDE DEF left, right, made
  <2>2. /\ IsSequence(made.level) /\ DOMAIN made.parts = DOMAIN made.level
        /\ \A k \in DOMAIN made.level : /\ made.level[k] # {}
                                        /\ made.level[k] \subseteq (DOMAIN left) \X (DOMAIN right)
        /\ \A j, k \in DOMAIN made.level : j # k => made.level[j] \cap made.level[k] = {}
    <3>1. Parted(made, left, right)
      BY <1>4, <2>1, LevelSplitFits
    <3> QED  BY <3>1 DEF Parted
  <2> QED  BY <2>2 DEF left, right, made
<1>5. \A c \in Vtree \ {Root} : at(c) \subseteq Slots(new, c)
  <2>1. ASSUME NEW c \in Leaf PROVE at(c) \subseteq Slots(new, c)
    BY <1>2, LeafDomain, LeafSlots
  <2>2. ASSUME NEW c \in Internal, c # Root PROVE at(c) \subseteq Slots(new, c)
    BY <1>3, <1>4, <2>2, InternalIs DEF Slots
  <2> QED  BY <2>1, <2>2 DEF Vtree
<1>6. ASSUME NEW t \in Internal
      PROVE  /\ IsSequence(new[t])
             /\ \A k \in DOMAIN new[t] : new[t][k] \subseteq at(Left[t]) \X at(Right[t])
             /\ t # Root => \A j, k \in DOMAIN new[t] : j # k => new[t][j] \cap new[t][k] = {}
  <2>1. CASE t = Root
    <3>1. DOMAIN new[t] = 1 .. 1 /\ new[t] = [k \in 1 .. 1 |-> cells] /\ 1 \in Nat
      BY <1>3, <2>1
    <3>2. \A k \in 1 .. 1 : new[t][k] = cells
      BY <3>1
    <3>3. IsSequence(new[t])
      BY <3>1 DEF IsSequence
    <3> QED  BY <2>1, <3>1, <3>2, <3>3
  <2>2. CASE t # Root
    BY <1>3, <1>4, <2>2
  <2> QED  BY <2>1, <2>2
<1>7. ASSUME NEW t \in Internal, NEW j \in DOMAIN new[t], NEW k \in DOMAIN new[t]
      PROVE  OneForm(t, new[t][j], new[t][k])
  <2>1. \A c \in Children(t) \cap Leaf : at(c) = {3} \/ at(c) = {1, 2}
    BY <1>2, LeafDomain
  <2>2. new[t][j] \subseteq at(Left[t]) \X at(Right[t]) /\ new[t][k] \subseteq at(Left[t]) \X at(Right[t])
    BY <1>6
  <2> HIDE DEF at
  <2>3. \A p \in new[t][j], q \in new[t][k] : p[1] \in at(Left[t]) /\ q[1] \in at(Left[t])
                                              /\ p[2] \in at(Right[t]) /\ q[2] \in at(Right[t])
    BY <2>2
  <2>4. /\ Left[t] \in Leaf => at(Left[t]) = {3} \/ at(Left[t]) = {1, 2}
        /\ Right[t] \in Leaf => at(Right[t]) = {3} \/ at(Right[t]) = {1, 2}
    BY <2>1 DEF Children
  <2> QED  BY <2>3, <2>4 DEF OneForm
<1>8. \A t \in Internal : LevelFits(new, t)
  <2>1. ASSUME NEW t \in Internal PROVE LevelFits(new, t)
    <3>1. at(Left[t]) \subseteq Slots(new, Left[t]) /\ at(Right[t]) \subseteq Slots(new, Right[t])
      BY <1>5, InternalIs
    <3> HIDE DEF at
    <3>2. \A k \in DOMAIN new[t] : \A q \in new[t][k] :
            q = <<q[1], q[2]>> /\ q[1] \in Slots(new, Left[t]) /\ q[2] \in Slots(new, Right[t])
      BY <1>6, <3>1
    <3> QED  BY <1>6, <1>7, <3>2 DEF LevelFits
  <2> QED  BY <2>1
<1>9. InRange(new) /\ Deterministic(new)
  BY <1>3, <1>8, AllFit
<1>10. OneFormed(new)
  <2>1. ASSUME NEW t \in Internal PROVE OneForm(t, PairsAt(new, t), PairsAt(new, t))
    BY <1>7 DEF OneForm, PairsAt, PairsOf
  <2> QED  BY <2>1 DEF OneFormed
<1>11. \A t \in Internal \ {Root} : \A k \in DOMAIN new[t] : new[t][k] # {}
  BY <1>3, <1>4
<1> HIDE DEF at
<1> DEFINE P == {c \in Vtree : c = Root \/ Pieced(op, f, g, over[c].parts, new, c)}
<1>12. Leaf \subseteq P
  <2>1. ASSUME NEW c \in Leaf PROVE Pieced(op, f, g, over[c].parts, new, c) /\ c \in Vtree
    BY <1>2, <1>9, LeafPieced DEF Vtree
  <2> QED  BY <2>1
<1>13. ASSUME NEW t \in Internal, Left[t] \in P, Right[t] \in P PROVE t \in P
  <2>1. Pieced(op, f, g, over[Left[t]].parts, new, Left[t]) /\ Pieced(op, f, g, over[Right[t]].parts, new, Right[t])
    BY <1>13, InternalIs
  <2>2. t \in Vtree
    BY DEF Vtree
  <2>3. CASE t # Root
    <3>1. over[t] = OverlayLevel(op, f.levels[t], g.levels[t], over[Left[t]].parts, over[Right[t]].parts)
      BY <1>2
    <3>2. new[t] = over[t].level
      BY <1>3, <2>3
    <3>3. Pieced(op, f, g, over[t].parts, new, t)
      BY <1>9, <2>1, <2>3, <3>1, <3>2, LevelPieced
    <3> QED  BY <2>2, <3>3
  <2> QED  BY <2>2, <2>3
<1>14. Vtree \subseteq P
  <2> HIDE DEF P
  <2> QED  BY <1>12, <1>13, UpInduction
<1>15. \A c \in Vtree \ {Root} : Pieced(op, f, g, over[c].parts, new, c)
  BY <1>14
<1> QED  BY <1>3, <1>9, <1>10, <1>11, <1>15

\* The root's cells are of the pieces.
RootCell(op, F, G, left, right, c) ==
  /\ c = <<c[1], c[2]>> /\ c[1] \in DOMAIN left /\ c[2] \in DOMAIN right
  /\ IF op = "and_not"
     THEN <<left[c[1]][1], right[c[2]][1]>> \in F /\ <<left[c[1]][2], right[c[2]][2]>> \notin G
     ELSE <<left[c[1]][1], right[c[2]][1]>> \in F \/ <<left[c[1]][2], right[c[2]][2]>> \in G

\* Which pairs the root gets.
LEMMA RootCellsAre ==
  ASSUME NEW op, NEW F, NEW G, NEW left, NEW right, NEW c
  PROVE  c \in RootCells(op, F, G, left, right) <=> RootCell(op, F, G, left, right, c)
<1>1. \A X, Y : c \in X \X Y <=> c = <<c[1], c[2]>> /\ c[1] \in X /\ c[2] \in Y
  OBVIOUS
<1>2. c \in RootCells(op, F, G, left, right) <=>
        /\ c \in (DOMAIN left) \X (DOMAIN right)
        /\ IF op = "and_not"
           THEN <<left[c[1]][1], right[c[2]][1]>> \in F /\ <<left[c[1]][2], right[c[2]][2]>> \notin G
           ELSE <<left[c[1]][1], right[c[2]][1]>> \in F \/ <<left[c[1]][2], right[c[2]][2]>> \in G
  BY DEF RootCells, Cells, Under
<1> QED  BY <1>1, <1>2 DEF RootCell

\* What the root holds, and whether the operands share a cell.
RootHolds(op, f, g, new) ==
  \A z : Holds(new, Root, 1, z) <=>
        IF op = "and_not" THEN Holds(f.levels, Root, f.out, z) /\ ~Holds(g.levels, Root, g.out, z)
        ELSE Holds(f.levels, Root, f.out, z) \/ Holds(g.levels, Root, g.out, z)

\* The operands share a model.
Meeting(f, g) == \E z \in Assignments : Holds(f.levels, Root, f.out, z) /\ Holds(g.levels, Root, g.out, z)

\* The root holds what was asked for, and a shared cell shows a shared model.
LEMMA OverlayRoot ==
  ASSUME NEW op, NEW f, Splits(f), f.out # Zero, NEW g, Splits(g), g.out # Zero,
         NEW left, NEW right, NEW new, InRange(new), \A t \in Internal \ {Root} : \A k \in DOMAIN new[t] : new[t][k] # {},
         Pieced(op, f, g, left, new, Left[Root]), Pieced(op, f, g, right, new, Right[Root]),
         NEW F, F = f.levels[Root][f.out], NEW G, G = g.levels[Root][g.out],
         new[Root] = <<RootCells(op, F, G, left, right)>>
  PROVE  RootHolds(op, f, g, new) /\ (op = "add" => (SharesCell(F, G, left, right) <=> Meeting(f, g)))
<1> DEFINE fz(z) == Holds(f.levels, Root, f.out, z)
           gz(z) == Holds(g.levels, Root, g.out, z)
           cells == RootCells(op, F, G, left, right)
<1>1. f.out \in DOMAIN f.levels[Root] /\ g.out \in DOMAIN g.levels[Root] /\ Root \in Internal
  BY SoundIs, RootIs DEF Splits
<1>2. /\ \A z : \A l \in DOMAIN left, r \in DOMAIN right :
            Holds(new, Left[Root], l, z) /\ Holds(new, Right[Root], r, z) =>
              (fz(z) <=> <<left[l][1], right[r][1]>> \in F) /\ (gz(z) <=> <<left[l][2], right[r][2]>> \in G)
      /\ \A z : fz(z) \/ (op # "and_not" /\ gz(z)) =>
            \E l \in DOMAIN left, r \in DOMAIN right : Holds(new, Left[Root], l, z) /\ Holds(new, Right[Root], r, z)
  <2>1. \A z : /\ Sorts(f, 1, Root, new, left, right, z) /\ Sorts(g, 2, Root, new, left, right, z)
               /\ Catches(op, f, g, Root, new, left, right, z)
    BY <1>1, PiecedCell
  <2>2. ASSUME NEW z PROVE Sorts(f, 1, Root, new, left, right, z) /\ Sorts(g, 2, Root, new, left, right, z)
    BY <2>1
  <2>3. ASSUME NEW z PROVE Catches(op, f, g, Root, new, left, right, z)
    BY <2>1
  <2>4. ASSUME NEW z PROVE fz(z) \/ (op # "and_not" /\ gz(z)) =>
            \E l \in DOMAIN left, r \in DOMAIN right : Holds(new, Left[Root], l, z) /\ Holds(new, Right[Root], r, z)
    BY <1>1, <2>3 DEF Catches
  <2>5. ASSUME NEW z, NEW l \in DOMAIN left, NEW r \in DOMAIN right,
               Holds(new, Left[Root], l, z), Holds(new, Right[Root], r, z)
        PROVE  (fz(z) <=> <<left[l][1], right[r][1]>> \in F) /\ (gz(z) <=> <<left[l][2], right[r][2]>> \in G)
    BY <1>1, <2>2, <2>5 DEF Sorts
  <2> QED  BY <2>4, <2>5
<1>3. \A c : c \in cells <=>
        /\ c = <<c[1], c[2]>> /\ c[1] \in DOMAIN left /\ c[2] \in DOMAIN right
        /\ IF op = "and_not"
           THEN <<left[c[1]][1], right[c[2]][1]>> \in F /\ <<left[c[1]][2], right[c[2]][2]>> \notin G
           ELSE <<left[c[1]][1], right[c[2]][1]>> \in F \/ <<left[c[1]][2], right[c[2]][2]>> \in G
  <2>1. ASSUME NEW c PROVE c \in cells <=> RootCell(op, F, G, left, right, c)
    BY RootCellsAre
  <2> HIDE DEF cells
  <2> QED  BY <2>1 DEF RootCell
<1>4. \A z : Holds(new, Root, 1, z) <=>
        \E c \in cells : Holds(new, Left[Root], c[1], z) /\ Holds(new, Right[Root], c[2], z)
  <2>1. 1 \in DOMAIN new[Root] /\ new[Root][1] = cells
    OBVIOUS
  <2> HIDE DEF cells
  <2> QED  BY <1>1, <2>1, NodeHolds
<1> HIDE DEF fz, gz, cells
<1>5. ASSUME NEW z
      PROVE  Holds(new, Root, 1, z) <=> IF op = "and_not" THEN fz(z) /\ ~gz(z) ELSE fz(z) \/ gz(z)
  <2>1. ASSUME Holds(new, Root, 1, z) PROVE IF op = "and_not" THEN fz(z) /\ ~gz(z) ELSE fz(z) \/ gz(z)
    <3>1. PICK c \in cells : Holds(new, Left[Root], c[1], z) /\ Holds(new, Right[Root], c[2], z)
      BY <1>4, <2>1
    <3>2. c[1] \in DOMAIN left /\ c[2] \in DOMAIN right
      BY <1>3, <3>1
    <3>3. (fz(z) <=> <<left[c[1]][1], right[c[2]][1]>> \in F) /\ (gz(z) <=> <<left[c[1]][2], right[c[2]][2]>> \in G)
      BY <1>2, <3>1, <3>2
    <3> QED  BY <1>3, <3>1, <3>3
  <2>2. ASSUME IF op = "and_not" THEN fz(z) /\ ~gz(z) ELSE fz(z) \/ gz(z) PROVE Holds(new, Root, 1, z)
    <3>1. PICK l \in DOMAIN left, r \in DOMAIN right : Holds(new, Left[Root], l, z) /\ Holds(new, Right[Root], r, z)
      BY <1>2, <2>2
    <3>2. (fz(z) <=> <<left[l][1], right[r][1]>> \in F) /\ (gz(z) <=> <<left[l][2], right[r][2]>> \in G)
      BY <1>2, <3>1
    <3>3. <<l, r>> \in (DOMAIN left) \X (DOMAIN right) /\ <<l, r>>[1] = l /\ <<l, r>>[2] = r
      OBVIOUS
    <3>4. <<l, r>> \in cells
      BY <1>3, <2>2, <3>2, <3>3
    <3> QED  BY <1>4, <3>1, <3>3, <3>4
  <2> QED  BY <2>1, <2>2
<1>6. ASSUME op = "add", SharesCell(F, G, left, right) PROVE \E z \in Assignments : fz(z) /\ gz(z)
  <2>1. PICK l \in DOMAIN left, r \in DOMAIN right :
          <<left[l][2], right[r][2]>> \in G /\ <<left[l][1], right[r][1]>> \in F
    BY <1>6 DEF SharesCell, Cells, Under
  <2>2. l \in Slots(new, Left[Root]) /\ r \in Slots(new, Right[Root])
    BY DEF Pieced
  <2>3. NodesLive(new)
    <3>1. <<l, r>>[1] = l /\ <<l, r>>[2] = r /\ <<l, r>> \in (DOMAIN left) \X (DOMAIN right)
      OBVIOUS
    <3>2. <<l, r>> \in cells
      BY <1>3, <1>6, <2>1, <3>1
    <3>3. \A k \in DOMAIN new[Root] : new[Root][k] = cells
      BY DEF cells
    <3> QED  BY <3>2, <3>3 DEF NodesLive
  <2>4. Left[Root] \in Vtree /\ Right[Root] \in Vtree
    BY <1>1, InternalIs
  <2>5. PICK a \in Assignments : Holds(new, Left[Root], l, a)
    BY <2>2, <2>3, <2>4, SlotsLive
  <2>6. PICK b \in Assignments : Holds(new, Right[Root], r, b)
    BY <2>2, <2>3, <2>4, SlotsLive
  <2>7. PICK w \in Assignments : w \cap Scope[Left[Root]] = a \cap Scope[Left[Root]]
                                 /\ w \cap Scope[Right[Root]] = b \cap Scope[Right[Root]]
    <3>1. Left[Root] \in Children(Root) /\ Sibling(Left[Root]) = Right[Root]
      BY <1>1, SiblingOf DEF Children
    <3> DEFINE w == Spliced(Left[Root], a, Spliced(Sibling(Left[Root]), b, a))
    <3>2. /\ w \in Assignments /\ w \cap Scope[Left[Root]] = a \cap Scope[Left[Root]]
          /\ w \cap Scope[Sibling(Left[Root])] = b \cap Scope[Sibling(Left[Root])]
      BY <1>1, <3>1, SplicedIs
    <3> HIDE DEF w
    <3> QED  BY <3>1, <3>2
  <2>8. Holds(new, Left[Root], l, w) /\ Holds(new, Right[Root], r, w)
    BY <2>5, <2>6, <2>7 DEF Holds
  <2>9. fz(w) /\ gz(w)
    BY <1>2, <2>1, <2>8
  <2> QED  BY <2>9
<1>7. ASSUME op = "add", NEW z \in Assignments, fz(z), gz(z) PROVE SharesCell(F, G, left, right)
  <2>1. PICK l \in DOMAIN left, r \in DOMAIN right : Holds(new, Left[Root], l, z) /\ Holds(new, Right[Root], r, z)
    BY <1>2, <1>7
  <2>2. <<left[l][1], right[r][1]>> \in F /\ <<left[l][2], right[r][2]>> \in G
    BY <1>2, <1>7, <2>1
  <2>3. <<l, r>> \in (DOMAIN left) \X (DOMAIN right) /\ <<l, r>>[1] = l /\ <<l, r>>[2] = r
    OBVIOUS
  <2> QED  BY <2>2, <2>3 DEF SharesCell, Cells, Under
<1>8. RootHolds(op, f, g, new)
  BY <1>5 DEF RootHolds, fz, gz
<1>9. op = "add" => (SharesCell(F, G, left, right) <=> Meeting(f, g))
  BY <1>6, <1>7 DEF Meeting, fz, gz
<1> QED  BY <1>8, <1>9

\* Either of two diagrams, one and not the other, and their sum are exactly
\* that, in disjoint nodes that name each leaf in one form; and a sum is
\* refused exactly where the two share a model.
OverlayOf(op, F, G) == IF op = "and_not" THEN F \ G ELSE F \cup G

OverlayExact(op, f, g, made) ==
  /\ Splits(made.result) /\ NodesLive(made.result.levels)
  /\ Fn(made.result) = OverlayOf(op, Fn(f), Fn(g))
  /\ made.shared <=> op = "add" /\ Fn(f) \cap Fn(g) # {}

THEOREM OverlaysExact ==
  ASSUME NEW op \in {"or", "and_not", "add"}, NEW f, Splits(f), NodesLive(f.levels),
         NEW g, Splits(g), NodesLive(g.levels)
  PROVE  OverlayExact(op, f, g, Overlay(op, f, g))
<1> DEFINE made == Overlay(op, f, g)
<1> SUFFICES OverlayExact(op, f, g, made)
  OBVIOUS
<1>1. Splits(ConstantFalse) /\ NodesLive(ConstantFalse.levels) /\ Fn(ConstantFalse) = {}
  <2>1. Sound(ConstantFalse) /\ NodesLive(ConstantFalse.levels) /\ Fn(ConstantFalse) = {}
    BY ConstantsSound, ConstantFalseFn
  <2>2. ConstantFalse.levels = NoLevels
    BY DEF ConstantFalse, Seated, Diagram
  <2>3. \A t \in Internal : PairsAt(NoLevels, t) = {}
    BY DEF PairsAt, PairsOf, NoLevels
  <2>4. OneFormed(NoLevels)
    BY <2>3 DEF OneFormed, OneForm
  <2> QED  BY <2>1, <2>2, <2>4 DEF Splits
<1>2. \A d \in {f, g} : d.out = Zero => Fn(d) = {}
  BY FnHolds DEF Splits
<1>3. CASE f.out = Zero
  <2>1. made = [shared |-> FALSE, result |-> IF op = "and_not" THEN ConstantFalse ELSE g]
    BY <1>3 DEF Overlay
  <2>2. Fn(f) = {}
    BY <1>2, <1>3
  <2>3. OverlayExact(op, f, g, made)
    <3> HIDE DEF made
    <3>1. CASE op = "and_not"
      BY <1>1, <2>1, <2>2, <3>1 DEF OverlayOf, OverlayExact
    <3>2. CASE op # "and_not"
      BY <2>1, <2>2, <3>2 DEF OverlayOf, OverlayExact
    <3> QED  BY <3>1, <3>2
  <2> QED  BY <2>3
<1>4. CASE f.out # Zero /\ g.out = Zero
  <2>1. made = [shared |-> FALSE, result |-> f]
    BY <1>4 DEF Overlay
  <2>2. Fn(g) = {}
    BY <1>2, <1>4
  <2>3. OverlayExact(op, f, g, made)
    <3> HIDE DEF made
    <3> QED  BY <2>1, <2>2 DEF OverlayOf, OverlayExact
  <2> QED  BY <2>3
<1>5. CASE f.out # Zero /\ g.out # Zero
  <2> DEFINE over == OverlayBelow(op, f, g)
             left == over[Left[Root]].parts
             right == over[Right[Root]].parts
             F == f.levels[Root][f.out]
             G == g.levels[Root][g.out]
             cells == RootCells(op, F, G, left, right)
             new == OverlaidAs(over, cells)
             whole == Diagram(new, 1, Internal, Internal, Unknown, FALSE)
             shares == op = "add" /\ SharesCell(F, G, left, right)
  <2>1. made = [shared |-> shares, result |-> IF cells = {} THEN ConstantFalse ELSE whole]
    BY <1>5, TableIs DEF Overlay, OverlayLevels, OverlaidAs
  <2>2. cells \subseteq (DOMAIN over[Left[Root]].parts) \X (DOMAIN over[Right[Root]].parts)
    <3> HIDE DEF left, right, F, G
    <3>1. cells \subseteq (DOMAIN left) \X (DOMAIN right)
      <4>1. ASSUME NEW c \in cells PROVE RootCell(op, F, G, left, right, c)
        BY RootCellsAre
      <4> HIDE DEF cells
      <4>2. ASSUME NEW c \in cells PROVE c \in (DOMAIN left) \X (DOMAIN right)
        <5>1. c = <<c[1], c[2]>> /\ c[1] \in DOMAIN left /\ c[2] \in DOMAIN right
          BY <4>1 DEF RootCell
        <5> QED  BY <5>1
      <4> QED  BY <4>2
    <3> QED  BY <3>1 DEF left, right
  <2> HIDE DEF over, cells, new, shares
  <2>3. /\ InRange(new) /\ Deterministic(new) /\ OneFormed(new) /\ new[Root] = <<cells>>
        /\ \A t \in Internal \ {Root} : \A k \in DOMAIN new[t] : new[t][k] # {}
        /\ \A c \in Vtree \ {Root} : Pieced(op, f, g, over[c].parts, new, c)
    BY <2>2, OverlaySplits DEF over, new
  <2>4. Pieced(op, f, g, left, new, Left[Root]) /\ Pieced(op, f, g, right, new, Right[Root])
    <3>1. Left[Root] \in Vtree \ {Root} /\ Right[Root] \in Vtree \ {Root}
      BY RootIs, InternalIs
    <3> QED  BY <2>3, <3>1
  <2> HIDE DEF left, right, F, G
  <2>5. \A k \in DOMAIN new[Root] : new[Root][k] = cells
    BY <2>3
  <2>6. RootHolds(op, f, g, new) /\ (op = "add" => (SharesCell(F, G, left, right) <=> Meeting(f, g)))
    <3>1. new[Root] = <<RootCells(op, F, G, left, right)>>
      BY <2>3 DEF cells
    <3>0. InRange(new) /\ \A t \in Internal \ {Root} : \A k \in DOMAIN new[t] : new[t][k] # {}
      BY <2>3
    <3>2. F = f.levels[Root][f.out] /\ G = g.levels[Root][g.out]
      BY DEF F, G
    <3> QED  BY <1>5, <2>4, <3>0, <3>1, <3>2, OverlayRoot
  <2>7. \A z \in Assignments : /\ z \in Fn(f) <=> Holds(f.levels, Root, f.out, z)
                               /\ z \in Fn(g) <=> Holds(g.levels, Root, g.out, z)
    BY <1>5, FnHolds DEF Splits, Assignments
  <2>8. Fn(f) \subseteq Assignments /\ Fn(g) \subseteq Assignments
    BY FnHolds DEF Splits, Assignments
  <2>9. \A z \in Assignments : Holds(new, Root, 1, z) <=> z \in OverlayOf(op, Fn(f), Fn(g))
    <3>1. ASSUME NEW z \in Assignments
          PROVE  Holds(new, Root, 1, z) <=> IF op = "and_not" THEN z \in Fn(f) /\ z \notin Fn(g)
                                            ELSE z \in Fn(f) \/ z \in Fn(g)
      <4>1. Holds(new, Root, 1, z) <=>
              IF op = "and_not" THEN Holds(f.levels, Root, f.out, z) /\ ~Holds(g.levels, Root, g.out, z)
              ELSE Holds(f.levels, Root, f.out, z) \/ Holds(g.levels, Root, g.out, z)
        BY <2>6 DEF RootHolds
      <4>2. /\ z \in Fn(f) <=> Holds(f.levels, Root, f.out, z)
            /\ z \in Fn(g) <=> Holds(g.levels, Root, g.out, z)
        BY <2>7
      <4> QED  BY <4>1, <4>2
    <3> QED  BY <3>1 DEF OverlayOf
  <2>10. shares <=> op = "add" /\ Fn(f) \cap Fn(g) # {}
    <3>1. Meeting(f, g) <=> Fn(f) \cap Fn(g) # {}
      <4>1. ASSUME NEW z \in Assignments
            PROVE  z \in Fn(f) \cap Fn(g) <=> Holds(f.levels, Root, f.out, z) /\ Holds(g.levels, Root, g.out, z)
        BY <2>7
      <4>2. Meeting(f, g) <=> \E z \in Assignments : z \in Fn(f) \cap Fn(g)
        BY <4>1 DEF Meeting
      <4> QED  BY <2>8, <4>2
    <3> QED  BY <2>6, <3>1 DEF shares
  <2>11. OverlayOf(op, Fn(f), Fn(g)) \subseteq Assignments
    BY <2>8 DEF OverlayOf, OverlayExact
  <2> HIDE DEF whole
  <2>12. CASE cells = {}
    <3>1. \A z : ~Holds(new, Root, 1, z)
      <4>1. 1 \in DOMAIN new[Root] /\ new[Root][1] = {}
        BY <2>3, <2>12
      <4> QED  BY <2>3, <4>1, NodeHolds, RootIs
    <3>2. OverlayOf(op, Fn(f), Fn(g)) = {}
      BY <2>9, <2>11, <3>1
    <3>3. made = [shared |-> shares, result |-> ConstantFalse]
      BY <2>1, <2>12
    <3> HIDE DEF made
    <3>4. made.result = ConstantFalse /\ made.shared = shares
      BY <3>3
    <3> QED  BY <1>1, <2>10, <3>2, <3>4 DEF OverlayExact
  <2>13. CASE cells # {}
    <3>1. made = [shared |-> shares, result |-> whole]
      BY <2>1, <2>13
    <3>2. whole.levels = new /\ whole.out = 1
      BY DEF whole, Diagram
    <3>3. Sound(whole)
      <4>1. 1 \in {Zero} \cup DOMAIN new[Root]
        BY <2>3
      <4> QED  BY <2>3, <4>1, SoundDiagram DEF whole
    <3>4. NodesLive(new)
      BY <2>3, <2>5, <2>13 DEF NodesLive
    <3>5. Fn(whole) = OverlayOf(op, Fn(f), Fn(g))
      <4>1. /\ Fn(whole) \subseteq Assignments
            /\ \A z \in Assignments : z \in Fn(whole) <=> Holds(new, Root, 1, z)
        <5>1. whole.out # Zero
          BY <3>2 DEF Zero
        <5> QED  BY <3>2, <3>3, <5>1, FnHolds DEF Assignments
      <4> QED  BY <2>9, <2>11, <4>1
    <3> HIDE DEF made
    <3>6. made.result = whole /\ made.shared = shares
      BY <3>1
    <3> QED  BY <2>3, <2>10, <3>2, <3>3, <3>4, <3>5, <3>6 DEF Splits, OverlayExact
  <2> QED  BY <2>12, <2>13
<1>6. OverlayExact(op, f, g, made)
  BY <1>3, <1>4, <1>5
<1> QED  BY <1>6
===================================================================================
