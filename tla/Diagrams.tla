------------------------------- MODULE Diagrams -------------------------------
(***************************************************************************)
(* A structural TDD as a value (diagram/tdd, diagram/level, build.rs): per *)
(* internal vtree level a sequence of nodes, each a set of pairs naming a  *)
(* node of either child; the output's slot at the root; and what the       *)
(* diagram owes its reduction passes.                                      *)
(*                                                                         *)
(* What a node is one of many stored forms of (inline pair, arena range,   *)
(* described level) is left out: slots, pairs and names are kept.  Slots   *)
(* are counted from 1 here.                                                *)
(***************************************************************************)
EXTENDS Integers, Sequences, FiniteSets, FiniteSetsExt, TLC

CONSTANTS Leaf, Internal,    \* a vtree's nodes: numbers, children before parents
          Left, Right        \* children of the internal nodes

ASSUME VtreeAssumption ==
  /\ Leaf \subseteq Nat /\ Internal \subseteq Nat /\ Internal # {} /\ Leaf \cap Internal = {}
  /\ IsFiniteSet(Leaf) /\ IsFiniteSet(Internal)
  /\ Left \in [Internal -> Leaf \cup Internal] /\ Right \in [Internal -> Leaf \cup Internal]
  /\ \A t \in Internal : Left[t] # Right[t] /\ Left[t] < t /\ Right[t] < t
  /\ \A t, u \in Internal : t # u => {Left[t], Right[t]} \cap {Left[u], Right[u]} = {}
  /\ \A c \in Leaf \cup Internal :
       \/ \E t \in Internal : c \in {Left[t], Right[t]}
       \/ c \in Internal /\ \A t \in Internal : t <= c

Root     == CHOOSE t \in Internal : \A u \in Internal : u <= t
Children(t) == {Left[t], Right[t]}
Parent   == [c \in UNION {Children(t) : t \in Internal} |->
               CHOOSE t \in Internal : c \in Children(t)]
Sibling(c)  == CHOOSE s \in Children(Parent[c]) : s # c
\* Which half of a parent's pair names c.
Side(c)     == IF Left[Parent[c]] = c THEN 1 ELSE 2

\* The pair with c's half replaced.
Renamed(pair, c, ref) == IF Side(c) = 1 THEN <<ref, pair[2]>> ELSE <<pair[1], ref>>

\* The implicit nodes of a leaf level.
Pos == 1
Neg == 2
One == 3

\* TRUE_PAIR: constant true over children that hold one node, or are leaves.
TruePair(t) == LET top(c) == IF c \in Leaf THEN One ELSE 1 IN <<top(Left[t]), top(Right[t])>>

Zero    == 0       \* the output sentinel of constant false
Unknown == {-1}    \* the loose levels of a diagram that does not know them

Slots(levels, t) == IF t \in Leaf THEN {Pos, Neg, One} ELSE DOMAIN levels[t]
PairsOf(level) == UNION {level[i] : i \in DOMAIN level}
PairsAt(levels, t) == PairsOf(levels[t])
Named(levels, c) == {p[Side(c)] : p \in PairsAt(levels, Parent[c])}
NamedFrom(levels, c, above) == {p[Side(c)] : p \in UNION {levels[Parent[c]][i] : i \in above}}

\* Tdd with its Dirty: `contract` and `leaves` are the levels listed for the
\* two passes, a list read only as a set; `loose` and `certified` are
\* Dirty::loose and Levels::canonical_output.
Diagram(levels, out, contract, leaves, loose, certified) ==
  [levels |-> levels, out |-> out, contract |-> contract, leaves |-> leaves,
   loose |-> loose, certified |-> certified]

\* The function itself, its values computed once.
Table(f) == CHOOSE g \in {f} : g = f

NoLevels == [t \in Internal |-> <<>>]

(***************************************************************************)
(* What a diagram computes: the sets of variables set to true that satisfy *)
(* it.                                                                     *)
(***************************************************************************)
Joined(a, b) == {x[1] \cup x[2] : x \in a \X b}

Models(levels, out) ==
  LET below[t \in Leaf \cup Internal] ==
        IF t \in Leaf THEN <<{{t}}, {{}}, {{}, {t}}>>
        ELSE [i \in DOMAIN levels[t] |->
                UNION {Joined(below[Left[t]][p[1]], below[Right[t]][p[2]]) : p \in levels[t][i]}]
  IN  IF out = Zero THEN {} ELSE below[Root][out]

Fn(d) == Models(d.levels, d.out)

\* The count a bottom-up walk takes: sums over pairs of products.
SumOver(S, f(_)) == SumFunctionOnSet([x \in S |-> f(x)], S)

Count(d) ==
  LET below[t \in Leaf \cup Internal] ==
        IF t \in Leaf THEN <<1, 1, 2>>
        ELSE [i \in DOMAIN d.levels[t] |->
                SumOver(d.levels[t][i], LAMBDA p : below[Left[t]][p[1]] * below[Right[t]][p[2]])]
  IN  IF d.out = Zero THEN 0 ELSE below[Root][d.out]

\* The classes of assignments below t that leave the same satisfiable residual.
VarsBelow(t) == LET vars[u \in Leaf \cup Internal] ==
                      IF u \in Leaf THEN {u} ELSE vars[Left[u]] \cup vars[Right[u]]
                IN  vars[t]

Residuals(f, t) ==
  LET vars == VarsBelow(t)
      parts == {<<m \cap vars, m \ vars>> : m \in f}
  IN  {{q[2] : q \in {p \in parts : p[1] = a}} : a \in {p[1] : p \in parts}}

OneNodeAClass(d) == \A t \in Internal : Len(d.levels[t]) = Cardinality(Residuals(Fn(d), t))

(***************************************************************************)
(* What every operation may rely on, and a builder's author must keep      *)
(* (diagram/mod.rs, TddBuilder).                                           *)
(***************************************************************************)
\* Every reference is to a slot of the child's level.
InRange(levels) ==
  /\ levels \in [Internal -> Seq(SUBSET (Nat \X Nat))]
  /\ \A t \in Internal : \A i \in DOMAIN levels[t] :
       levels[t][i] \subseteq Slots(levels, Left[t]) \X Slots(levels, Right[t])

WellFormed(d) ==
  /\ d = Diagram(d.levels, d.out, d.contract, d.leaves, d.loose, d.certified)
  /\ InRange(d.levels)
  /\ d.out \in {Zero} \cup DOMAIN d.levels[Root]
  /\ d.contract \subseteq Internal /\ d.leaves \subseteq Internal
  /\ d.loose = Unknown \/ d.loose \subseteq Internal \ {Root}
  /\ d.certified \in BOOLEAN

\* check_determinism: the nodes of a level are disjoint, and a level names a
\* leaf as One everywhere or nowhere, so that different pairs are disjoint too.
\* The root's other nodes are not the diagram's.
Deterministic(levels) ==
  /\ \A t \in Internal \ {Root} : \A i, j \in DOMAIN levels[t] :
       i # j => levels[t][i] \cap levels[t][j] = {}
  /\ \A t \in Internal : \A i, j \in DOMAIN levels[t] :
       t # Root \/ i = j =>
         \A c \in Children(t) \cap Leaf : \A p \in levels[t][i], q \in levels[t][j] :
           p[Side(c)] = One <=> q[Side(c)] = One

\* check_levels: no node is empty.  Every node is then satisfiable.
NodesLive(levels) == \A t \in Internal : \A i \in DOMAIN levels[t] : levels[t][i] # {}

(***************************************************************************)
(* Reachability, contexts and the canonical form.                          *)
(***************************************************************************)
\* The slots of every internal level the output reaches.
Reached(levels, out) ==
  LET reach[t \in Internal] ==
        IF t = Root THEN {out} \ {Zero}
        ELSE NamedFrom(levels, t, reach[Parent[t]])
  IN  Table(reach)

AllReached(d) == \A t \in Internal : Reached(d.levels, d.out)[t] = DOMAIN d.levels[t]

\* Where a node is named from: the node of the parent and the sibling's slot.
Context(levels, c, i) ==
  LET p == Parent[c]
  IN  UNION {{<<k, pair[3 - Side(c)]>> : pair \in {q \in levels[p][k] : q[Side(c)] = i}} :
               k \in DOMAIN levels[p]}

\* Of some nodes of a level, the groups some pair names from the same places.
Groups(levels, c, among) ==
  LET placed == {x \in {<<i, Context(levels, c, i)>> : i \in among} : x[2] # {}}
  IN  {{y[1] : y \in {z \in placed : z[2] = x[2]}} : x \in placed}

HasTwins(levels, c, among) == \E group \in Groups(levels, c, among) : Cardinality(group) > 1

TwinFreeAt(levels, p) == \A c \in Children(p) \ Leaf : ~HasTwins(levels, c, DOMAIN levels[c])

\* contract_leaf.rs: a node names the leaf as One only, or pairs the leaf's
\* two polarities with the same slots.
Partners(pairs, c, ref) == {p[3 - Side(c)] : p \in {q \in pairs : q[Side(c)] = ref}}
Admits(pairs, c) == \/ Partners(pairs, c, Pos) = {} /\ Partners(pairs, c, Neg) = {}
                    \/ Partners(pairs, c, Pos) = Partners(pairs, c, Neg) /\ Partners(pairs, c, One) = {}

LeafTwins(levels, c) ==
  LET p == Parent[c]
  IN  /\ \A i \in DOMAIN levels[p] : Admits(levels[p][i], c)
      /\ Named(levels, c) \cap {Pos, Neg} # {}

LeafTwinFreeAt(levels, p) == \A c \in Children(p) \cap Leaf : ~LeafTwins(levels, c)

Canonical(d) ==
  /\ AllReached(d)
  /\ \A t \in Internal : TwinFreeAt(d.levels, t) /\ LeafTwinFreeAt(d.levels, t)

\* Levels holding a node no pair of the level above names.
HasUnnamed(d) == {t \in Internal \ {Root} : DOMAIN d.levels[t] # Named(d.levels, t)}

\* seed_worklists, seat_canonical: a new diagram is owed work at every level, or
\* certified.  A level off a worklist owes nothing, here or after any call.
Tidy(d) ==
  /\ \A t \in Internal : /\ t \notin d.contract => TwinFreeAt(d.levels, t)
                         /\ t \notin d.leaves => LeafTwinFreeAt(d.levels, t)
  /\ d.loose # Unknown => HasUnnamed(d) \subseteq d.loose
  /\ d.certified => Canonical(d)

(***************************************************************************)
(* Keeping some nodes of every level, renumbered in order.                 *)
(***************************************************************************)
Rank(kept, i) == Cardinality({j \in kept : j <= i})
Ascending(kept) == [k \in 1 .. Cardinality(kept) |-> CHOOSE i \in kept : Rank(kept, i) = k]

\* compact_one_level: references into a compacted child become ranks.
Compact(levels, kept) ==
  LET to(c, ref) == IF c \in Leaf THEN ref ELSE Rank(kept[c], ref)
  IN  [t \in Internal |->
         LET order == Ascending(kept[t])
         IN  [k \in DOMAIN order |->
                {<<to(Left[t], p[1]), to(Right[t], p[2])>> : p \in levels[t][order[k]]}]]

\* Tdd::invalidate: every pass is owed the level, and any mutable access has
\* withdrawn the certificate.  Dirty::push_all also forgets the loose levels.
Invalidate(d, changed) ==
  IF changed = {} THEN d
  ELSE [d EXCEPT !.contract = @ \cup changed, !.leaves = @ \cup changed,
                 !.loose = Unknown, !.certified = FALSE]

(***************************************************************************)
(* Built diagrams (build.rs): canonical, owing nothing.                    *)
(***************************************************************************)
\* seat_canonical
Seated(levels, out) == Diagram(levels, out, {}, {}, {}, TRUE)

\* cube_levels: one node a level; `label` names Pos, Neg or One per leaf.
Cube(label) ==
  LET at(c) == IF c \in Leaf THEN label[c] ELSE 1
  IN  Seated([t \in Internal |-> <<{<<at(Left[t]), at(Right[t])>>}>>], 1)

ConstantTrue  == Cube([v \in Leaf |-> One])
ConstantFalse == Seated(NoLevels, Zero)
===============================================================================
