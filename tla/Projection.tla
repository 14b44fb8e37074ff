----------------------------- MODULE Projection -----------------------------
(***************************************************************************)
(* Existential quantification of variables from a structural diagram       *)
(* (apply/project), up to the reduction it ends with: one sweep up the     *)
(* vtree, in place, that gives each level one of three roles by how many   *)
(* of its leaves are quantified, and hands each level above a map of where *)
(* every node went.                                                        *)
(***************************************************************************)
EXTENDS Pruning, SequencesExt

Role(t, targets) == LET vars == VarsBelow(t)
                    IN  IF vars \subseteq targets THEN "Whole"
                        ELSE IF vars \cap targets = {} THEN "Free" ELSE "Split"

\* A level as its parent reads it: whether its nodes went anywhere, to which
\* cells each, and whether the sweep wrote it.
Visited(level, moved, to, wrote) == [level |-> level, moved |-> moved, to |-> to, wrote |-> wrote]

LeftAlone(levels, t) ==
  Visited(IF t \in Leaf THEN <<>> ELSE levels[t], FALSE, [i \in Slots(levels, t) |-> {i}], FALSE)

\* Mutant: a level a fused conjunction collapsed counts as unchanged.
MovesUncollapsed(width, collapsed) == width # 1

\* The shortcut of a level that held one node is off where a fused
\* conjunction has already collapsed it.
Moves(width, collapsed) == width # 1 \/ collapsed

\* free_subtree_level
FreeSubtreeLevel(levels, t, wanted, collapsed) ==
  IF t \in Leaf
  THEN Visited(<<>>, wanted, [i \in {Pos, Neg, One} |-> IF wanted THEN {One} ELSE {i}], FALSE)
  ELSE LET moved == wanted /\ Moves(Len(levels[t]), collapsed)
       IN  Visited(<<{TruePair(t)}>>, moved,
                   [i \in DOMAIN levels[t] |-> IF moved THEN {1} ELSE {i}], TRUE)

(***************************************************************************)
(* Regrouping a level over the cells its children became.                  *)
(***************************************************************************)
Atoms(pair, left, right) == left.to[pair[1]] \X right.to[pair[2]]

\* Every atom of a level with where the scan reaches it: node by node, pair by
\* pair, each pair's atoms by left and then right side.
Scan(level, left, right) ==
  UNION {UNION {{<<g, p[1], p[2], a[1], a[2]>> : a \in Atoms(p, left, right)} : p \in level[g]} :
           g \in DOMAIN level}

Before(x, y) == \E k \in 1 .. 5 : x[k] < y[k] /\ \A j \in 1 .. k - 1 : x[j] = y[j]

AtomOf(x) == <<x[4], x[5]>>

\* Mutant: an atom belongs to the node the scan first finds it in.
OwnersFirst(scan, atom) == {Min({x[1] : x \in {y \in scan : AtomOf(y) = atom}})}

\* The nodes that contribute an atom.
Owners(scan, atom) == {x[1] : x \in {y \in scan : AtomOf(y) = atom}}

\* Mutant: as many cells as nodes is enough.
KeptByCount(owners, width) == Cardinality(owners) = width

\* Every node one cell of its own.
Kept1(owners, width) == Cardinality(owners) = width /\ \A o \in owners : Cardinality(o) = 1

\* regroup: atoms owned by the same nodes become one cell, the cells in the
\* order the scan reaches them; a node's cells are those it owns.  A
\* partition that did not change moves nothing.
Regrouped(level, scan) ==
  LET of     == Table([atom \in {AtomOf(x) : x \in scan} |-> Owners(scan, atom)])
      owners == {of[atom] : atom \in DOMAIN of}
      first  == [o \in owners |->
                   LET reached == {x \in scan : of[AtomOf(x)] = o}
                   IN  CHOOSE x \in reached : \A y \in reached : x = y \/ Before(x, y)]
      order  == SetToSortSeq(owners, LAMBDA o, q : Before(first[o], first[q]))
      moved  == Len(level) # 1 /\ ~Kept1(owners, Len(level))
  IN  Visited([k \in DOMAIN order |-> {atom \in DOMAIN of : of[atom] = order[k]}], moved,
              [g \in DOMAIN level |-> {k \in DOMAIN order : g \in order[k]}], TRUE)

Regroup(level, left, right) == Regrouped(level, Scan(level, left, right))

(***************************************************************************)
(* The sweep.                                                              *)
(***************************************************************************)
SweepUp(levels, targets, collapsed) ==
  LET sweep[t \in Leaf \cup Internal] ==
        CASE Role(t, targets) = "Free" -> LeftAlone(levels, t)
          [] Role(t, targets) = "Whole" ->
               FreeSubtreeLevel(levels, t, t # Root /\ Role(Parent[t], targets) = "Split", collapsed)
          [] OTHER -> LET left  == sweep[Left[t]]
                          right == sweep[Right[t]]
                      IN  IF (left.moved \/ right.moved) /\ levels[t] # <<>>
                          THEN Regroup(levels[t], left, right)
                          ELSE LeftAlone(levels, t)
  IN  Table(sweep)

\* Mutant: a level rewritten where no node of it moved is not listed.
WrittenMoved(sweep) == {t \in Internal : sweep[t].moved}

\* The levels the sweep wrote, and the root if its output is a new node.
Written(sweep) == {t \in Internal : sweep[t].wrote} \cup (IF sweep[Root].moved THEN {Root} ELSE {})

\* The output's cells are united in a node appended to the root.  No level
\* holds an unnamed node that did not before, so the list of loose levels is
\* kept.
Swept(d, sweep) ==
  LET levels == [t \in Internal |-> sweep[t].level]
      union  == UNION {levels[Root][k] : k \in sweep[Root].to[d.out]}
      after  == Invalidate(d, Written(sweep))
  IN  IF sweep[Root].moved
      THEN [after EXCEPT !.levels = Table([levels EXCEPT ![Root] = Append(@, union)]),
                         !.out = Len(levels[Root]) + 1, !.loose = d.loose]
      ELSE [after EXCEPT !.levels = Table(levels), !.loose = d.loose]

\* An operand that owes its passes is pruned first.
SettledFirst(d) == IF d.contract # {} \/ d.leaves # {} THEN Prune(d, FALSE) ELSE d

SweptSettled(d, targets, collapsed) == Swept(d, SweepUp(d.levels, targets, collapsed))

\* exists_leaves_structural, before its reduction; `reduces` where it runs one.
Project(d, targets, collapsed) ==
  IF targets = {} \/ d.out = Zero THEN [result |-> d, reduces |-> FALSE]
  ELSE IF Leaf \subseteq targets THEN [result |-> ConstantTrue, reduces |-> FALSE]
  ELSE [result |-> SweptSettled(SettledFirst(d), targets, collapsed), reduces |-> TRUE]
==============================================================================
