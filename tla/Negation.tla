------------------------------- MODULE Negation -------------------------------
(***************************************************************************)
(* Negation and conditioning of a structural diagram, up to the reduction  *)
(* each ends with (apply/negate.rs, apply/condition.rs, apply/falsity.rs). *)
(***************************************************************************)
EXTENDS Diagrams

(***************************************************************************)
(* Completing a level: one fill node holds the cells no node covers.       *)
(***************************************************************************)
\* level_form, ChildBasis::of: a leaf is named as One throughout a level, or
\* by its polarities.
Basis(levels, c, pairs) ==
  IF c \notin Leaf THEN DOMAIN levels[c]
  ELSE IF \E p \in pairs : p[Side(c)] = One THEN {One} ELSE {Pos, Neg}

\* Mutant: the fill is written by polarities whatever the level's form.
MissingByLiterals(levels, t, pairs) ==
  LET basis(c) == IF c \in Leaf THEN {Pos, Neg} ELSE DOMAIN levels[c]
  IN  (basis(Left[t]) \X basis(Right[t])) \ pairs

\* Cover::missing_into, fill_lines_into
Missing(levels, t, pairs) ==
  (Basis(levels, Left[t], pairs) \X Basis(levels, Right[t], pairs)) \ pairs

Fill(levels, t) == Missing(levels, t, PairsAt(levels, t))

\* A level over children already completed.
FullLevel(d, t, left, right) ==
  LET with(levels, c, level) == IF c \in Leaf THEN levels ELSE [levels EXCEPT ![c] = level]
      cells == Fill(with(with(d.levels, Left[t], left), Right[t], right), t)
  IN  IF t = Root \/ cells = {} THEN d.levels[t] ELSE Append(d.levels[t], cells)

\* expand_full: bottom-up over every level but the root.
ExpandFull(d) ==
  LET full[t \in Leaf \cup Internal] ==
        IF t \in Leaf THEN <<>> ELSE FullLevel(d, t, full[Left[t]], full[Right[t]])
  IN  Table([t \in Internal |-> full[t]])

Filled(d, levels) == {t \in Internal : levels[t] # d.levels[t]}

\* Mutant: only the root is owed to the contraction.
OwesRootOnly(d, levels) == {Root}

\* Owed::of: the root, and the filled levels that may have given two nodes of
\* a child equal contexts.
Owes(d, levels) ==
  LET mayBeLoose(c) == c \notin Leaf /\ ~d.certified /\ (d.loose = Unknown \/ c \in d.loose)
  IN  {Root} \cup {t \in Filled(d, levels) \ {Root} :
                     (\E c \in Children(t) : mayBeLoose(c)) \/ Len(levels[t]) = 1}

\* complement_on: the complement beside the old output, with the old output's
\* slot (0 where there is none).
Complement(d) ==
  IF d.out = Zero THEN [result |-> ConstantTrue, old |-> 0]
  ELSE LET levels == ExpandFull(d)
           alive(p) == /\ Left[Root] \in Leaf \/ levels[Left[Root]][p[1]] # {}
                       /\ Right[Root] \in Leaf \/ levels[Right[Root]][p[2]] # {}
           cells  == {p \in Missing(levels, Root, levels[Root][d.out]) : alive(p)}
           owed   == Owes(d, levels)
       IN  IF cells = {} THEN [result |-> ConstantFalse, old |-> 0]
           ELSE [result |-> Diagram([levels EXCEPT ![Root] = Append(@, cells)], Len(levels[Root]) + 1,
                                    d.contract \cup owed, d.leaves \cup owed, Children(Root) \ Leaf, FALSE),
                 old |-> d.out]

(***************************************************************************)
(* Conditioning.                                                           *)
(***************************************************************************)
\* Mutant: the other polarity is kept.
CofactorOfOther(pairs, c, value) ==
  {q \in pairs : q[Side(c)] # (IF value THEN Pos ELSE Neg)}

\* rewrite_for_restrict, one node's pairs.
Cofactor(pairs, c, value) ==
  {Renamed(p, c, One) : p \in {q \in pairs : q[Side(c)] # (IF value THEN Neg ELSE Pos)}}

Restricted(d, c, value) ==
  LET p == Parent[c]
      level == d.levels[p]
  IN  IF level = <<>> THEN d
      ELSE [Invalidate(d, {p}) EXCEPT
              !.levels = [@ EXCEPT ![p] = [k \in DOMAIN level |-> Cofactor(level[k], c, value)]]]

\* A level less the pairs that name a node the levels below left empty.
LivePairs(level, t, left, right) ==
  [k \in DOMAIN level |-> {p \in level[k] : /\ Left[t] \in Leaf \/ left[p[1]] # {}
                                            /\ Right[t] \in Leaf \/ right[p[2]] # {}}]

\* Mutant: the pairs of the level above an emptied node are the last dropped.
FalseNodesDroppedOnce(levels) ==
  LET at(c) == IF c \in Leaf THEN <<>> ELSE levels[c]
  IN  [t \in Internal |-> LivePairs(levels[t], t, at(Left[t]), at(Right[t]))]

\* propagate_false_nodes: bottom-up, the pairs naming a node left empty.
FalseNodesDropped(levels) ==
  LET live[t \in Leaf \cup Internal] ==
        IF t \in Leaf THEN <<>> ELSE Table(LivePairs(levels[t], t, live[Left[t]], live[Right[t]]))
  IN  Table([t \in Internal |-> live[t]])

PropagateFalse(d) ==
  LET levels == FalseNodesDropped(d.levels)
      swept  == {t \in Internal : \E c \in Children(t) \ Leaf : {} \in {levels[c][i] : i \in DOMAIN levels[c]}}
  IN  [Invalidate(d, {t \in swept : levels[t] # <<>>}) EXCEPT
         !.levels = levels,
         !.out = IF levels[Root][@] = {} THEN Zero ELSE @]

Emptied(d, e) == \E t \in Internal : \E k \in DOMAIN e.levels[t] : e.levels[t][k] = {} /\ d.levels[t][k] # {}

\* condition_targets up to the reduction, for one literal.
Condition(d, c, value) ==
  IF d.out = Zero THEN d
  ELSE LET cut == Restricted(d, c, value)
       IN  IF Emptied(d, cut) THEN PropagateFalse(cut) ELSE cut
===============================================================================
