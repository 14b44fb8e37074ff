----------------------------- MODULE Contraction -----------------------------
(***************************************************************************)
(* Twin contraction (reduce/contract): merging the nodes of a level that   *)
(* are named from the same places, and the two polarities of a leaf that   *)
(* are.  One operator per search or rewrite; Reduction drives them.        *)
(***************************************************************************)
EXTENDS Diagrams

MultiPair(levels, p) == \E i \in DOMAIN levels[p] : Cardinality(levels[p][i]) > 1

\* contract_child's early returns.
Searched(d, c) == c \notin Leaf /\ Len(d.levels[c]) > 1 /\ MultiPair(d.levels, Parent[c])

IsNamed(levels, c, i) == Context(levels, c, i) # {}

\* Where each node of c goes in a merge of the twins among some of them: a
\* group to its first.
Keeper(levels, c, among) ==
  LET groups == Groups(levels, c, among)
  IN  Table([i \in DOMAIN levels[c] |->
               IF \E group \in groups : i \in group
               THEN Min(CHOOSE group \in groups : i \in group) ELSE i])

\* The survivors of a merge, where they end up, and the pairs they take.
Survivors(keeper, dropped) == {i \in DOMAIN keeper : keeper[i] = i} \ dropped

\* Mutant: the parent's pairs keep naming the slots before the merge.
MovedNowhere(keeper, dropped, i) == keeper[i]

Moved(keeper, dropped, i) == Rank(Survivors(keeper, dropped), keeper[i])

\* Mutant: a keeper's pairs are its own.
UnitedOwn(levels, c, keeper, i) == levels[c][i]

United(levels, c, keeper, i) ==
  UNION {levels[c][j] : j \in {m \in DOMAIN keeper : keeper[m] = i}}

\* Dropped nodes may have been the last to name one below: contract_twins
\* takes the loose levels aside and adds the children of c.
LooseAfter(d, c, dropped) ==
  IF d.loose = Unknown \/ dropped = {} THEN d.loose ELSE d.loose \cup (Children(c) \ Leaf)

\* contract_twins: the groups' pairs unite in their keepers, the nodes in
\* `dropped` go, and the parent's pairs follow.
ContractTwins(d, c, among, dropped) ==
  LET levels == d.levels
      p      == Parent[c]
      keeper == Keeper(levels, c, among)
      order  == Ascending(Survivors(keeper, dropped))
      moved(pair) == Renamed(pair, c, Moved(keeper, dropped, pair[Side(c)]))
  IN  [Invalidate(d, {c, p}) EXCEPT
         !.levels = [levels EXCEPT
           ![c] = [k \in DOMAIN order |-> United(levels, c, keeper, order[k])],
           ![p] = [k \in DOMAIN levels[p] |-> {moved(pair) : pair \in levels[p][k]}]],
         !.loose = LooseAfter(d, c, dropped)]

Unnamed(levels, c) == {i \in DOMAIN levels[c] : ~IsNamed(levels, c, i)}

\* What a whole search may report beside the twins: unnamed nodes to drop, two
\* or more of them, and whether it knows every other node is named ("tight").
\* Which of its routes it takes (a screen that stops at no shared context,
\* fingerprints, refinement) depends on hashes and widths.
Findings(d, c) ==
  LET unnamed == Unnamed(d.levels, c)
      listed  == IF Cardinality(unnamed) >= 2 THEN unnamed ELSE {}
      screen  == IF HasTwins(d.levels, c, DOMAIN d.levels[c]) THEN {}
                 ELSE {[dropped |-> {}, tight |-> FALSE]}
  IN  screen \cup {[dropped |-> listed, tight |-> FALSE],
                   [dropped |-> listed, tight |-> Cardinality(unnamed) # 1]}

ListedFindings == {[dropped |-> {}, tight |-> FALSE]}

\* contract_child, having searched the nodes `among`.
ContractChild(d, c, among, finding) ==
  LET fires  == HasTwins(d.levels, c, among) \/ finding.dropped # {}
      merged == IF fires THEN ContractTwins(d, c, among, finding.dropped) ELSE d
  IN  IF finding.tight /\ d.loose # Unknown THEN [merged EXCEPT !.loose = @ \ {c}] ELSE merged

Fires(d, c, among, finding) ==
  Searched(d, c) /\ (HasTwins(d.levels, c, among) \/ finding.dropped # {})

(***************************************************************************)
(* The polarities of a leaf (contract_leaf.rs).                            *)
(***************************************************************************)
\* try_contract_leaf_twins: Pos and Neg with equal partners become One.
ContractLeaf(d, c) ==
  LET p == Parent[c]
      level == d.levels[p]
  IN  IF LeafTwins(d.levels, c)
      THEN [Invalidate(d, {p}) EXCEPT
              !.levels = [@ EXCEPT ![p] = [k \in DOMAIN level |->
                                             {Renamed(pair, c, One) : pair \in level[k]}]]]
      ELSE d

LeavesOf(t) == Children(t) \cap Leaf

\* contract_leaf_sides: left, then right.
ContractLeafSides(d, t) ==
  LET left == IF Left[t] \in Leaf THEN ContractLeaf(d, Left[t]) ELSE d
  IN  IF Right[t] \in Leaf THEN ContractLeaf(left, Right[t]) ELSE left
===============================================================================
