----------------------------- MODULE Conjunction -----------------------------
(***************************************************************************)
(* The conjunction of two structural diagrams (apply/conjoin): one sweep   *)
(* up the vtree forms the products of the operands' nodes, a level at a    *)
(* time, and says which of the levels it wrote the reduction must look at. *)
(*                                                                         *)
(* The dense, sparse, streamed and described routes to a built level all   *)
(* leave the same products in the same order: they are one operator here.  *)
(***************************************************************************)
EXTENDS Pruning

\* CONJOIN_GRID: the products of the implicit leaf nodes, 0 where false.
LeafProduct(a, b) == IF a = One THEN b ELSE IF b = One \/ a = b THEN a ELSE 0

\* init_leaf_identity_over: no pair of the diagram names a polarity of c.
LeafIdentity(d, c) == Named(d.levels, c) \cap {Pos, Neg} = {}

SinglePair(level) == Len(level) = 1 /\ Cardinality(level[1]) = 1

(***************************************************************************)
(* The sweep: for every vtree node, whether either operand is constant     *)
(* true over it, which operand's level was carried over (0: built), the    *)
(* level, and the slot of every product.                                   *)
(***************************************************************************)
\* The products of the nodes of f and of g, in row order.
ProductAt(G, m) == <<((m - 1) \div Len(G)) + 1, ((m - 1) % Len(G)) + 1>>

ProductPairs(l, r, node1, node2) ==
  LET met(pq) == <<l[<<pq[1][1], pq[2][1]>>], r[<<pq[1][2], pq[2][2]>>]>>
  IN  {met(pq) : pq \in {x \in node1 \X node2 : met(x)[1] # 0 /\ met(x)[2] # 0}}

\* Mutant: the left child's identity is enough to carry a level.
IdentityOnLeft(level, left, right) == Len(level) = 1 /\ left

\* A level one node wide over two children the operand is constant true over.
IdentityLevel(level, left, right) == Len(level) = 1 /\ left /\ right

\* build_level_quantified: a level of quantified leaves is constant true where
\* some product is not false.
QuantifiedLevel(grid, t) ==
  LET live == {ij \in DOMAIN grid : grid[ij] # {}}
  IN  [fIs |-> FALSE, gIs |-> FALSE, carrier |-> 0,
       level |-> IF live = {} THEN <<>> ELSE <<{TruePair(t)}>>,
       at |-> [ij \in DOMAIN grid |-> IF ij \in live THEN 1 ELSE 0]]

\* A leaf's implicit nodes and their products.
SweptLeaf(f, g, t) ==
  [fIs |-> LeafIdentity(f, t), gIs |-> LeafIdentity(g, t), carrier |-> 0, level |-> <<>>,
   at |-> [ij \in {Pos, Neg, One} \X {Pos, Neg, One} |-> LeafProduct(ij[1], ij[2])]]

\* A level of every product that is not false.
BuiltLevel(F, G, pairs) ==
  LET order == Ascending({m \in 1 .. Len(F) * Len(G) : pairs[ProductAt(G, m)] # {}})
  IN  [fIs |-> FALSE, gIs |-> FALSE, carrier |-> 0,
       level |-> Table([k \in DOMAIN order |-> pairs[ProductAt(G, order[k])]]),
       at |-> Table([ij \in DOMAIN pairs |->
                IF pairs[ij] = {} THEN 0 ELSE CHOOSE k \in DOMAIN order : ProductAt(G, order[k]) = ij])]

\* A level over children already swept.
SweptLevel(f, g, quantified, t, l, r) ==
  LET F == f.levels[t]
      G == g.levels[t]
      grid  == (DOMAIN F) \X (DOMAIN G)
      pairs == [ij \in grid |-> ProductPairs(l.at, r.at, F[ij[1]], G[ij[2]])]
      fTrue == IdentityLevel(F, l.fIs, r.fIs)
      gTrue == IdentityLevel(G, l.gIs, r.gIs)
  IN  IF t \in quantified THEN QuantifiedLevel(pairs, t)
      ELSE IF gTrue THEN [fIs |-> fTrue, gIs |-> TRUE, carrier |-> 1, level |-> F,
                          at |-> [ij \in grid |-> ij[1]]]
      ELSE IF fTrue THEN [fIs |-> TRUE, gIs |-> FALSE, carrier |-> 2, level |-> G,
                          at |-> [ij \in grid |-> ij[2]]]
      ELSE BuiltLevel(F, G, Table(pairs))

Sweep(f, g, quantified) ==
  LET sweep[t \in Leaf \cup Internal] ==
        IF t \in Leaf THEN SweptLeaf(f, g, t)
        ELSE SweptLevel(f, g, quantified, t, sweep[Left[t]], sweep[Right[t]])
  IN  Table(sweep)

(***************************************************************************)
(* What the result owes.                                                   *)
(***************************************************************************)
\* Mutant: one side is enough.
AddsNoTwinsOneSided(swept, t) ==
  \E c \in Children(t) : c \in Leaf \/ swept[Sibling(c)].fIs \/ swept[Sibling(c)].gIs

\* adds_no_twins: beside a child over which an operand is constant true, the
\* contexts of products are products of contexts.
AddsNoTwins(swept, t) ==
  \A c \in Children(t) : c \in Leaf \/ swept[Sibling(c)].fIs \/ swept[Sibling(c)].gIs

\* The operand whose level a built one may be noted as, 0 for none: pairs are
\* compared in their stored order, and the sparse walks note the first
\* operand's level only where they meet it, so an equal level may pass unnoted.
\* The relabelling route notes nothing.
MayBeAs(f, g, swept, t) ==
  IF swept[t].carrier # 0 \/ SinglePair(f.levels[t]) \/ SinglePair(g.levels[t]) THEN 0
  ELSE IF swept[t].level = f.levels[t] THEN 1
  ELSE IF swept[t].level = g.levels[t] /\ ~AddsNoTwins(swept, t) THEN 2 ELSE 0

Built(swept) == {t \in Internal : swept[t].carrier = 0}
OwedTwins(swept, noted) == {t \in Built(swept) : noted[t] = 0 /\ ~AddsNoTwins(swept, t)}

(***************************************************************************)
(* loose_levels: the levels under a built one, less those proved tight.    *)
(***************************************************************************)
\* Mutant: no product of the sibling's nodes is counted.
KillsNoneNever(f, g, swept, s) == TRUE

\* No product of the sibling's nodes is false.
KillsNone(f, g, swept, s) ==
  IF s \in Leaf THEN swept[s].fIs \/ swept[s].gIs
  ELSE Len(f.levels[s]) * Len(g.levels[s]) = Len(swept[s].level)

\* Mutant: either polarity meets every label.
HeldForEveryLabelByOne(labels) == labels # {}

\* holds_every_label
HeldForEveryLabel(labels) == One \in labels \/ {Pos, Neg} \subseteq labels

\* outer_held: beside the leaf s, the second operand's pairs name every live
\* product of c for every label.  Only the sparse leaf arm looks.
MayBeHeld(g, swept, c, s) ==
  s \in Leaf /\ \A ij \in DOMAIN swept[c].at :
                  swept[c].at[ij] # 0 => HeldForEveryLabel(Partners(PairsAt(g.levels, Parent[c]), c, ij[2]))

Tight(f, g, loose, swept, as, c) ==
  LET by == as[Parent[c]]
      named(d, k) == c \notin loose[k] /\ Len(swept[c].level) = Len(d.levels[c])
      in(d, k)    == c \notin loose[k] \/ (Len(d.levels[c]) = 1 /\ swept[Parent[c]].level # <<>>)
  IN  \/ by = 1 /\ named(f, 1)
      \/ by = 2 /\ named(g, 2)
      \/ in(f, 1) /\ in(g, 2) /\ KillsNone(f, g, swept, Sibling(c))

\* Tight where the leaf arm built the level above and found it held.
TightIfHeld(f, g, loose, swept, c) ==
  /\ c \notin loose[1] \/ (Len(f.levels[c]) = 1 /\ swept[Parent[c]].level # <<>>)
  /\ MayBeHeld(g, swept, c, Sibling(c))

\* The loose levels of the result, for any set of levels found held.
LooseLevels(f, g, swept, as) ==
  LET loose   == Table(<<SettleLoose(f), SettleLoose(g)>>)
      carried == {c \in Internal \ {Root} : swept[Parent[c]].carrier # 0}
      open    == {c \in Internal \ ({Root} \cup carried) : ~Tight(f, g, loose, swept, as, c)}
      ifHeld  == {c \in open : TightIfHeld(f, g, loose, swept, c)}
  IN  {{c \in carried : c \in loose[swept[Parent[c]].carrier]} \cup (open \ held) : held \in SUBSET ifHeld}

(***************************************************************************)
(* The operation.                                                          *)
(***************************************************************************)
MaxWidth(d) == LET widths == {Len(d.levels[t]) : t \in Internal}
               IN  CHOOSE w \in widths : \A v \in widths : v <= w

\* Mutant: what the operands owed is left out of the result's lists.
OwedByOperandsDropped(f, g) == [contract |-> {}, leaves |-> {}]

\* Dirty::stacked: whatever the operands owed.
OwedByOperands(f, g) == [contract |-> g.contract \cup f.contract, leaves |-> g.leaves \cup f.leaves]

\* apply_and_held on operands neither of which is false: the results that the
\* routes taken may note and find differently.
Products(f, g, swept) ==
  LET levels == [t \in Internal |-> swept[t].level]
      owed   == OwedByOperands(f, g)
      may    == Table([t \in Internal |-> MayBeAs(f, g, swept, t)])
      notes  == {[t \in Internal |-> IF t \in noted THEN may[t] ELSE 0] :
                   noted \in SUBSET {t \in Internal : may[t] # 0}}
      known  == f.loose # Unknown /\ g.loose # Unknown
  IN  UNION {{Diagram(levels, swept[Root].at[<<f.out, g.out>>],
                      owed.contract \cup OwedTwins(swept, as), owed.leaves \cup Built(swept), loose, FALSE) :
                loose \in IF known THEN LooseLevels(f, g, swept, as) ELSE {Unknown}} :
             as \in notes}

AllListed(levels, out) == Diagram(levels, out, Internal, Internal, Unknown, FALSE)

\* conjoin_cow_as: the wider operand first; equal operands and a false one
\* form no product.
Conjunctions(x, y) ==
  LET swap == MaxWidth(y) > MaxWidth(x)
      f == IF swap THEN y ELSE x
      g == IF swap THEN x ELSE y
  IN  IF f.levels = g.levels /\ f.out = g.out THEN {f}
      ELSE IF f.out = Zero \/ g.out = Zero
      THEN {AllListed(NoLevels, Zero)}
      ELSE Products(f, g, Sweep(f, g, {}))

\* conjoin_on with quantified subtrees, and whether its sweep collapsed them.
\* The level above a collapsed one may hold a pair twice, here once.
FusedConjunction(x, y, targets) ==
  LET swap == MaxWidth(y) > MaxWidth(x)
      f == IF swap THEN y ELSE x
      g == IF swap THEN x ELSE y
      swept == Sweep(f, g, {t \in Internal : VarsBelow(t) \subseteq targets})
      as(d, ran) == [result |-> d, collapsed |-> ran]
  IN  IF f.levels = g.levels /\ f.out = g.out THEN as(f, FALSE)
      ELSE IF f.out = Zero \/ g.out = Zero THEN as(AllListed(NoLevels, Zero), FALSE)
      ELSE as(AllListed([t \in Internal |-> swept[t].level], swept[Root].at[<<f.out, g.out>>]), TRUE)

Conjoin(x, y) == CHOOSE d \in Conjunctions(x, y) : TRUE
===============================================================================
