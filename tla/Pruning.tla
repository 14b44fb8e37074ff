------------------------------- MODULE Pruning -------------------------------
(***************************************************************************)
(* prune_unreachable (reduce/prune.rs): drop every node the output does    *)
(* not reach.  Four walks do it: of the whole diagram; below the root      *)
(* only; from the levels a list of loose ones leaves in doubt; and, for    *)
(* the complement of a canonical diagram, along the one dying node of each *)
(* level.                                                                  *)
(***************************************************************************)
EXTENDS Diagrams

\* What every walk leaves: the nodes of `kept`, each level that lost a node
\* owed to the passes (invalidate_shrunk).
Kept(d, kept) ==
  LET lost == {t \in Internal : kept[t] # DOMAIN d.levels[t]}
      rest == IF lost = {} THEN d ELSE [d EXCEPT !.levels = Compact(d.levels, kept)]
  IN  [Invalidate(rest, lost) EXCEPT !.out = IF @ = Zero THEN Zero ELSE Rank(kept[Root], @)]

\* prune_whole
PruneWhole(d) == Kept(d, Reached(d.levels, d.out))

(***************************************************************************)
(* The walk that stops at levels losing no node (prune_below_root).        *)
(***************************************************************************)
\* Mutant: a level that lost no node of its own is never entered.
EntersUnforced(t, lostOne, forced) == lostOne

\* Whether the walk goes on below a level it marked.
Enters(t, lostOne, forced) == lostOne \/ t \in forced

\* `starts` are entered with every node kept, or {} to start at the root with
\* the output alone; no level of `clean` is marked.
WalkFrom(d, starts, clean, forced) ==
  LET walk[t \in Internal] ==
        IF t \in starts THEN [in |-> TRUE, kept |-> DOMAIN d.levels[t]]
        ELSE IF t = Root THEN IF starts = {} THEN [in |-> TRUE, kept |-> {d.out}]
                                             ELSE [in |-> FALSE, kept |-> DOMAIN d.levels[t]]
        ELSE LET above == walk[Parent[t]]
             IN  IF above.in /\ t \notin clean
                 THEN LET marked == NamedFrom(d.levels, t, above.kept)
                      IN  [in |-> Enters(t, marked # DOMAIN d.levels[t], forced), kept |-> marked]
                 ELSE [in |-> FALSE, kept |-> DOMAIN d.levels[t]]
  IN  Kept(d, [t \in Internal |-> walk[t].kept])

PruneBelowRoot(d) == WalkFrom(d, {}, {}, {})

(***************************************************************************)
(* The walk from the loose levels (settle_loose, Seeds).                   *)
(***************************************************************************)
\* Whether a listed level stays listed: a level under it or its sibling does,
\* or the level above leaves one of its nodes unnamed.  The root's children
\* stay unread.
Stays(d, c, under) == \/ Parent[c] = Root
                      \/ under
                      \/ DOMAIN d.levels[c] # Named(d.levels, c)

SettleLoose(d) ==
  LET under[t \in Leaf \cup Internal] ==      \* a level strictly below stays
        IF t \in Leaf THEN FALSE
        ELSE LET below == \E c \in Children(t) : under[c]
             IN  below \/ \E c \in Children(t) \cap d.loose : Stays(d, c, below)
  IN  {c \in d.loose : Stays(d, c, \E s \in Children(Parent[c]) : under[s])}

Above(loose) ==
  LET up[t \in Internal] == \E c \in Children(t) \ Leaf : c \in loose \/ up[c]
  IN  {t \in Internal : up[t]}

\* Levels every node of which the output reaches, known without a walk.
CleanLevels(d, loose) ==
  LET clean[t \in Internal] ==
        IF t = Root THEN Len(d.levels[t]) = 1 ELSE clean[Parent[t]] /\ t \notin loose
  IN  {t \in Internal : clean[t]}

PruneSeeded(d) ==
  LET loose == SettleLoose(d)
      clean == CleanLevels(d, loose)
      seeds == {Parent[c] : c \in loose} \cap clean
      kept  == {c \in UNION {Children(t) : t \in seeds} : c \notin loose}
  IN  IF Root \notin clean THEN WalkFrom(d, {}, {}, Above(loose))
      ELSE IF seeds = {} THEN d
      ELSE WalkFrom(d, seeds, kept, Above(loose))

(***************************************************************************)
(* The pass.                                                               *)
(***************************************************************************)
\* prune_unreachable.  A constant false keeps no node, its lists as they were.
Prune(d, belowRoot) ==
  IF d.out = Zero
  THEN [d EXCEPT !.levels = NoLevels, !.loose = {}, !.certified = FALSE]
  ELSE [(IF belowRoot THEN PruneBelowRoot(d)
         ELSE IF d.loose # Unknown THEN PruneSeeded(d)
         ELSE PruneWhole(d)) EXCEPT !.loose = {}]

(***************************************************************************)
(* The complement of a canonical diagram (prune_complement).               *)
(***************************************************************************)
\* Mutant: a leaf sibling counts a pair on One once.
WeightOnce(sibling, ref) == 1

\* Cells of the sibling's basis a pair covers.
Weight(sibling, ref) == IF sibling \in Leaf /\ ref = One THEN 2 ELSE 1

\* The child node a dying node pairs with its sibling's whole basis
\* (true_children): its residual is true, so it dies with it.
DyingChild(d, c, node) ==
  LET s     == Sibling(c)
      basis == IF s \in Leaf THEN 2 ELSE Len(d.levels[s])
      covers(u) == LET ones == {p \in node : p[Side(c)] = u /\ Weight(s, p[Side(s)]) = 2}
                   IN  Cardinality({p \in node : p[Side(c)] = u}) + Cardinality(ones)
  IN  {u \in DOMAIN d.levels[c] : covers(u) = basis}

PruneComplement(d, old) ==
  LET dying[t \in Internal] ==
        IF t = Root THEN {old}
        ELSE UNION {DyingChild(d, t, d.levels[Parent[t]][i]) : i \in dying[Parent[t]]}
  IN  Kept(d, [t \in Internal |-> DOMAIN d.levels[t] \ dying[t]])
===============================================================================
