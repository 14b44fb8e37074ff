-------------------------- MODULE InPlaceConjunction --------------------------
(***************************************************************************)
(* f and g written into f's own levels (apply/conjoin_in_place.rs), up to  *)
(* the prune it ends with, for a structural g.  From its output down, g    *)
(* splits the vtree: below its true nodes f is left as it is, along its    *)
(* spine of nodes of one pair f's levels are rewritten through what became *)
(* of the levels below, and where g branches the products are appended to  *)
(* f's levels beside the nodes they replace.                               *)
(***************************************************************************)
EXTENDS Conjunction

Dead == 0    \* a product that is false

TrueNodes(g) ==
  LET top[t \in Leaf \cup Internal] ==
        IF t \in Leaf THEN One
        ELSE LET l == top[Left[t]]
                 r == top[Right[t]]
                 nodes == {i \in DOMAIN g.levels[t] : g.levels[t][i] = {<<l, r>>}}
             IN  IF l = 0 \/ r = 0 \/ nodes = {} THEN 0 ELSE Min(nodes)
  IN  Table(top)

\* classify_g_roles: how g reads a level, and at which node.
Roles(g, top) ==
  LET named(above, c) == IF above.kind # "Spine" THEN 0
                         ELSE CHOOSE b \in {p[Side(c)] : p \in g.levels[Parent[c]][above.node]} : TRUE
      role[t \in Leaf \cup Internal] ==
        LET b == IF t = Root THEN g.out ELSE named(role[Parent[t]], t)
        IN  [node |-> b,
             kind |-> CASE b \in {0, top[t]} -> "True"
                        [] t \in Leaf \/ Cardinality(g.levels[t][b]) > 1 -> "Branch"
                        [] OTHER -> "Spine"]
  IN  Table(role)

Below(t) == {u \in Internal : VarsBelow(u) \subseteq VarsBelow(t)}

(***************************************************************************)
(* The products where g branches.                                          *)
(***************************************************************************)
\* label_pieces
LabelPieces(x) == {<<One, x>>} \cup (IF x = One THEN {<<Pos, Pos>>, <<Neg, Neg>>} ELSE {<<x, x>>})

\* Mutant: a node all of whose pairs met g's node is kept as it is, whatever
\* they became.
KeptByMeeting(node, hits) == {h[1] : h \in hits} = node

\* A node every pair of which came back whole in one node of g.
KeptWhole(node, hits) == hits = {<<p, p>> : p \in node}

\* Settle::node over a level: every node's products with each of g's nodes it
\* meets, a pair of f and what it became for each hit.
BlockLevel(F, G, left, right) ==
  LET met(node, b) ==
        UNION {{<<p, <<x[1][2], x[2][2]>>>> : x \in
                  {y \in left[p[1]] \X right[p[2]] : <<y[1][1], y[2][1]>> \in G[b]}} : p \in node}
      products == [m \in 1 .. Len(F) * Len(G) |->
                     LET ab == ProductAt(G, m) IN [of |-> ab, hits |-> met(F[ab[1]], ab[2])]]
      whole == {<<x.of[2], x.of[1]>> : x \in
                  {y \in {products[m] : m \in DOMAIN products} : y.hits # {} /\ KeptWhole(F[y.of[1]], y.hits)}}
      made  == SelectSeq(products, LAMBDA x : x.hits # {} /\ ~KeptWhole(F[x.of[1]], x.hits))
  IN  [level  |-> F \o [k \in DOMAIN made |-> {h[2] : h \in made[k].hits}],
       pieces |-> [a \in DOMAIN F |->
                     {<<b, a>> : b \in {c \in DOMAIN G : <<c, a>> \in whole}}
                       \cup {<<made[k].of[2], Len(F) + k>> : k \in {j \in DOMAIN made : made[j].of[1] = a}}]]

\* block_products: the levels under t, and where each node of t went.  Levels
\* below one where g has only its true node are not read.
BlockProducts(f, g, top, t, b) ==
  LET at(u) == IF u = t THEN [k \in DOMAIN g.levels[u] |-> IF k = b THEN g.levels[u][k] ELSE {}]
               ELSE g.levels[u]
      whole(u) == u # t /\ u \notin Leaf /\ top[u] # 0 /\ Len(g.levels[u]) = 1
      block[u \in Leaf \cup Internal] ==
        IF u \in Leaf THEN [level |-> <<>>, pieces |-> [x \in {Pos, Neg, One} |-> LabelPieces(x)]]
        ELSE IF whole(u)
        THEN [level |-> f.levels[u], pieces |-> [a \in DOMAIN f.levels[u] |-> {<<top[u], a>>}]]
        ELSE LET left  == block[Left[u]].pieces
                 right == block[Right[u]].pieces
             IN  BlockLevel(f.levels[u], at(u), left, right)
      read == {u \in Below(t) : \A w \in Internal : whole(w) /\ w \in Below(t) => u \notin Below(w) \ {w}}
      pieces == block[t].pieces
  IN  [levels |-> [u \in Internal |-> IF u \in read THEN block[u].level ELSE f.levels[u]],
       to     |-> [x \in DOMAIN f.levels[t] |->
                     IF pieces[x] = {} THEN Dead ELSE (CHOOSE p \in pieces[x] : TRUE)[2]]]

\* Mutant: what the products replaced is left beside them.
PruneUnderNot(levels, t, to) == [levels |-> levels, to |-> to, changed |-> {}]

\* prune_under: what to's live products do not reach, from t down, goes.
PruneUnder(levels, t, to) ==
  LET reach[u \in Internal] ==
        IF u = t THEN {to[x] : x \in DOMAIN to} \ {Dead}
        ELSE IF u \in Below(t) THEN NamedFrom(levels, u, reach[Parent[u]])
        ELSE DOMAIN levels[u]
      kept  == Table(reach)
      fewer == {u \in Below(t) : kept[u] # DOMAIN levels[u]}
      compacted == Compact(levels, kept)
  IN  [levels  |-> [u \in Internal |-> IF u \in Below(t) THEN compacted[u] ELSE levels[u]],
       to      |-> [x \in DOMAIN to |-> IF to[x] = Dead THEN Dead ELSE Rank(kept[t], to[x])],
       changed |-> fewer \cup {u \in Below(t) : Children(u) \cap fewer # {}}]

\* One branching level, pruned on its own where no prune follows.
Branched(f, t, block, prune) ==
  LET grown == {u \in Internal : block.levels[u] # f.levels[u]}
      under == PruneUnder(block.levels, t, block.to)
  IN  IF prune THEN [levels |-> block.levels, to |-> block.to, changed |-> grown]
      ELSE [under EXCEPT !.changed = @ \cup grown]

(***************************************************************************)
(* The spine, bottom-up.                                                   *)
(***************************************************************************)
\* rewrite_spine_level: a pair naming a false child goes, and a node left with
\* none.
SpineLevel(level, left, right) ==
  LET moved(node) == {<<left[p[1]], right[p[2]]>> : p \in {q \in node : left[q[1]] # Dead /\ right[q[2]] # Dead}}
      live  == {k \in DOMAIN level : moved(level[k]) # {}}
      order == Ascending(live)
  IN  [level |-> [k \in DOMAIN order |-> moved(level[order[k]])],
       to    |-> [k \in DOMAIN level |-> IF k \in live THEN Rank(live, k) ELSE Dead]]

Spread(levels, role, blocks) ==
  LET spread[t \in Leaf \cup Internal] ==
        CASE role[t].kind = "True" ->
               [level |-> IF t \in Leaf THEN <<>> ELSE levels[t], to |-> [x \in Slots(levels, t) |-> x]]
          [] role[t].kind = "Branch" /\ t \in Leaf ->
               [level |-> <<>>, to |-> [x \in {Pos, Neg, One} |-> LeafProduct(x, role[t].node)]]
          [] role[t].kind = "Branch" /\ t \notin Leaf -> [level |-> levels[t], to |-> blocks[t].to]
          [] OTHER -> LET left  == spread[Left[t]].to
                          right == spread[Right[t]].to
                      IN  SpineLevel(levels[t], left, right)
  IN  Table(spread)

(***************************************************************************)
(* The operation.                                                          *)
(***************************************************************************)
\* Mutant: the levels under the spine are not listed.
LooseAsBefore(f, spine, branched) == IF f.certified THEN {} ELSE f.loose

\* The levels whose nodes the rewrite may leave unnamed join the list, which
\* a certificate stands for.  The root's own listing is never read.
LooseAlso(f, spine, branched) ==
  IF f.certified \/ f.loose # Unknown
  THEN ((IF f.certified THEN {} ELSE f.loose) \cup branched
          \cup (UNION {Children(t) : t \in spine} \ Leaf)) \ {Root}
  ELSE Unknown

Conjoined(result, reduces) == [result |-> result, reduces |-> reduces]

\* f's levels with the branching ones' products.
Grown(f, blocks) ==
  Table([u \in Internal |->
           LET over == {t \in DOMAIN blocks : u \in Below(t)}
           IN  IF over = {} THEN f.levels[u] ELSE blocks[CHOOSE t \in over : TRUE].levels[u]])

Rewritten(f, spine, blocks, spread, prune) ==
  LET out   == spread[Root].to[f.out]
      after == Invalidate(f, spine \cup UNION {blocks[t].changed : t \in DOMAIN blocks})
  IN  IF out = Dead THEN Conjoined(ConstantFalse, FALSE)
      ELSE Conjoined([after EXCEPT !.levels = Table([t \in Internal |-> spread[t].level]), !.out = out,
                                  !.loose = LooseAlso(f, spine, DOMAIN blocks)], prune)

RewriteSpine(f, role, blocks, prune) ==
  Rewritten(f, {t \in Internal : role[t].kind = "Spine"}, blocks,
            Spread(Grown(f, blocks), role, blocks), prune)

Blocks(f, g, top, role, prune) ==
  Table([t \in {u \in Internal : role[u].kind = "Branch"} |->
           Branched(f, t, BlockProducts(f, g, top, t, role[t].node), prune)])

ConjoinByRole(f, g, top, role, prune) ==
  IF role[Root].kind = "True" THEN Conjoined(f, FALSE)
  ELSE RewriteSpine(f, role, Blocks(f, g, top, role, prune), prune)

ConjoinUnder(f, g, top, prune) == ConjoinByRole(f, g, top, Roles(g, top), prune)

\* and_in_place_way; `reduces` where a prune follows.
ConjoinInPlace(f, g, prune) ==
  IF f.out = Zero \/ g.out = Zero THEN Conjoined(ConstantFalse, FALSE)
  ELSE ConjoinUnder(f, g, TrueNodes(g), prune)
===============================================================================
