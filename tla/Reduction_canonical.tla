-------------------------- MODULE Reduction_canonical --------------------------
(***************************************************************************)
(* The worklists and the certificate of a diagram, for every vtree, every  *)
(* diagram and every order of the passes.                                  *)
(*                                                                         *)
(* TidyInv says step by step what each pass may rely on and what it leaves *)
(* behind: whose children are without twins, whose leaf children without   *)
(* polarities to fold, which levels hold nodes no pair names, and that a   *)
(* certified diagram is canonical.  With the promise kept (Promised) it    *)
(* gives that a full reduction ends in the minimal diagram.                *)
(***************************************************************************)
EXTENDS Reduction_refinement

-------------------------------------------------------------------------------
(***************************************************************************)
(* The twin merges.                                                        *)
(***************************************************************************)
\* Nodes searched together and named from the same places have one keeper.
LEMMA KeeperMerges ==
  ASSUME NEW levels, InRange(levels), NEW c \in Internal, NEW among, among \subseteq DOMAIN levels[c],
         NEW i \in among, NEW j \in among, Context(levels, c, i) # {}, Context(levels, c, i) = Context(levels, c, j)
  PROVE  Keeper(levels, c, among)[i] = Keeper(levels, c, among)[j]
<1> DEFINE C(a) == Context(levels, c, a)
           groups == Groups(levels, c, among)
           g == {a \in among : C(a) = C(i)}
           keeper == Keeper(levels, c, among)
           own == [a \in DOMAIN levels[c] |->
                     IF \E group \in groups : a \in group
                     THEN Min(CHOOSE group \in groups : a \in group) ELSE a]
<1>1. g \in groups
  BY GroupsAre
<1>2. ASSUME NEW a \in g, NEW h \in groups, a \in h PROVE h = g
  <2>1. PICK b \in among : C(b) # {} /\ h = {e \in among : C(e) = C(b)}
    BY GroupsAre
  <2> QED  BY <1>2, <2>1
<1>3. i \in g /\ j \in g
  OBVIOUS
<1>4. keeper = own
  <2>1. keeper = Table(own)
    BY DEF Keeper
  <2> HIDE DEF own
  <2> QED  BY <2>1, TableIs
<1>5. ASSUME NEW a \in g PROVE own[a] = Min(g)
  <2>1. a \in DOMAIN levels[c]
    OBVIOUS
  <2>2. \E group \in groups : a \in group
    BY <1>1
  <2>3. (CHOOSE group \in groups : a \in group) = g
    <3> HIDE DEF g, groups
    <3> QED  BY <1>2, <2>2, <1>5
  <2> HIDE DEF groups, g
  <2> QED  BY <2>1, <2>2, <2>3
<1> HIDE DEF own, g, keeper
<1>6. keeper[i] = keeper[j]
  BY <1>3, <1>4, <1>5
<1> QED  BY <1>6 DEF keeper

\* What a merge is given.
Merges(levels, c, among, dropped) ==
  /\ InRange(levels) /\ Deterministic(levels)
  /\ c \in Internal /\ c # Root
  /\ among \subseteq DOMAIN levels[c]
  /\ dropped \subseteq Unnamed(levels, c)

\* The level merged: a row for every survivor.
LEMMA MergedRows ==
  ASSUME NEW levels, NEW c, NEW among, NEW dropped, Merges(levels, c, among, dropped)
  PROVE  LET keeper == Keeper(levels, c, among)
             S      == Survivors(keeper, dropped)
             new    == MergedLevels(levels, c, among, dropped)[c]
         IN  /\ \A i \in S : Rank(S, i) \in DOMAIN new /\ new[Rank(S, i)] = United(levels, c, keeper, i)
             /\ \A k \in DOMAIN new : \E i \in S : k = Rank(S, i)
             /\ \A i, j \in S : Rank(S, i) = Rank(S, j) => i = j
             /\ \A i \in DOMAIN levels[c] : dropped = {} \/ Context(levels, c, i) # {} => keeper[i] \in S
             /\ S \subseteq DOMAIN levels[c] /\ \A i \in S : keeper[i] = i
<1> DEFINE p      == Parent[c]
           keeper == Keeper(levels, c, among)
           S      == Survivors(keeper, dropped)
           order  == Ascending(S)
           moved(pair) == Renamed(pair, c, Moved(keeper, dropped, pair[Side(c)]))
           A == [k \in DOMAIN order |-> United(levels, c, keeper, order[k])]
           B == [k \in DOMAIN levels[p] |-> {moved(pair) : pair \in levels[p][k]}]
           new == MergedLevels(levels, c, among, dropped)
           n == Cardinality(S)
<1>0. /\ InRange(levels) /\ c \in Internal /\ c # Root /\ among \subseteq DOMAIN levels[c] /\ dropped \subseteq Unnamed(levels, c)
  BY DEF Merges
<1>1. p # c
  BY <1>0, AroundIs
<1>2. /\ keeper \in [DOMAIN levels[c] -> DOMAIN levels[c]]
      /\ \A i \in DOMAIN levels[c] :
           /\ Context(levels, c, keeper[i]) = Context(levels, c, i)
           /\ keeper[keeper[i]] = keeper[i]
  BY <1>0, KeeperIs
<1>3. S \subseteq DOMAIN levels[c] /\ \A i \in S : keeper[i] = i
  BY <1>2 DEF Survivors
<1>4. S \subseteq Nat /\ IsFiniteSet(S)
  <2>1. DOMAIN levels[c] = 1 .. Len(levels[c]) /\ Len(levels[c]) \in Nat
    BY <1>0, LevelIs
  <2>2. IsFiniteSet(DOMAIN levels[c]) /\ DOMAIN levels[c] \subseteq Nat
    <3>1. IsFiniteSet(DOMAIN levels[c])
      BY <2>1, UpToFinite
    <3> QED  BY <2>1, <3>1
  <2> HIDE DEF S
  <2> QED  BY <1>3, <2>2, FS_Subset
<1>5. /\ order \in [1 .. n -> S] /\ n \in Nat
      /\ \A k \in 1 .. n : Rank(S, order[k]) = k
      /\ \A i \in S : Rank(S, i) \in 1 .. n /\ order[Rank(S, i)] = i
      /\ \A i, j \in S : Rank(S, i) = Rank(S, j) => i = j
  <2> HIDE DEF S
  <2> QED  BY <1>4, AscendingIs
<1>6. \A i \in DOMAIN levels[c] : dropped = {} \/ Context(levels, c, i) # {} => keeper[i] \in S
  <2>1. ASSUME NEW i \in DOMAIN levels[c], Context(levels, c, i) # {} PROVE keeper[i] \notin dropped
    BY <1>0, <1>2, <2>1 DEF Unnamed, IsNamed
  <2>2. \A i \in DOMAIN levels[c] : keeper[i] \in DOMAIN keeper /\ keeper[keeper[i]] = keeper[i]
    BY <1>2
  <2> QED  BY <2>1, <2>2 DEF Survivors
<1>7. new[c] = A
  <2>1. new = [levels EXCEPT ![c] = A, ![p] = B]
    BY DEF MergedLevels
  <2>2. DOMAIN levels = Internal
    BY <1>0 DEF InRange
  <2> HIDE DEF A, B, new, p
  <2> QED  BY <1>0, <1>1, <2>1, <2>2
<1>8. DOMAIN A = 1 .. n /\ \A k \in 1 .. n : A[k] = United(levels, c, keeper, order[k])
  <2>1. DOMAIN order = 1 .. n
    BY <1>5
  <2> QED  BY <2>1
<1> HIDE DEF A, B, new, order, S, keeper, n, p
<1>9. \A i \in S : Rank(S, i) \in DOMAIN A /\ A[Rank(S, i)] = United(levels, c, keeper, i)
  BY <1>5, <1>8
<1>10. \A k \in DOMAIN A : \E i \in S : k = Rank(S, i)
  <2>1. ASSUME NEW k \in 1 .. n PROVE \E i \in S : k = Rank(S, i)
    BY <1>5
  <2> QED  BY <1>8, <2>1
<1> QED  BY <1>3, <1>5, <1>6, <1>7, <1>9, <1>10 DEF new, S, keeper

Moves(levels, c, among, dropped) == [x \in Nat |-> Moved(Keeper(levels, c, among), dropped, x)]
Selves == [x \in Nat |-> x]

\* The parent's level follows.
LEMMA MergedFollows ==
  ASSUME NEW levels, NEW c, NEW among, NEW dropped, Merges(levels, c, among, dropped)
  PROVE  LET old == levels[Parent[c]]
             new == MergedLevels(levels, c, among, dropped)[Parent[c]]
             s   == Side(c)
             f   == Moves(levels, c, among, dropped)
         IN  /\ s \in {1, 2} /\ OfNumbers(old) /\ OfNumbers(new)
             /\ Follows(old, new, s, f, Selves)
             /\ Respects(old, s, f) /\ Respects(old, 3 - s, Selves)
<1> DEFINE p   == Parent[c]
           old == levels[p]
           merged == MergedLevels(levels, c, among, dropped)
           new == merged[p]
           s   == Side(c)
           f   == Moves(levels, c, among, dropped)
           keeper == Keeper(levels, c, among)
           S   == Survivors(keeper, dropped)
<1>0. /\ InRange(levels) /\ Deterministic(levels) /\ c \in Internal /\ c # Root
      /\ among \subseteq DOMAIN levels[c] /\ dropped \subseteq Unnamed(levels, c)
  BY DEF Merges
<1>1. p \in Internal /\ c \in Children(p) /\ p # c /\ 3 - s = Side(Sibling(c)) /\ c \notin Leaf
  BY <1>0, AroundIs, InternalIs
<1>2. InRange(merged) /\ DOMAIN new = DOMAIN old /\ MergedAs(levels, merged, c, keeper, dropped)
  BY <1>0, <1>1, MergedSound
<1>3. OfNumbers(old) /\ OfNumbers(new) /\ s \in {1, 2} /\ \A i : Context(levels, c, i) # {} <=> Names(old, s, i)
  <2>1. OfNumbers(new)
    <3>1. \A k \in DOMAIN merged[p] : merged[p][k] \subseteq Nat \X Nat
      <4> HIDE DEF merged, p
      <4> QED  BY <1>1, <1>2, LevelIs
    <3> QED  BY <3>1 DEF OfNumbers
  <2>2. OfNumbers(old) /\ s \in {1, 2} /\ \A i : Context(levels, c, i) # {} <=> Names(old, s, i)
    BY <1>0, <1>1, ContextCells
  <2> QED  BY <2>1, <2>2
<1>4. \A i, j : Context(levels, c, i) = Context(levels, c, j) <=> Same(old, s, i, j)
  BY <1>0, <1>1, ContextCells
<1>5. \A x : Names(old, s, x) => x \in DOMAIN levels[c] /\ x \in Nat
  BY <1>0, <1>1, NamesIs
<1>6. \A x \in Nat : f[x] = Moved(keeper, dropped, x)
  BY DEF Moves
<1>7. \A k \in DOMAIN old : /\ \A q \in new[k] : \E r \in old[k] : q[s] = Moved(keeper, dropped, r[s]) /\ q[3 - s] = r[3 - s]
                            /\ \A r \in old[k] : \E q \in new[k] : q[s] = Moved(keeper, dropped, r[s]) /\ q[3 - s] = r[3 - s]
  <2> HIDE DEF merged, keeper
  <2> QED  BY <1>1, <1>2 DEF MergedAs
<1> HIDE DEF merged, new, old, f, s
<1>8. ASSUME NEW k \in DOMAIN old, NEW a, NEW b
      PROVE  Cell(new, s, k, a, b) <=> \E x, y \in Nat : Cell(old, s, k, x, y) /\ a = f[x] /\ b = Selves[y]
  <2>1. ASSUME Cell(new, s, k, a, b) PROVE \E x, y \in Nat : Cell(old, s, k, x, y) /\ a = f[x] /\ b = Selves[y]
    <3>1. PICK q \in new[k] : q[s] = a /\ q[3 - s] = b
      BY <2>1 DEF Cell
    <3>2. PICK r \in old[k] : q[s] = Moved(keeper, dropped, r[s]) /\ q[3 - s] = r[3 - s]
      BY <1>7
    <3>3. Cell(old, s, k, r[s], r[3 - s])
      BY DEF Cell
    <3>4. r[s] \in Nat /\ r[3 - s] \in Nat
      BY <1>3, <3>3, CellTurned
    <3> QED  BY <1>6, <3>1, <3>2, <3>3, <3>4 DEF Selves
  <2>2. ASSUME NEW x \in Nat, NEW y \in Nat, Cell(old, s, k, x, y), a = f[x], b = Selves[y] PROVE Cell(new, s, k, a, b)
    <3>1. PICK r \in old[k] : r[s] = x /\ r[3 - s] = y
      BY <2>2 DEF Cell
    <3>2. PICK q \in new[k] : q[s] = Moved(keeper, dropped, r[s]) /\ q[3 - s] = r[3 - s]
      BY <1>7
    <3> QED  BY <1>6, <2>2, <3>1, <3>2 DEF Cell, Selves
  <2> QED  BY <2>1, <2>2
<1>9. Follows(old, new, s, f, Selves)
  BY <1>2, <1>8 DEF Follows, new, old
<1>10. Respects(old, s, f)
  <2>1. ASSUME NEW x \in Nat, NEW y \in Nat, Names(old, s, x), Names(old, s, y), f[x] = f[y] PROVE Same(old, s, x, y)
    <3>1. x \in DOMAIN levels[c] /\ y \in DOMAIN levels[c] /\ Context(levels, c, x) # {} /\ Context(levels, c, y) # {}
      BY <1>3, <1>5, <2>1
    <3>2. keeper[x] \in S /\ keeper[y] \in S /\ \A i, j \in S : Rank(S, i) = Rank(S, j) => i = j
      BY <3>1, MergedRows
    <3>3. keeper[x] = keeper[y]
      <4>1. Rank(S, keeper[x]) = Rank(S, keeper[y])
        BY <1>6, <2>1 DEF Moved
      <4> QED  BY <3>2, <4>1
    <3>4. Context(levels, c, keeper[x]) = Context(levels, c, x) /\ Context(levels, c, keeper[y]) = Context(levels, c, y)
      BY <1>0, <3>1, KeeperIs
    <3> QED  BY <1>4, <3>3, <3>4
  <2> QED  BY <2>1 DEF Respects
<1>11. Respects(old, 3 - s, Selves)
  BY DEF Respects, Selves, Same
<1> QED  BY <1>3, <1>9, <1>10, <1>11 DEF old, new, merged, s, f

\* Twins of a side are all at some rows; all among some slots.
Marked(level, s, rows) ==
  \A i, j \in Nat : Names(level, s, i) /\ Same(level, s, i, j) /\ i # j =>
    \E k \in rows \cap DOMAIN level : \E x \in Nat : Cell(level, s, k, i, x)
MarkedAt(level, t, rows) == \A c \in Children(t) : c \notin Leaf => Marked(level, Side(c), rows)

Among(level, s, slots) == \A i, j \in Nat : Names(level, s, i) /\ Same(level, s, i, j) /\ i # j => i \in slots

\* A twin's twin is it.
LEMMA SameTurned == \A level, s, i, j : Same(level, s, i, j) /\ Names(level, s, i) => Same(level, s, j, i) /\ Names(level, s, j)
BY DEF Same, Names

\* A search at what marked rows name misses no twin; nor does a whole one.
LEMMA MarkedNames ==
  ASSUME NEW levels, InRange(levels), NEW t \in Internal, NEW c \in Children(t), c \notin Leaf, NEW rows
  PROVE  /\ Marked(levels[t], Side(c), rows) => Among(levels[t], Side(c), NamedFrom(levels, c, rows))
         /\ Among(levels[t], Side(c), DOMAIN levels[c])
<1>1. Parent[c] = t
  BY ParentOf
<1>2. ASSUME NEW i, NEW k \in rows \cap DOMAIN levels[t], NEW x \in Nat, Cell(levels[t], Side(c), k, i, x)
      PROVE  i \in NamedFrom(levels, c, rows)
  <2>1. PICK q \in levels[t][k] : q[Side(c)] = i
    BY <1>2 DEF Cell
  <2>2. q \in UNION {levels[t][m] : m \in rows}
    BY <2>1
  <2> QED  BY <1>1, <2>1, <2>2 DEF NamedFrom
<1>3. \A i : Names(levels[t], Side(c), i) => i \in DOMAIN levels[c]
  BY NamesIs
<1> QED  BY <1>2, <1>3 DEF Marked, Among

\* A search that finds none.
LEMMA SearchedFree ==
  ASSUME NEW levels, InRange(levels), NEW t \in Internal, NEW c \in Children(t), c \notin Leaf,
         NEW among, among \subseteq DOMAIN levels[c], Among(levels[t], Side(c), among), ~HasTwins(levels, c, among)
  PROVE  Free(levels[t], Side(c))
<1>1. \A i, j \in among : Names(levels[t], Side(c), i) /\ Same(levels[t], Side(c), i, j) => i = j
  BY HasTwinsIs
<1>2. ASSUME NEW i \in Nat, NEW j \in Nat, Names(levels[t], Side(c), i), Same(levels[t], Side(c), i, j), i # j PROVE FALSE
  <2>1. i \in among
    BY <1>2 DEF Among
  <2>2. j \in among
    BY <1>2, SameTurned DEF Among
  <2> QED  BY <1>1, <1>2, <2>1, <2>2
<1> QED  BY <1>2 DEF Free

\* A merge of all that were leaves none on its side, and no new ones on the other.
LEMMA MergedFree ==
  ASSUME NEW levels, NEW c, NEW among, NEW dropped, Merges(levels, c, among, dropped), NEW rows
  PROVE  LET old == levels[Parent[c]]
             new == MergedLevels(levels, c, among, dropped)[Parent[c]]
             s   == Side(c)
         IN  /\ Among(old, s, among) => Free(new, s)
             /\ Free(old, 3 - s) => Free(new, 3 - s)
             /\ Marked(old, 3 - s, rows) => Marked(new, 3 - s, rows)
             /\ \A i \in Nat : Names(old, 3 - s, i) => Names(new, 3 - s, i)
<1> DEFINE p == Parent[c]
           old == levels[p]
           new == MergedLevels(levels, c, among, dropped)[p]
           s   == Side(c)
           f   == Moves(levels, c, among, dropped)
           keeper == Keeper(levels, c, among)
<1>0. /\ InRange(levels) /\ c \in Internal /\ c # Root /\ among \subseteq DOMAIN levels[c]
  BY DEF Merges
<1>1. p \in Internal /\ c \in Children(p) /\ c \notin Leaf
  BY <1>0, AroundIs, InternalIs
<1>2. /\ s \in {1, 2} /\ OfNumbers(old) /\ OfNumbers(new)
      /\ Follows(old, new, s, f, Selves)
      /\ Respects(old, s, f) /\ Respects(old, 3 - s, Selves)
  BY MergedFollows
<1>3. \A i, j : /\ Context(levels, c, i) # {} <=> Names(old, s, i)
                /\ Context(levels, c, i) = Context(levels, c, j) <=> Same(old, s, i, j)
  BY <1>0, <1>1, ContextCells
<1>4. \A x \in Nat : f[x] = Moved(keeper, dropped, x)
  BY DEF Moves
<1>5. \A i, j \in among : Names(old, s, i) /\ Same(old, s, i, j) => keeper[i] = keeper[j]
  BY <1>0, <1>3, KeeperMerges
<1> HIDE DEF old, new, s, f, keeper
<1>6. 3 - s \in {1, 2} /\ 3 - (3 - s) = s
  BY <1>2
<1>7. Follows(old, new, 3 - s, Selves, f)
  BY <1>2, FollowsTurned
<1>8. ASSUME NEW r \in {1, 2}, NEW g, NEW h, Follows(old, new, r, g, h), NEW a \in Nat, Names(new, r, a)
      PROVE  \E x \in Nat : Names(old, r, x) /\ a = g[x]
  <2>1. PICK k \in DOMAIN new, b \in Nat : Cell(new, r, k, a, b)
    BY <1>8 DEF Names
  <2>2. PICK x, y \in Nat : Cell(old, r, k, x, y) /\ a = g[x]
    BY <1>8, <2>1 DEF Follows
  <2>3. Names(old, r, x)
    BY <1>8, <2>1, <2>2 DEF Names, Follows
  <2> QED  BY <2>2, <2>3
<1>9. ASSUME Among(old, s, among) PROVE Free(new, s)
  <2>1. ASSUME NEW a \in Nat, NEW b \in Nat, Names(new, s, a), Same(new, s, a, b) PROVE a = b
    <3>1. Names(new, s, b)
      BY <2>1 DEF Names, Same
    <3>2. PICK x \in Nat : Names(old, s, x) /\ a = f[x]
      BY <1>2, <1>8, <2>1
    <3>3. PICK y \in Nat : Names(old, s, y) /\ b = f[y]
      BY <1>2, <1>8, <3>1
    <3>4. Same(old, s, x, y)
      BY <1>2, <2>1, <3>2, <3>3, TwinsWere
    <3>5. x = y \/ (x \in among /\ y \in among)
      BY <1>9, <3>2, <3>3, <3>4, SameTurned DEF Among
    <3>6. x = y \/ keeper[x] = keeper[y]
      BY <1>5, <3>2, <3>4, <3>5
    <3> QED  BY <1>4, <3>2, <3>3, <3>6 DEF Moved
  <2> QED  BY <2>1 DEF Free
<1>10. Free(old, 3 - s) => Free(new, 3 - s)
  BY <1>2, <1>6, <1>7, QuotientFree
<1>11. ASSUME Marked(old, 3 - s, rows) PROVE Marked(new, 3 - s, rows)
  <2>1. ASSUME NEW a \in Nat, NEW b \in Nat, Names(new, 3 - s, a), Same(new, 3 - s, a, b), a # b
        PROVE  \E k \in rows \cap DOMAIN new : \E x \in Nat : Cell(new, 3 - s, k, a, x)
    <3>1. Names(new, 3 - s, b)
      BY <2>1 DEF Names, Same
    <3>2. Names(old, 3 - s, a)
      <4>1. PICK x \in Nat : Names(old, 3 - s, x) /\ a = Selves[x]
        BY <1>6, <1>7, <1>8, <2>1
      <4> QED  BY <4>1 DEF Selves
    <3>3. Names(old, 3 - s, b)
      <4>1. PICK x \in Nat : Names(old, 3 - s, x) /\ b = Selves[x]
        BY <1>6, <1>7, <1>8, <3>1
      <4> QED  BY <4>1 DEF Selves
    <3>4. Selves[a] = a /\ Selves[b] = b
      BY DEF Selves
    <3>5. Same(old, 3 - s, a, b)
      BY <1>2, <1>6, <1>7, <2>1, <3>2, <3>3, <3>4, TwinsWere
    <3>6. PICK k \in rows \cap DOMAIN old, x \in Nat : Cell(old, 3 - s, k, a, x)
      BY <1>11, <2>1, <3>2, <3>5 DEF Marked
    <3>7. Cell(new, 3 - s, k, a, f[x]) /\ k \in DOMAIN new
      BY <1>7, <3>4, <3>6 DEF Follows
    <3>8. f[x] \in Nat
      BY <1>2, <1>6, <3>7, CellTurned
    <3> QED  BY <3>6, <3>7, <3>8
  <2> QED  BY <2>1 DEF Marked
<1>12. ASSUME NEW i \in Nat, Names(old, 3 - s, i) PROVE Names(new, 3 - s, i)
  <2>1. PICK k \in DOMAIN old, x \in Nat : Cell(old, 3 - s, k, i, x)
    BY <1>12 DEF Names
  <2>2. Cell(new, 3 - s, k, i, f[x]) /\ k \in DOMAIN new
    <3>1. Selves[i] = i
      BY DEF Selves
    <3> QED  BY <1>7, <2>1, <3>1 DEF Follows
  <2>3. f[x] \in Nat
    BY <1>2, <1>6, <2>2, CellTurned
  <2> QED  BY <2>2, <2>3 DEF Names
<1> QED  BY <1>9, <1>10, <1>11, <1>12 DEF old, new, s

\* No level of one-pair nodes has twins below it, nor a child of one node.
LEMMA SingleFree ==
  ASSUME NEW levels, InRange(levels), NEW t \in Internal, ~MultiPair(levels, t)
  PROVE  FreeAt(levels[t], t)
<1>1. ASSUME NEW c \in Children(t), NEW i \in Nat, NEW j \in Nat, Names(levels[t], Side(c), i), Same(levels[t], Side(c), i, j) PROVE i = j
  <2>1. PICK k \in DOMAIN levels[t], x \in Nat : Cell(levels[t], Side(c), k, i, x)
    BY <1>1 DEF Names
  <2>2. Cell(levels[t], Side(c), k, j, x)
    BY <1>1, <2>1 DEF Same
  <2>3. PICK q \in levels[t][k] : q[Side(c)] = i
    BY <2>1 DEF Cell
  <2>4. PICK r \in levels[t][k] : r[Side(c)] = j
    BY <2>2 DEF Cell
  <2>5. q = r
    <3>1. IsFiniteSet(levels[t][k]) /\ Cardinality(levels[t][k]) \in Nat
      BY PairsFinite, FS_CardinalityType
    <3>2. ASSUME q # r PROVE FALSE
      <4>1. {q, r} \subseteq levels[t][k]
        BY <2>3, <2>4
      <4>2. Cardinality({q, r}) = 2
        <5>1. IsFiniteSet({q}) /\ Cardinality({q}) = 1
          BY FS_Singleton
        <5>2. {q, r} = {q} \cup {r} /\ r \notin {q}
          BY <3>2
        <5>3. Cardinality({q} \cup {r}) = Cardinality({q}) + 1
          BY <5>1, <5>2, FS_AddElement
        <5> QED  BY <5>1, <5>2, <5>3
      <4>3. Cardinality({q, r}) <= Cardinality(levels[t][k])
        BY <3>1, <4>1, FS_Subset
      <4>4. ~(Cardinality(levels[t][k]) > 1)
        BY DEF MultiPair
      <4> QED  BY <3>1, <4>2, <4>3, <4>4
    <3> QED  BY <3>2
  <2> QED  BY <2>3, <2>4, <2>5
<1> QED  BY <1>1 DEF FreeAt, Free

\* A level of one node has no twins.
LEMMA ShortFree ==
  ASSUME NEW levels, InRange(levels), NEW t \in Internal, NEW c \in Children(t), c \notin Leaf, ~(Len(levels[c]) > 1)
  PROVE  Free(levels[t], Side(c))
<1>1. c \in Internal
  BY ParentOf DEF Vtree
<1>2. \A i : Names(levels[t], Side(c), i) => i \in 1 .. Len(levels[c])
  <2>1. DOMAIN levels[c] = 1 .. Len(levels[c])
    BY <1>1, LevelIs
  <2> QED  BY <2>1, NamesIs
<1>3. Len(levels[c]) \in Nat
  BY <1>1, LevelIs
<1>4. ASSUME NEW i \in Nat, NEW j \in Nat, Names(levels[t], Side(c), i), Same(levels[t], Side(c), i, j) PROVE i = j
  <2>1. i \in 1 .. Len(levels[c]) /\ j \in 1 .. Len(levels[c])
    BY <1>2, <1>4, SameTurned
  <2> QED  BY <1>3, <2>1
<1> QED  BY <1>4 DEF Free

\* A united node's cells are those of the nodes it keeps.
LEMMA MergedCells ==
  ASSUME NEW levels, NEW c, NEW among, NEW dropped, Merges(levels, c, among, dropped),
         NEW a \in Survivors(Keeper(levels, c, among), dropped), NEW s, NEW i, NEW x
  PROVE  LET keeper == Keeper(levels, c, among)
             new    == MergedLevels(levels, c, among, dropped)[c]
             k      == Rank(Survivors(keeper, dropped), a)
         IN  Cell(new, s, k, i, x) <=> \E m \in DOMAIN levels[c] : keeper[m] = a /\ Cell(levels[c], s, m, i, x)
<1> DEFINE keeper == Keeper(levels, c, among)
           new    == MergedLevels(levels, c, among, dropped)[c]
           k      == Rank(Survivors(keeper, dropped), a)
<1>1. new[k] = United(levels, c, keeper, a)
  BY MergedRows
<1>2. DOMAIN keeper = DOMAIN levels[c]
  BY KeeperIs DEF Merges
<1> HIDE DEF keeper, new, k
<1>3. \A q : q \in new[k] <=> \E m \in DOMAIN levels[c] : keeper[m] = a /\ q \in levels[c][m]
  BY <1>1, <1>2 DEF United
<1>4. Cell(new, s, k, i, x) <=> \E m \in DOMAIN levels[c] : keeper[m] = a /\ Cell(levels[c], s, m, i, x)
  BY <1>3 DEF Cell
<1> QED  BY <1>4 DEF keeper, new, k

\* What a sweep notes as changed in the level merged: where its changed nodes
\* and its groups' keepers went.
Heads(keeper) == {i \in DOMAIN keeper : keeper[i] = i /\ \E j \in DOMAIN keeper : j # i /\ keeper[j] = i}

\* Marks below a merged level follow it, if nothing is dropped.
LEMMA MergedMarked ==
  ASSUME NEW levels, NEW c, NEW among, Merges(levels, c, among, {}), NEW rows, NEW s, Marked(levels[c], s, rows)
  PROVE  Marked(MergedLevels(levels, c, among, {})[c], s, Noted(Keeper(levels, c, among), {}, rows))
<1> DEFINE keeper == Keeper(levels, c, among)
           S      == Survivors(keeper, {})
           old    == levels[c]
           new    == MergedLevels(levels, c, among, {})[c]
           later  == Noted(Keeper(levels, c, among), {}, rows)
<1>1. /\ \A i \in S : Rank(S, i) \in DOMAIN new
      /\ \A k \in DOMAIN new : \E i \in S : k = Rank(S, i)
      /\ \A i \in DOMAIN old : keeper[i] \in S
      /\ S \subseteq DOMAIN old /\ \A i \in S : keeper[i] = i
  BY MergedRows
<1>2. DOMAIN keeper = DOMAIN old
  BY KeeperIs DEF Merges
<1>3. \A a \in S : \A i, x : Cell(new, s, Rank(S, a), i, x) <=> \E m \in DOMAIN old : keeper[m] = a /\ Cell(old, s, m, i, x)
  BY MergedCells
<1>4. \A m \in rows \cup Heads(keeper) : Rank(S, keeper[m]) \in later
  BY DEF Noted, Heads, Moved
<1> HIDE DEF keeper, S, old, new, later
<1>5. ASSUME NEW i \in Nat, NEW j \in Nat, Names(new, s, i), Same(new, s, i, j), i # j,
             \A k \in later \cap DOMAIN new : \A x \in Nat : ~Cell(new, s, k, i, x)
      PROVE  FALSE
  <2>1. ASSUME NEW m \in DOMAIN old, NEW x \in Nat, NEW u, NEW v, {u, v} = {i, j}, Cell(old, s, m, u, x)
        PROVE  Cell(old, s, m, v, x) /\ m \notin rows
    <3> DEFINE a == keeper[m]
               k == Rank(S, a)
    <3>1. a \in S /\ k \in DOMAIN new
      BY <1>1
    <3>2. Cell(new, s, k, u, x)
      BY <1>3, <2>1, <3>1
    <3>3. Cell(new, s, k, i, x) /\ Cell(new, s, k, v, x)
      <4> HIDE DEF k
      <4> QED  BY <1>5, <2>1, <3>1, <3>2 DEF Same
    <3>4. k \notin later
      <4> HIDE DEF k
      <4> QED  BY <1>5, <3>1, <3>3
    <3>5. m \notin rows
      BY <1>4, <3>4
    <3>6. a \notin Heads(keeper)
      BY <1>1, <1>4, <3>1, <3>4
    <3>7. \A e \in DOMAIN old : keeper[e] = a => e = a
      BY <1>1, <1>2, <3>1, <3>6 DEF Heads
    <3>8. PICK e \in DOMAIN old : keeper[e] = a /\ Cell(old, s, e, v, x)
      BY <1>3, <3>1, <3>3
    <3> QED  BY <3>5, <3>7, <3>8
  <2>2. Same(old, s, i, j)
    BY <2>1 DEF Same
  <2>3. \E m \in DOMAIN old : \E x \in Nat : Cell(old, s, m, i, x)
    <3>1. PICK k \in DOMAIN new, x \in Nat : Cell(new, s, k, i, x)
      BY <1>5 DEF Names
    <3>2. PICK a \in S : k = Rank(S, a)
      BY <1>1
    <3> QED  BY <1>3, <3>1, <3>2
  <2>4. Names(old, s, i)
    BY <2>3 DEF Names
  <2>5. \E k \in rows \cap DOMAIN old : \E x \in Nat : Cell(old, s, k, i, x)
    BY <1>5, <2>2, <2>4 DEF Marked, old
  <2> QED  BY <2>1, <2>5
<1>6. Marked(new, s, later)
  BY <1>5 DEF Marked
<1> QED  BY <1>6 DEF new, later

\* A level none of whose nodes is without a name keeps them all; the level
\* merged loses names only by the nodes dropped.
LEMMA MergedUnread ==
  ASSUME NEW levels, NEW c, NEW among, NEW dropped, Merges(levels, c, among, dropped), NEW t \in Internal, t # Root,
         Unread(MergedLevels(levels, c, among, dropped), t)
  PROVE  /\ Unread(levels, t) \/ (dropped # {} /\ t \in Children(c))
         /\ t = c => \E i \in DOMAIN levels[c] \ dropped : Context(levels, c, i) = {}
<1> DEFINE p == Parent[c]
           new == MergedLevels(levels, c, among, dropped)
           keeper == Keeper(levels, c, among)
           S == Survivors(keeper, dropped)
           s == Side(c)
           f == Moves(levels, c, among, dropped)
<1>0. /\ InRange(levels) /\ Deterministic(levels) /\ c \in Internal /\ c # Root
      /\ among \subseteq DOMAIN levels[c] /\ dropped \subseteq Unnamed(levels, c)
  BY DEF Merges
<1>1. /\ p \in Internal /\ c \in Children(p) /\ p # c /\ 3 - s = Side(Sibling(c)) /\ c \notin Leaf
      /\ Left[c] # c /\ Left[c] # p /\ Right[c] # c /\ Right[c] # p
      /\ Sibling(c) # c /\ Sibling(c) # p /\ Sibling(c) \in Children(p)
  BY <1>0, AroundIs, InternalIs
<1>2. /\ \A u \in Internal \ {c} : DOMAIN new[u] = DOMAIN levels[u]
      /\ \A u \in Internal \ {c, p} : new[u] = levels[u]
  <2>1. (\A u \in Internal \ {c} : DOMAIN new[u] = DOMAIN levels[u]) /\ MergedAs(levels, new, c, keeper, dropped)
    BY <1>0, MergedSound
  <2> HIDE DEF new, keeper
  <2> QED  BY <2>1 DEF MergedAs
<1>3. Parent[t] \in Internal /\ t \in Children(Parent[t])
  BY InternalChild
<1>4. PICK k \in DOMAIN new[t] : ~Names(new[Parent[t]], Side(t), k)
  BY DEF Unread
<1>5. /\ \A i \in S : Rank(S, i) \in DOMAIN new[c]
      /\ \A e \in DOMAIN new[c] : \E i \in S : e = Rank(S, i)
      /\ \A i \in DOMAIN levels[c] : dropped = {} \/ Context(levels, c, i) # {} => keeper[i] \in S
      /\ S \subseteq DOMAIN levels[c] /\ \A i \in S : keeper[i] = i
  BY MergedRows
<1>6. /\ s \in {1, 2} /\ OfNumbers(levels[p]) /\ OfNumbers(new[p]) /\ Follows(levels[p], new[p], s, f, Selves)
  BY MergedFollows
<1>7. \A x \in Nat : f[x] = Moved(keeper, dropped, x)
  BY DEF Moves
<1>8. \A i : Context(levels, c, i) # {} <=> Names(levels[p], s, i)
  BY <1>0, <1>1, ContextCells
<1>9. \A a \in S : \A r, i, x : Cell(new[c], r, Rank(S, a), i, x) <=> \E m \in DOMAIN levels[c] : keeper[m] = a /\ Cell(levels[c], r, m, i, x)
  BY MergedCells
<1>10. \A i \in Nat : Names(levels[p], 3 - s, i) => Names(new[p], 3 - s, i)
  BY MergedFree
<1>11. DOMAIN levels[t] \subseteq Nat /\ DOMAIN levels[c] \subseteq Nat
  BY <1>0, LevelIs
<1> HIDE DEF new, keeper, S, s, f
<1>12. CASE t = c
  <2>1. PICK i \in S : k = Rank(S, i)
    BY <1>4, <1>5, <1>12
  <2>2. i \in DOMAIN levels[c] /\ i \notin dropped /\ keeper[i] = i /\ i \in Nat
    BY <1>5, <1>11 DEF S, Survivors
  <2>3. ASSUME Names(levels[p], s, i) PROVE FALSE
    <3>1. PICK e \in DOMAIN levels[p], x \in Nat : Cell(levels[p], s, e, i, x)
      BY <2>3 DEF Names
    <3>2. f[i] = k
      BY <1>7, <2>1, <2>2 DEF Moved, S
    <3>3. Cell(new[p], s, e, k, x) /\ e \in DOMAIN new[p]
      <4>1. Selves[x] = x
        BY DEF Selves
      <4> QED  BY <1>6, <2>2, <3>1, <3>2, <4>1 DEF Follows
    <3>4. Names(new[p], s, k)
      BY <3>3 DEF Names
    <3> QED  BY <1>4, <1>12, <3>4 DEF s, p
  <2>4. Context(levels, c, i) = {}
    BY <1>8, <2>3
  <2>5. Unread(levels, t)
    BY <1>12, <2>2, <2>3 DEF Unread, s
  <2> QED  BY <2>2, <2>4, <2>5
<1>13. CASE t # c /\ Parent[t] = c
  <2>1. k \in DOMAIN levels[t]
    BY <1>2, <1>4, <1>13
  <2>2. ASSUME dropped = {}, Names(levels[c], Side(t), k) PROVE FALSE
    <3>1. PICK m \in DOMAIN levels[c], x \in Nat : Cell(levels[c], Side(t), m, k, x)
      BY <2>2 DEF Names
    <3>2. keeper[m] \in S
      BY <1>5, <2>2
    <3>3. Cell(new[c], Side(t), Rank(S, keeper[m]), k, x)
      BY <1>9, <3>1, <3>2
    <3>4. Names(new[c], Side(t), k)
      BY <1>5, <3>2, <3>3 DEF Names
    <3> QED  BY <1>4, <1>13, <3>4
  <2>3. dropped = {} => Unread(levels, t)
    BY <1>13, <2>1, <2>2 DEF Unread
  <2> QED  BY <1>3, <1>13, <2>3
<1>14. CASE t # c /\ Parent[t] = p
  <2>1. t = Sibling(c) /\ Side(t) = 3 - s
    <3>1. t \in Children(p)
      BY <1>3, <1>14
    <3>2. t = Sibling(c)
      BY <1>1, <1>14, <3>1 DEF Children
    <3> QED  BY <1>1, <3>2 DEF s
  <2>2. k \in DOMAIN levels[t] /\ k \in Nat
    BY <1>2, <1>4, <1>11, <1>14
  <2>3. ~Names(levels[p], Side(t), k)
    BY <1>4, <1>10, <1>14, <2>1, <2>2
  <2> QED  BY <1>14, <2>2, <2>3 DEF Unread
<1>15. CASE t # c /\ Parent[t] # c /\ Parent[t] # p
  <2>1. new[Parent[t]] = levels[Parent[t]] /\ DOMAIN new[t] = DOMAIN levels[t]
    BY <1>2, <1>3, <1>15
  <2> QED  BY <1>4, <1>15, <2>1 DEF Unread
<1> QED  BY <1>12, <1>13, <1>14, <1>15

\* The record a merge returns.
LEMMA ContractTwinsIs ==
  ASSUME NEW d, Sound(d), NEW c, NEW among, NEW dropped
  PROVE  ContractTwins(d, c, among, dropped)
           = Diagram(MergedLevels(d.levels, c, among, dropped), d.out, d.contract \cup {c, Parent[c]}, d.leaves \cup {c, Parent[c]},
                     LooseAfter(d, c, dropped), FALSE)
<1> DEFINE new == MergedLevels(d.levels, c, among, dropped)
           loose == LooseAfter(d, c, dropped)
           cs == d.contract \cup {c, Parent[c]}
           vs == d.leaves \cup {c, Parent[c]}
           no == FALSE
           base == Invalidate(d, {c, Parent[c]})
<1>1. ContractTwins(d, c, among, dropped) = [base EXCEPT !.levels = new, !.loose = loose]
  BY DEF ContractTwins, MergedLevels
<1>2. base = Diagram(d.levels, d.out, cs, vs, Unknown, no)
  <2>1. d = Diagram(d.levels, d.out, d.contract, d.leaves, d.loose, d.certified)
    BY SoundIs
  <2> QED  BY <2>1 DEF Invalidate, Diagram
<1> HIDE DEF new, loose, cs, vs, no, base
<1>3. [base EXCEPT !.levels = new, !.loose = loose] = [[base EXCEPT !.levels = new] EXCEPT !.loose = loose]
  OBVIOUS
<1>4. [base EXCEPT !.levels = new] = Diagram(new, d.out, cs, vs, Unknown, no)
  BY <1>2 DEF Diagram
<1>5. [Diagram(new, d.out, cs, vs, Unknown, no) EXCEPT !.loose = loose] = Diagram(new, d.out, cs, vs, loose, no)
  BY DEF Diagram
<1> QED  BY <1>1, <1>3, <1>4, <1>5 DEF new, loose, cs, vs, no

\* A search drops unnamed nodes only, and all of them where it knows the level
\* tight.
Reports(d, c, finding) ==
  /\ finding.dropped \subseteq Unnamed(d.levels, c)
  /\ finding.tight => finding.dropped = Unnamed(d.levels, c)

\* Every finding of a search reports so.
LEMMA FindingReports ==
  ASSUME NEW d, InRange(d.levels), NEW c \in Internal, NEW finding \in Findings(d, c) \cup ListedFindings
  PROVE  Reports(d, c, finding)
<1> DEFINE unnamed == Unnamed(d.levels, c)
           listed == IF Cardinality(unnamed) >= 2 THEN unnamed ELSE {}
           sure == Cardinality(unnamed) # 1
<1>1. \/ finding = [dropped |-> {}, tight |-> FALSE]
      \/ finding = [dropped |-> listed, tight |-> FALSE]
      \/ finding = [dropped |-> listed, tight |-> sure]
  BY DEF Findings, ListedFindings
<1>2. IsFiniteSet(unnamed) /\ Cardinality(unnamed) \in Nat
  <2>1. DOMAIN d.levels[c] = 1 .. Len(d.levels[c]) /\ Len(d.levels[c]) \in Nat
    BY LevelIs
  <2>2. IsFiniteSet(DOMAIN d.levels[c])
    BY <2>1, UpToFinite
  <2>3. unnamed \subseteq DOMAIN d.levels[c]
    BY DEF Unnamed
  <2> HIDE DEF unnamed
  <2> QED  BY <2>2, <2>3, FS_Subset, FS_CardinalityType
<1>3. sure => listed = unnamed
  <2>1. Cardinality(unnamed) = 0 => unnamed = {}
    <3> HIDE DEF unnamed
    <3> QED  BY <1>2, FS_EmptySet
  <2> HIDE DEF unnamed
  <2> QED  BY <1>2, <2>1
<1>4. listed \subseteq unnamed
  OBVIOUS
<1> HIDE DEF listed, sure, unnamed
<1>5. finding.dropped \subseteq unnamed /\ (finding.tight => finding.dropped = unnamed)
  <2>1. CASE finding = [dropped |-> {}, tight |-> FALSE]
    BY <2>1
  <2>2. CASE finding = [dropped |-> listed, tight |-> FALSE]
    BY <1>4, <2>2
  <2>3. CASE finding = [dropped |-> listed, tight |-> sure]
    BY <1>3, <1>4, <2>3
  <2> QED  BY <1>1, <2>1, <2>2, <2>3
<1> QED  BY <1>5 DEF Reports, unnamed

Firing(d, c, among, finding) == HasTwins(d.levels, c, among) \/ finding.dropped # {}

\* The record contract_child leaves.
Contracted(d, c, dropped, tight, fires, new, made) ==
  /\ made.levels = IF fires THEN new ELSE d.levels
  /\ made.out = d.out
  /\ made.contract = IF fires THEN d.contract \cup {c, Parent[c]} ELSE d.contract
  /\ made.leaves = IF fires THEN d.leaves \cup {c, Parent[c]} ELSE d.leaves
  /\ made.certified = (~fires /\ d.certified)
  /\ made.loose # Unknown =>
       /\ d.loose # Unknown
       /\ d.loose \cup (IF dropped = {} THEN {} ELSE Children(c) \ Leaf) \subseteq made.loose \cup (IF tight THEN {c} ELSE {})

\* contract_child, field by field.
LEMMA ContractChildIs ==
  ASSUME NEW d, Sound(d), NEW c \in Internal, c # Root, NEW among, NEW finding
  PROVE  Contracted(d, c, finding.dropped, finding.tight, Firing(d, c, among, finding),
                    MergedLevels(d.levels, c, among, finding.dropped), ContractChild(d, c, among, finding))
<1> DEFINE made == ContractChild(d, c, among, finding)
           fires == Firing(d, c, among, finding)
           merged == IF fires THEN ContractTwins(d, c, among, finding.dropped) ELSE d
<1>1. made = IF finding.tight /\ d.loose # Unknown THEN [merged EXCEPT !.loose = merged.loose \ {c}] ELSE merged
  BY DEF ContractChild, Firing
<1>2. d = Diagram(d.levels, d.out, d.contract, d.leaves, d.loose, d.certified) /\ d.certified \in BOOLEAN
      /\ (d.loose = Unknown \/ d.loose \subseteq Internal \ {Root})
  BY SoundIs
<1> DEFINE l == IF fires THEN MergedLevels(d.levels, c, among, finding.dropped) ELSE d.levels
           cs == IF fires THEN d.contract \cup {c, Parent[c]} ELSE d.contract
           vs == IF fires THEN d.leaves \cup {c, Parent[c]} ELSE d.leaves
           lo == IF fires THEN LooseAfter(d, c, finding.dropped) ELSE d.loose
           ce == ~fires /\ d.certified
<1>3. merged = Diagram(l, d.out, cs, vs, lo, ce)
  <2>1. CASE fires
    <3>1. ContractTwins(d, c, among, finding.dropped)
           = Diagram(MergedLevels(d.levels, c, among, finding.dropped), d.out, d.contract \cup {c, Parent[c]}, d.leaves \cup {c, Parent[c]},
                     LooseAfter(d, c, finding.dropped), FALSE)
      BY ContractTwinsIs
    <3> HIDE DEF fires
    <3> QED  BY <2>1, <3>1
  <2>2. CASE ~fires
    <3>1. ce = d.certified
      BY <1>2, <2>2
    <3> HIDE DEF fires, ce
    <3> QED  BY <1>2, <2>2, <3>1
  <2> QED  BY <2>1, <2>2
<1>4. lo = IF d.loose = Unknown \/ finding.dropped = {} THEN d.loose ELSE d.loose \cup (Children(c) \ Leaf)
  BY DEF LooseAfter, Firing
<1> HIDE DEF merged, made, l, cs, vs, lo, ce, fires
<1>5. [merged EXCEPT !.loose = merged.loose \ {c}] = Diagram(l, d.out, cs, vs, lo \ {c}, ce)
  BY <1>3 DEF Diagram
<1>6. \E x : made = Diagram(l, d.out, cs, vs, x, ce) /\ (x = lo \/ (finding.tight /\ d.loose # Unknown /\ x = lo \ {c}))
  BY <1>1, <1>3, <1>5
<1>7. made.levels = l /\ made.out = d.out /\ made.contract = cs /\ made.leaves = vs /\ made.certified = ce
      /\ (made.loose = lo \/ (finding.tight /\ d.loose # Unknown /\ made.loose = lo \ {c}))
  BY <1>6 DEF Diagram
<1>8. made.loose # Unknown =>
        /\ d.loose # Unknown
        /\ d.loose \cup (IF finding.dropped = {} THEN {} ELSE Children(c) \ Leaf) \subseteq made.loose \cup (IF finding.tight THEN {c} ELSE {})
  BY <1>4, <1>7
<1> DEFINE new == MergedLevels(d.levels, c, among, finding.dropped)
           dropped == finding.dropped
           tight == finding.tight
<1>9. /\ l = IF fires THEN new ELSE d.levels
      /\ cs = IF fires THEN d.contract \cup {c, Parent[c]} ELSE d.contract
      /\ vs = IF fires THEN d.leaves \cup {c, Parent[c]} ELSE d.leaves
      /\ ce = (~fires /\ d.certified)
  BY DEF l, cs, vs, ce
<1> HIDE DEF new, dropped, tight
<1>10. Contracted(d, c, dropped, tight, fires, new, made)
  BY <1>7, <1>8, <1>9 DEF Contracted, dropped, tight
<1> QED  BY <1>10 DEF new, dropped, tight, fires, made

\* What a searched child is left as, and the rest of the diagram with it.
LEMMA ChildKeeps ==
  ASSUME NEW d, Sound(d), NEW c \in Internal, c # Root, NEW among, among \subseteq DOMAIN d.levels[c],
         NEW finding, Reports(d, c, finding)
  PROVE  LET made == ContractChild(d, c, among, finding)
             fires == Firing(d, c, among, finding)
         IN  /\ Listed(d) => Listed(made)
             /\ Trim(d) => Trim(made)
             /\ \A t \in Internal \ {c, Parent[c]} : made.levels[t] = d.levels[t]
             /\ Trim(d) /\ FreeOff(d, {}) => ~fires
<1> DEFINE made == ContractChild(d, c, among, finding)
           fires == Firing(d, c, among, finding)
           dropped == finding.dropped
           new == MergedLevels(d.levels, c, among, dropped)
           p == Parent[c]
<1>1. InRange(d.levels) /\ Deterministic(d.levels) /\ (d.loose = Unknown \/ d.loose \subseteq Internal \ {Root})
  BY SoundIs
<1>2. Merges(d.levels, c, among, dropped)
  BY <1>1 DEF Merges, Reports
<1>3. /\ made.levels = IF fires THEN new ELSE d.levels
      /\ made.out = d.out
      /\ made.loose # Unknown =>
           /\ d.loose # Unknown
           /\ d.loose \cup (IF dropped = {} THEN {} ELSE Children(c) \ Leaf) \subseteq made.loose \cup (IF finding.tight THEN {c} ELSE {})
  <2> DEFINE tight == finding.tight
  <2>1. Contracted(d, c, dropped, tight, fires, new, made)
    BY ContractChildIs
  <2> HIDE DEF dropped, tight, fires, new, made
  <2>2. /\ made.levels = IF fires THEN new ELSE d.levels
        /\ made.out = d.out
        /\ made.loose # Unknown =>
             /\ d.loose # Unknown
             /\ d.loose \cup (IF dropped = {} THEN {} ELSE Children(c) \ Leaf) \subseteq made.loose \cup (IF tight THEN {c} ELSE {})
    BY <2>1 DEF Contracted
  <2> QED  BY <2>2 DEF tight
<1>4. Sound(made) /\ \A t \in Internal \ {c} : DOMAIN made.levels[t] = DOMAIN d.levels[t]
  <2>1. finding.dropped \in SUBSET Unnamed(d.levels, c)
    BY DEF Reports
  <2>2. Sound(ContractChild(d, c, among, finding))
        /\ \A t \in Internal \ {c} : DOMAIN ContractChild(d, c, among, finding).levels[t] = DOMAIN d.levels[t]
    BY <2>1, ContractChildKeeps
  <2> QED  BY <2>2
<1>5. p \in Internal /\ c \in Children(p) /\ p # c /\ c \notin Leaf
  BY AroundIs, InternalIs
<1>6. InRange(made.levels)
  <2> HIDE DEF made
  <2> QED  BY <1>4, SoundIs
<1>7. \A t \in Internal \ {c, p} : new[t] = d.levels[t]
  <2>1. MergedAs(d.levels, new, c, Keeper(d.levels, c, among), dropped)
    <3> HIDE DEF dropped
    <3> QED  BY <1>2, MergedSound DEF Merges
  <2> HIDE DEF new, dropped
  <2> QED  BY <2>1 DEF MergedAs
<1>8. HasUnnamed(made) = {t \in Internal \ {Root} : Unread(made.levels, t)} /\ HasUnnamed(d) = {t \in Internal \ {Root} : Unread(d.levels, t)}
  <2> HIDE DEF made
  <2> QED  BY <1>1, <1>6, UnnamedIs
<1>9. \A i : Context(d.levels, c, i) # {} <=> Names(d.levels[p], Side(c), i)
  BY <1>1, <1>5, ContextCells
<1>10. Reports(d, c, finding)
  OBVIOUS
<1>11. ASSUME NEW t \in Internal \ {Root}, Unread(new, t)
       PROVE  (Unread(d.levels, t) \/ (dropped # {} /\ t \in Children(c)))
              /\ (t = c => \E i \in DOMAIN d.levels[c] \ dropped : Context(d.levels, c, i) = {})
  <2> HIDE DEF dropped
  <2> QED  BY <1>2, <1>11, MergedUnread DEF new
<1> HIDE DEF made, fires, new
<1>12. ASSUME NEW t \in HasUnnamed(made) PROVE t \in HasUnnamed(d) \/ (dropped # {} /\ t \in Children(c) \ Leaf)
  <2>1. t \notin Leaf
    BY <1>8, InternalIs
  <2> QED  BY <1>3, <1>8, <1>11, <2>1
<1>13. finding.tight => c \notin HasUnnamed(made)
  <2>1. ASSUME finding.tight, c \in HasUnnamed(made) PROVE FALSE
    <3>1. dropped = Unnamed(d.levels, c)
      BY <1>10, <2>1 DEF Reports
    <3>2. CASE fires
      <4>1. Unread(new, c)
        BY <1>3, <1>8, <2>1, <3>2
      <4>2. PICK i \in DOMAIN d.levels[c] \ dropped : Context(d.levels, c, i) = {}
        BY <1>11, <4>1
      <4> QED  BY <3>1, <4>2 DEF Unnamed, IsNamed
    <3>3. CASE ~fires
      <4>1. dropped = {}
        BY <3>3 DEF fires, Firing
      <4>2. Unread(d.levels, c)
        BY <1>3, <1>8, <2>1, <3>3
      <4> QED  BY <1>9, <3>1, <4>1, <4>2 DEF Unread, Unnamed, IsNamed
    <3> QED  BY <3>2, <3>3
  <2> QED  BY <2>1
<1>14. ASSUME Listed(d), made.loose # Unknown, NEW t \in HasUnnamed(made) PROVE t \in made.loose
  BY <1>3, <1>12, <1>13, <1>14 DEF Listed
<1>15. HasUnnamed(d) = {} => dropped = {}
  <2>1. ASSUME NEW i \in dropped PROVE c \in HasUnnamed(d)
    <3>1. i \in DOMAIN d.levels[c] /\ Context(d.levels, c, i) = {}
      BY <1>10 DEF Reports, Unnamed, IsNamed
    <3> QED  BY <1>8, <1>9, <3>1 DEF Unread
  <2> QED  BY <2>1
<1>16. ASSUME Trim(d) PROVE Trim(made)
  <2>1. HasUnnamed(made) = {}
    BY <1>12, <1>15, <1>16 DEF Trim
  <2>2. DOMAIN made.levels[Root] = DOMAIN d.levels[Root]
    BY <1>4, RootIs
  <2> QED  BY <1>3, <1>16, <2>1, <2>2 DEF Trim
<1>17. ASSUME Trim(d), FreeOff(d, {}) PROVE ~fires
  <2>1. dropped = {}
    BY <1>15, <1>17 DEF Trim
  <2>2. Free(d.levels[p], Side(c))
    BY <1>5, <1>17 DEF FreeOff, FreeAt
  <2>3. DOMAIN d.levels[c] \subseteq Nat
    BY <1>1, LevelIs
  <2>4. \A i, j \in among : Names(d.levels[p], Side(c), i) /\ Same(d.levels[p], Side(c), i, j) => i = j
    BY <2>2, <2>3 DEF Free
  <2>5. ~HasTwins(d.levels, c, among)
    BY <1>1, <1>5, <2>4, HasTwinsIs
  <2> QED  BY <2>1, <2>5 DEF fires, Firing
<1> QED  BY <1>3, <1>7, <1>14, <1>16, <1>17 DEF Listed, made, fires

-------------------------------------------------------------------------------
(***************************************************************************)
(* The leaf pass.                                                          *)
(***************************************************************************)
\* The renaming of a folded side.
ToOne == [x \in Nat |-> 3]

\* Folding a leaf's polarities renames them, and leaves none to fold.
LEMMA FoldFollows ==
  ASSUME NEW levels, InRange(levels), NEW t \in Internal, NEW c \in Children(t), c \in Leaf,
         \A i, j \in DOMAIN levels[t] : OneForm(t, levels[t][i], levels[t][j]), Foldable(levels[t], Side(c))
  PROVE  LET old == levels[t]
             new == AsOne(levels[t], c)
             s   == Side(c)
         IN  /\ s \in {1, 2} /\ OfNumbers(old) /\ OfNumbers(new) /\ Follows(old, new, s, ToOne, Selves)
             /\ Respects(old, s, ToOne) /\ Respects(old, 3 - s, Selves)
             /\ ~Foldable(new, s)
<1> DEFINE old == levels[t]
           new == AsOne(levels[t], c)
           s   == Side(c)
<1>1. OfNumbers(old) /\ s \in {1, 2}
  BY ContextCells
<1>2. 3 - s = Side(Sibling(c)) /\ 3 - s \in {1, 2}
  <2>1. c = Left[t] \/ c = Right[t]
    BY DEF Children
  <2> QED  BY <2>1, SiblingOf
<1>3. DOMAIN new = DOMAIN old
  BY DEF AsOne
<1>4. ASSUME NEW k \in DOMAIN old, NEW r \in old[k]
      PROVE  /\ Renamed(r, c, One) \in new[k] /\ Renamed(r, c, One)[s] = 3 /\ Renamed(r, c, One)[3 - s] = r[3 - s]
             /\ Renamed(r, c, One) = <<Renamed(r, c, One)[1], Renamed(r, c, One)[2]>>
             /\ r[s] \in Nat /\ r[3 - s] \in Nat /\ Cell(old, s, k, r[s], r[3 - s])
  <2>1. Renamed(r, c, One) \in new[k]
    BY DEF AsOne
  <2>2. /\ Renamed(r, c, One) = <<Renamed(r, c, One)[1], Renamed(r, c, One)[2]>>
        /\ Renamed(r, c, One)[Side(c)] = One /\ Renamed(r, c, One)[Side(Sibling(c))] = r[Side(Sibling(c))]
    BY RenamedIs
  <2>3. Cell(old, s, k, r[s], r[3 - s])
    BY DEF Cell
  <2>4. r[s] \in Nat /\ r[3 - s] \in Nat
    <3> HIDE DEF old, s
    <3> QED  BY <1>1, <2>3, CellTurned
  <2> QED  BY <1>2, <2>1, <2>2, <2>3, <2>4 DEF One
<1>5. ASSUME NEW k \in DOMAIN old, NEW q \in new[k] PROVE \E r \in old[k] : q = Renamed(r, c, One)
  BY DEF AsOne
<1>6. \A k \in DOMAIN old : \A x, y : Cell(old, s, k, x, y) => x \in {1, 2, 3}
  <2>1. ASSUME NEW k \in DOMAIN old, NEW q \in old[k] PROVE q[s] \in {1, 2, 3}
    BY SidesIs, LeafSlots
  <2> QED  BY <2>1 DEF Cell
<1>7. \A k, m \in DOMAIN old : \A x, y, u, v : Cell(old, s, k, x, u) /\ Cell(old, s, m, y, v) => (x = 3 <=> y = 3)
  <2>1. ASSUME NEW k \in DOMAIN old, NEW m \in DOMAIN old, NEW p \in old[k], NEW q \in old[m] PROVE p[s] = 3 <=> q[s] = 3
    BY OneFormSides
  <2> QED  BY <2>1 DEF Cell
<1>8. Foldable(old, s)
  OBVIOUS
<1> HIDE DEF old, new, s
<1>9. OfNumbers(new)
  <2>1. ASSUME NEW k \in DOMAIN old, NEW q \in new[k] PROVE q \in Nat \X Nat
    <3>1. PICK r \in old[k] : q = Renamed(r, c, One)
      BY <1>5
    <3>2. q = <<q[1], q[2]>> /\ q[s] \in Nat /\ q[3 - s] \in Nat
      BY <1>4, <3>1
    <3>3. q[1] \in Nat /\ q[2] \in Nat
      BY <1>1, <3>2
    <3> QED  BY <3>2, <3>3
  <2> QED  BY <1>3, <2>1 DEF OfNumbers
<1>10. ASSUME NEW k \in DOMAIN old, NEW a, NEW b
       PROVE  Cell(new, s, k, a, b) <=> \E x, y \in Nat : Cell(old, s, k, x, y) /\ a = ToOne[x] /\ b = Selves[y]
  <2>1. \A x \in Nat : ToOne[x] = 3 /\ Selves[x] = x
    BY DEF ToOne, Selves
  <2>2. ASSUME Cell(new, s, k, a, b) PROVE \E x, y \in Nat : Cell(old, s, k, x, y) /\ a = ToOne[x] /\ b = Selves[y]
    <3>1. PICK q \in new[k] : q[s] = a /\ q[3 - s] = b
      BY <2>2 DEF Cell
    <3>2. PICK r \in old[k] : q = Renamed(r, c, One)
      BY <1>5
    <3> QED  BY <1>4, <2>1, <3>1, <3>2
  <2>3. ASSUME NEW x \in Nat, NEW y \in Nat, Cell(old, s, k, x, y), a = ToOne[x], b = Selves[y] PROVE Cell(new, s, k, a, b)
    <3>1. PICK r \in old[k] : r[s] = x /\ r[3 - s] = y
      BY <2>3 DEF Cell
    <3>2. Renamed(r, c, One) \in new[k] /\ Renamed(r, c, One)[s] = a /\ Renamed(r, c, One)[3 - s] = b
      BY <1>4, <2>1, <2>3, <3>1
    <3> QED  BY <3>2 DEF Cell
  <2> QED  BY <2>2, <2>3
<1>11. Follows(old, new, s, ToOne, Selves)
  BY <1>3, <1>10 DEF Follows
<1>12. \A k \in DOMAIN old : \A x : ~Cell(old, s, k, 3, x)
  <2>1. PICK m \in DOMAIN old, y \in Nat, r \in {1, 2} : Cell(old, s, m, r, y)
    BY <1>8 DEF Foldable, Names
  <2> QED  BY <1>7, <2>1
<1>13. ASSUME NEW k \in DOMAIN old, NEW x \in Nat PROVE Cell(old, s, k, 1, x) <=> Cell(old, s, k, 2, x)
  <2>1. BothOrOne(old, s, k)
    BY <1>8 DEF Foldable
  <2> QED  BY <2>1 DEF BothOrOne
<1>14. \A x : Names(old, s, x) => x \in {1, 2}
  BY <1>6, <1>12 DEF Names
<1>15. \A x, y \in {1, 2} : Same(old, s, x, y)
  BY <1>13 DEF Same
<1>16. Respects(old, s, ToOne)
  BY <1>14, <1>15 DEF Respects
<1>17. Respects(old, 3 - s, Selves)
  BY DEF Respects, Selves, Same
<1>18. \A k \in DOMAIN new : \A a, b : Cell(new, s, k, a, b) => a = 3
  <2>1. \A x \in Nat : ToOne[x] = 3
    BY DEF ToOne
  <2> QED  BY <1>3, <1>10, <2>1
<1>19. ~Foldable(new, s)
  BY <1>18 DEF Foldable, Names
<1> QED  BY <1>1, <1>9, <1>11, <1>16, <1>17, <1>19 DEF old, new, s

\* A fold changes one level, and only for the better.
LEMMA FoldKeeps ==
  ASSUME NEW d, Sound(d), Trim(d), NEW t \in Internal, NEW c \in Children(t), c \in Leaf
  PROVE  LET made == ContractLeaf(d, c)
         IN  /\ Trim(made)
             /\ Listed(d) => Listed(made)
             /\ Certain(d) => Certain(made)
             /\ \A u \in Internal \ {t} : made.levels[u] = d.levels[u]
             /\ FreeAt(d.levels[t], t) => FreeAt(made.levels[t], t)
             /\ ~Foldable(made.levels[t], Side(c))
             /\ \A e \in Children(t) \ {c} : ~Foldable(d.levels[t], Side(e)) => ~Foldable(made.levels[t], Side(e))
<1> DEFINE made == ContractLeaf(d, c)
           old  == d.levels[t]
           node == [k \in DOMAIN old |-> {Renamed(pair, c, One) : pair \in old[k]}]
           s    == Side(c)
<1>0. Parent[c] = t /\ s \in {1, 2}
  BY ParentOf
<1>1. made = IF LeafTwins(d.levels, c) THEN Releveled(d, t, node) ELSE d
  BY <1>0 DEF ContractLeaf, Releveled
<1>2. InRange(d.levels) /\ Deterministic(d.levels)
      /\ d = Diagram(d.levels, d.out, d.contract, d.leaves, d.loose, d.certified)
  BY SoundIs
<1>3. LeafTwins(d.levels, c) <=> Foldable(old, s)
  BY <1>2, LeafTwinsIs
<1>4. CASE ~LeafTwins(d.levels, c)
  BY <1>1, <1>3, <1>4
<1>5. CASE LeafTwins(d.levels, c)
  <2>1. made = Diagram([d.levels EXCEPT ![t] = node], d.out, d.contract \cup {t}, d.leaves \cup {t}, Unknown, FALSE)
    <3> HIDE DEF node, made
    <3> QED  BY <1>1, <1>2, <1>5, ReleveledIs
  <2>2. DOMAIN d.levels = Internal
    BY <1>2 DEF InRange
  <2>3. /\ made.loose = Unknown /\ ~made.certified /\ made.out = d.out
        /\ made.levels[t] = node /\ \A u \in Internal \ {t} : made.levels[u] = d.levels[u]
    <3> HIDE DEF node, made
    <3> QED  BY <2>1, <2>2 DEF Diagram
  <2>4. Sound(made) /\ \A u \in Internal : DOMAIN made.levels[u] = DOMAIN d.levels[u]
    BY ContractLeafSound
  <2>5. node = AsOne(old, c)
    BY DEF AsOne
  <2>6. \A i, j \in DOMAIN old : OneForm(t, old[i], old[j])
    <3>1. t = Root => \A i, j \in DOMAIN old : i = j
      BY DEF Trim
    <3> QED  BY <1>2, <3>1, DeterministicIs
  <2>7. /\ OfNumbers(old) /\ OfNumbers(node) /\ Follows(old, node, s, ToOne, Selves)
        /\ Respects(old, s, ToOne) /\ Respects(old, 3 - s, Selves)
        /\ ~Foldable(node, s)
    <3>1. Foldable(d.levels[t], Side(c))
      BY <1>3, <1>5
    <3>2. LET new == AsOne(d.levels[t], c)
          IN  /\ Side(c) \in {1, 2} /\ OfNumbers(d.levels[t]) /\ OfNumbers(new) /\ Follows(d.levels[t], new, Side(c), ToOne, Selves)
              /\ Respects(d.levels[t], Side(c), ToOne) /\ Respects(d.levels[t], 3 - Side(c), Selves)
              /\ ~Foldable(new, Side(c))
      BY <1>2, <2>6, <3>1, FoldFollows
    <3> HIDE DEF node
    <3> QED  BY <2>5, <3>2
  <2> HIDE DEF made, old, node, s
  <2>8. 3 - s \in {1, 2} /\ 3 - (3 - s) = s
    BY <1>0
  <2>9. Follows(old, node, 3 - s, Selves, ToOne)
    BY <1>0, <2>7, FollowsTurned
  <2>10. ASSUME NEW e \in Children(t) \ {c} PROVE Side(e) = 3 - s
    BY <1>0, ParentOf DEF s, Children
  <2>11. \A e \in Children(t) : e # c => Side(e) = 3 - s
    BY <2>10
  <2>12. Free(old, 3 - s) => Free(node, 3 - s)
    BY <2>7, <2>8, <2>9, QuotientFree
  <2>13. FreeAt(old, t) => FreeAt(node, t)
    <3>1. \A e \in Children(t) : e \notin Leaf => e # c
      OBVIOUS
    <3> QED  BY <2>11, <2>12, <3>1 DEF FreeAt
  <2>14. ~Foldable(old, 3 - s) => ~Foldable(node, 3 - s)
    <3>1. \A x \in Nat : Names(old, 3 - s, x) => Selves[x] = x
      BY DEF Selves
    <3> QED  BY <2>7, <2>8, <2>9, <3>1, QuotientFoldable
  <2>15. InRange(made.levels)
    BY <2>4, SoundIs
  <2>16. ASSUME NEW u \in Internal \ {Root}, Unread(made.levels, u) PROVE Unread(d.levels, u)
    <3>1. Parent[u] \in Internal /\ u \in Children(Parent[u]) /\ u \notin Leaf
      BY InternalChild
    <3>2. CASE Parent[u] # t
      <4>1. made.levels[Parent[u]] = d.levels[Parent[u]]
        BY <2>3, <3>1, <3>2
      <4> QED  BY <2>4, <2>16, <4>1 DEF Unread
    <3>3. CASE Parent[u] = t
      <4>1. Side(u) = 3 - s
        BY <2>11, <3>1, <3>3
      <4>2. PICK i \in DOMAIN d.levels[u] : ~Names(node, 3 - s, i)
        BY <2>3, <2>4, <2>16, <3>3, <4>1 DEF Unread
      <4>3. i \in Nat
        BY <1>2, LevelIs
      <4>4. ASSUME Names(old, 3 - s, i) PROVE Names(node, 3 - s, i)
        <5>1. PICK k \in DOMAIN old, x \in Nat : Cell(old, 3 - s, k, i, x)
          BY <4>4 DEF Names
        <5>2. Selves[i] = i /\ ToOne[x] = 3
          BY <4>3 DEF Selves, ToOne
        <5>3. Cell(node, 3 - s, k, i, 3) /\ k \in DOMAIN node
          BY <2>9, <4>3, <5>1, <5>2 DEF Follows
        <5> QED  BY <5>3 DEF Names
      <4> QED  BY <3>3, <4>1, <4>2, <4>4 DEF Unread, old
    <3> QED  BY <3>2, <3>3
  <2>17. HasUnnamed(made) \subseteq HasUnnamed(d)
    BY <1>2, <2>15, <2>16, UnnamedIs
  <2>18. Trim(made)
    BY <2>3, <2>4, <2>17, RootIs DEF Trim
  <2> QED  BY <2>3, <2>7, <2>11, <2>13, <2>14, <2>18 DEF Listed, Certain, made, old, s
<1> QED  BY <1>4, <1>5

\* Both leaves of a level.
LEMMA FoldsKeep ==
  ASSUME NEW d, Sound(d), Trim(d), NEW t \in Internal
  PROVE  LET made == ContractLeafSides(d, t)
         IN  /\ Trim(made)
             /\ Listed(d) => Listed(made)
             /\ Certain(d) => Certain(made)
             /\ FreeOff(d, {}) => FreeOff(made, {})
             /\ \A off : FoldedOff(d, off) => FoldedOff(made, off \ {t})
<1> DEFINE left == IF Left[t] \in Leaf THEN ContractLeaf(d, Left[t]) ELSE d
           made == ContractLeafSides(d, t)
<1>0. /\ Left[t] \in Children(t) /\ Right[t] \in Children(t) /\ Children(t) = {Left[t], Right[t]} /\ Left[t] # Right[t]
  BY InternalIs DEF Children
<1>1. /\ Sound(left) /\ Trim(left) /\ (Listed(d) => Listed(left)) /\ (Certain(d) => Certain(left))
      /\ \A u \in Internal \ {t} : left.levels[u] = d.levels[u]
      /\ FreeAt(d.levels[t], t) => FreeAt(left.levels[t], t)
      /\ Left[t] \in Leaf => ~Foldable(left.levels[t], Side(Left[t]))
  <2>1. CASE Left[t] \in Leaf
    BY <1>0, <2>1, FoldKeeps, ContractLeafSound
  <2>2. CASE Left[t] \notin Leaf
    BY <2>2
  <2> QED  BY <2>1, <2>2
<1>2. made = IF Right[t] \in Leaf THEN ContractLeaf(left, Right[t]) ELSE left
  BY DEF ContractLeafSides
<1> HIDE DEF left
<1>3. /\ Trim(made) /\ (Listed(left) => Listed(made)) /\ (Certain(left) => Certain(made))
      /\ \A u \in Internal \ {t} : made.levels[u] = left.levels[u]
      /\ FreeAt(left.levels[t], t) => FreeAt(made.levels[t], t)
      /\ Right[t] \in Leaf => ~Foldable(made.levels[t], Side(Right[t]))
      /\ ~Foldable(left.levels[t], Side(Left[t])) => ~Foldable(made.levels[t], Side(Left[t]))
  <2>1. CASE Right[t] \in Leaf
    BY <1>0, <1>1, <1>2, <2>1, FoldKeeps
  <2>2. CASE Right[t] \notin Leaf
    BY <1>1, <1>2, <2>2
  <2> QED  BY <2>1, <2>2
<1> HIDE DEF made
<1>4. FreeOff(d, {}) => FreeOff(made, {})
  BY <1>1, <1>3 DEF FreeOff
<1>5. FoldedAt(made.levels[t], t)
  BY <1>0, <1>1, <1>3 DEF FoldedAt
<1>6. ASSUME NEW off, FoldedOff(d, off), NEW u \in Internal, u \notin off \ {t} PROVE FoldedAt(made.levels[u], u)
  <2>1. CASE u = t
    BY <1>5, <2>1
  <2>2. CASE u # t
    BY <1>1, <1>3, <1>6, <2>2 DEF FoldedOff
  <2> QED  BY <2>1, <2>2
<1>7. \A off : FoldedOff(d, off) => FoldedOff(made, off \ {t})
  BY <1>6 DEF FoldedOff
<1> QED  BY <1>1, <1>3, <1>4, <1>7 DEF made

-------------------------------------------------------------------------------
(***************************************************************************)
(* What a diagram owes, kept track of: nothing twinned off the lists, the  *)
(* loose levels known, and the certificate earned.                         *)
(***************************************************************************)
Kempt(d) == FreeOff(d, d.contract) /\ FoldedOff(d, d.leaves) /\ Listed(d) /\ Certain(d)

\* Only listed levels changed, or were emptied.
ListedChange(d, made) ==
  /\ d.contract \subseteq made.contract /\ d.leaves \subseteq made.leaves
  /\ \A t \in Internal : t \notin made.contract \cap made.leaves => made.levels[t] = d.levels[t] \/ made.levels[t] = <<>>

\* A diagram that changed on its lists, and forgot what it knew, is kempt.
LEMMA ListedChangeKempt ==
  ASSUME NEW d, Kempt(d), NEW made, ListedChange(d, made), made.loose = Unknown, ~made.certified
  PROVE  Kempt(made)
<1>1. ASSUME NEW t \in Internal, t \notin made.contract PROVE FreeAt(made.levels[t], t)
  <2>1. FreeAt(d.levels[t], t)
    BY <1>1 DEF Kempt, FreeOff, ListedChange
  <2>2. made.levels[t] = d.levels[t] \/ made.levels[t] = <<>>
    BY <1>1 DEF ListedChange
  <2>3. FreeAt(<<>>, t)
    BY EmptyIs
  <2> QED  BY <2>1, <2>2, <2>3
<1>2. ASSUME NEW t \in Internal, t \notin made.leaves PROVE FoldedAt(made.levels[t], t)
  <2>1. FoldedAt(d.levels[t], t)
    BY <1>2 DEF Kempt, FoldedOff, ListedChange
  <2>2. made.levels[t] = d.levels[t] \/ made.levels[t] = <<>>
    BY <1>2 DEF ListedChange
  <2>3. FoldedAt(<<>>, t)
    BY EmptyIs
  <2> QED  BY <2>1, <2>2, <2>3
<1>3. FreeOff(made, made.contract)
  BY <1>1 DEF FreeOff
<1>4. FoldedOff(made, made.leaves)
  BY <1>2 DEF FoldedOff
<1> QED  BY <1>3, <1>4 DEF Kempt, Listed, Certain

-------------------------------------------------------------------------------
(* Conditioning. *)

\* A restriction changes the level above the leaf alone, and lists it.
LEMMA RestrictedChange ==
  ASSUME NEW d, Sound(d), NEW c \in Leaf, NEW value
  PROVE  LET cut == Restricted(d, c, value)
         IN  cut = d \/ (ListedChange(d, cut) /\ cut.loose = Unknown /\ ~cut.certified)
<1> DEFINE t == Parent[c]
           level == d.levels[t]
           node == [k \in DOMAIN level |-> Cofactor(level[k], c, value)]
           made == Releveled(d, t, node)
<1>0. t \in Internal
  BY HasParent, RootIs, InternalIs DEF Vtree
<1>1. Restricted(d, c, value) = IF level = <<>> THEN d ELSE made
  BY DEF Restricted, Releveled
<1>2. d = Diagram(d.levels, d.out, d.contract, d.leaves, d.loose, d.certified) /\ InRange(d.levels)
  BY SoundIs
<1> HIDE DEF t, node
<1>3. made = Diagram([d.levels EXCEPT ![t] = node], d.out, d.contract \cup {t}, d.leaves \cup {t}, Unknown, FALSE)
  BY <1>2, ReleveledIs
<1>4. d.levels = [u \in Internal |-> d.levels[u]]
  BY <1>2 DEF InRange
<1>5. \A u \in Internal \ {t} : [d.levels EXCEPT ![t] = node][u] = d.levels[u]
  BY <1>4
<1> HIDE DEF made
<1> DEFINE new == [d.levels EXCEPT ![t] = node]
           a == d.contract \cup {t}
           b == d.leaves \cup {t}
           no == FALSE
<1>6. made.levels = new /\ made.contract = a /\ made.leaves = b /\ made.loose = Unknown /\ made.certified = no
  <2>1. made = Diagram(new, d.out, a, b, Unknown, no)
    BY <1>3
  <2> HIDE DEF new, a, b, no
  <2> QED  BY <2>1, DiagramIs
<1>7. ListedChange(d, made)
  BY <1>5, <1>6 DEF ListedChange
<1> QED  BY <1>1, <1>6, <1>7

\* So does dropping the false nodes.
LEMMA PropagateFalseChange ==
  ASSUME NEW d, Sound(d), d.out # Zero, d.loose = Unknown, ~d.certified
  PROVE  LET made == PropagateFalse(d)
         IN  ListedChange(d, made) /\ made.loose = Unknown /\ ~made.certified
<1> DEFINE levels == FalseNodesDropped(d.levels)
           swept  == {t \in Internal : \E c \in Children(t) \ Leaf : {} \in {levels[c][i] : i \in DOMAIN levels[c]}}
           owed   == {t \in swept : levels[t] # <<>>}
           loose  == IF owed = {} THEN d.loose ELSE Unknown
           flag   == IF owed = {} THEN d.certified ELSE FALSE
           a      == d.contract \cup owed
           b      == d.leaves \cup owed
           out    == IF levels[Root][d.out] = {} THEN Zero ELSE d.out
           inv    == Invalidate(d, owed)
           made   == PropagateFalse(d)
<1>1. d = Diagram(d.levels, d.out, d.contract, d.leaves, d.loose, d.certified) /\ InRange(d.levels)
  BY SoundIs
<1>2. /\ Thinned(d.levels, levels)
      /\ \A t \in Internal : \A k \in DOMAIN d.levels[t] : levels[t][k] = Unfalse(levels, t, d.levels[t][k])
  BY <1>1, DroppedIs
<1>3. made = [inv EXCEPT !.levels = levels, !.out = IF levels[Root][inv.out] = {} THEN Zero ELSE inv.out]
  BY DEF PropagateFalse
<1>4. ASSUME NEW t \in Internal, t \notin owed PROVE levels[t] = d.levels[t] \/ levels[t] = <<>>
  <2>1. SUFFICES ASSUME t \notin swept PROVE levels[t] = d.levels[t]
    BY <1>4
  <2>2. \A c \in Children(t) \ Leaf : \A i \in DOMAIN levels[c] : levels[c][i] # {}
    BY <2>1
  <2> HIDE DEF levels, swept, owed
  <2>3. DOMAIN levels[t] = DOMAIN d.levels[t] /\ IsSequence(levels[t])
    BY <1>2 DEF Thinned
  <2>4. ASSUME NEW k \in DOMAIN d.levels[t] PROVE levels[t][k] = d.levels[t][k]
    <3>1. levels[t][k] = Unfalse(levels, t, d.levels[t][k])
      BY <1>2
    <3>2. ASSUME NEW p \in d.levels[t][k]
          PROVE  (Left[t] \in Leaf \/ levels[Left[t]][p[1]] # {}) /\ (Right[t] \in Leaf \/ levels[Right[t]][p[2]] # {})
      <4>1. p[1] \in Slots(d.levels, Left[t]) /\ p[2] \in Slots(d.levels, Right[t])
        BY <1>1, PairIs
      <4>2. Left[t] \in Vtree /\ Right[t] \in Vtree
        BY InternalIs
      <4>3. Left[t] \notin Leaf => p[1] \in DOMAIN levels[Left[t]]
        BY <1>2, <4>1, <4>2 DEF Slots, Vtree, Thinned
      <4>4. Right[t] \notin Leaf => p[2] \in DOMAIN levels[Right[t]]
        BY <1>2, <4>1, <4>2 DEF Slots, Vtree, Thinned
      <4> QED  BY <2>2, <4>3, <4>4 DEF Children
    <3> QED  BY <3>1, <3>2 DEF Unfalse
  <2>5. IsSequence(d.levels[t])
    BY <1>1, SeqIs, LevelIs
  <2> QED  BY <2>3, <2>4, <2>5 DEF IsSequence
<1>5. owed \subseteq Internal
  OBVIOUS
<1> HIDE DEF levels, owed
<1>6. inv = Diagram(d.levels, d.out, a, b, loose, flag)
  BY <1>1, InvalidateIs
<1>7. inv.out = d.out
  <2> HIDE DEF a, b, loose, flag, inv
  <2> QED  BY <1>6, DiagramIs
<1> DEFINE one == [inv EXCEPT !.levels = levels]
<1>8. made = [one EXCEPT !.out = out]
  BY <1>3, <1>7
<1>9. one = Diagram(levels, d.out, a, b, loose, flag)
  <2> HIDE DEF a, b, loose, flag
  <2> QED  BY <1>6, DiagramWith
<1> HIDE DEF one, inv
<1>10. made = Diagram(levels, out, a, b, loose, flag)
  <2> HIDE DEF a, b, loose, flag, out
  <2> QED  BY <1>8, <1>9, DiagramWith
<1> HIDE DEF made, out
<1>11. made.levels = levels /\ made.contract = a /\ made.leaves = b /\ made.loose = loose /\ made.certified = flag
  <2> HIDE DEF a, b, loose, flag
  <2> QED  BY <1>10, DiagramIs
<1>12. made.loose = Unknown /\ ~made.certified
  BY <1>11
<1>13. d.contract \subseteq made.contract /\ d.leaves \subseteq made.leaves
  BY <1>11
<1>14. ASSUME NEW t \in Internal, t \notin made.contract \cap made.leaves PROVE made.levels[t] = d.levels[t] \/ made.levels[t] = <<>>
  <2>1. t \notin owed
    BY <1>11, <1>14
  <2> QED  BY <1>4, <1>11, <2>1
<1>15. ListedChange(d, made)
  BY <1>13, <1>14 DEF ListedChange
<1> QED  BY <1>12, <1>15 DEF made

\* Conditioning a kempt diagram gives one.
LEMMA ConditionKempt ==
  ASSUME NEW d, Sound(d), Kempt(d), NEW c \in Leaf, NEW value
  PROVE  Kempt(Condition(d, c, value))
<1> DEFINE cut == Restricted(d, c, value)
<1>1. Sound(cut) /\ cut.out = d.out
  BY RestrictedSound
<1>2. Condition(d, c, value) = IF d.out = Zero THEN d ELSE IF Emptied(d, cut) THEN PropagateFalse(cut) ELSE cut
  BY DEF Condition
<1>3. cut = d \/ (ListedChange(d, cut) /\ cut.loose = Unknown /\ ~cut.certified)
  BY RestrictedChange
<1> HIDE DEF cut
<1>4. CASE d.out = Zero
  BY <1>2, <1>4
<1>5. CASE d.out # Zero /\ cut = d
  <2>1. ~Emptied(d, cut)
    BY <1>5 DEF Emptied
  <2> QED  BY <1>2, <1>5, <2>1
<1>6. CASE d.out # Zero /\ ListedChange(d, cut) /\ cut.loose = Unknown /\ ~cut.certified
  <2>1. Kempt(cut)
    BY <1>6, ListedChangeKempt
  <2> DEFINE made == PropagateFalse(cut)
  <2>2. ListedChange(cut, made) /\ made.loose = Unknown /\ ~made.certified
    BY <1>1, <1>6, PropagateFalseChange
  <2>3. Kempt(made)
    <3> HIDE DEF made
    <3> QED  BY <2>1, <2>2, ListedChangeKempt
  <2> QED  BY <1>2, <1>6, <2>1, <2>3
<1> QED  BY <1>3, <1>4, <1>5, <1>6

-------------------------------------------------------------------------------
(***************************************************************************)
(* Completed levels: a node more, every cell held, and a node less again.  *)
(***************************************************************************)
\* The level's nodes are where they were.
Beyond(old, new) == DOMAIN old \subseteq DOMAIN new /\ \A k \in DOMAIN old : new[k] = old[k]

\* One slot of a side is new, the others were all named.
OneMore(old, new, s) ==
  \A i, j \in Nat : Names(new, s, i) /\ Names(new, s, j) /\ i # j => Names(old, s, i) \/ Names(old, s, j)

\* A cell of a node that stayed.
LEMMA BeyondCell ==
  ASSUME NEW old, NEW new, Beyond(old, new), NEW s, NEW k \in DOMAIN old, NEW i, NEW x
  PROVE  Cell(new, s, k, i, x) <=> Cell(old, s, k, i, x)
BY DEF Beyond, Cell

\* A level that had no twins has none with a node and a slot more.
LEMMA BeyondFree ==
  ASSUME NEW old, NEW new, Beyond(old, new), NEW s, OneMore(old, new, s), Free(old, s)
  PROVE  Free(new, s)
<1>1. ASSUME NEW i \in Nat, NEW j \in Nat, Same(new, s, i, j), Names(old, s, i)
      PROVE  i = j
  <2>1. Same(old, s, i, j)
    <3>1. ASSUME NEW k \in DOMAIN old, NEW x \in Nat PROVE Cell(old, s, k, i, x) <=> Cell(old, s, k, j, x)
      <4>1. k \in DOMAIN new
        BY DEF Beyond
      <4>2. Cell(new, s, k, i, x) <=> Cell(new, s, k, j, x)
        BY <1>1, <4>1 DEF Same
      <4> QED  BY <4>2, BeyondCell
    <3> QED  BY <3>1 DEF Same
  <2> QED  BY <1>1, <2>1 DEF Free
<1>2. ASSUME NEW i \in Nat, NEW j \in Nat, Names(new, s, i), Same(new, s, i, j)
      PROVE  i = j
  <2>1. Same(new, s, j, i) /\ Names(new, s, j)
    BY <1>2, SameTurned
  <2>2. i # j => Names(old, s, i) \/ Names(old, s, j)
    BY <1>2, <2>1 DEF OneMore
  <2> QED  BY <1>1, <1>2, <2>1, <2>2
<1> QED  BY <1>2 DEF Free

\* A leaf two polarities of which twin in the new level had twinned before.
LEMMA BeyondFoldable ==
  ASSUME NEW old, NEW new, Beyond(old, new), NEW s, Names(old, s, 1) \/ Names(old, s, 2), Foldable(new, s)
  PROVE  Foldable(old, s)
<1>1. ASSUME NEW k \in DOMAIN old PROVE BothOrOne(old, s, k)
  <2>1. BothOrOne(new, s, k)
    BY <1>1 DEF Foldable, Beyond
  <2> QED  BY <2>1, BeyondCell DEF BothOrOne
<1> QED  BY <1>1 DEF Foldable

\* The level's nodes share out the cells of a grid.
SharesOut(level, B) ==
  /\ B[1] \subseteq Nat /\ B[2] \subseteq Nat
  /\ \A s \in {1, 2} : \A k \in DOMAIN level : \A i, x : Cell(level, s, k, i, x) => i \in B[s] /\ x \in B[3 - s]
  /\ \A s \in {1, 2} : \A i \in B[s], x \in B[3 - s] : \E k \in DOMAIN level : Cell(level, s, k, i, x)

RowsApart(level) == \A k, m \in DOMAIN level : k # m => level[k] \cap level[m] = {}

\* A level that holds every cell shares them out.
LEMMA FullIs ==
  ASSUME NEW level, NEW X, X \subseteq Nat, NEW Y, Y \subseteq Nat, PairsOf(level) = X \X Y
  PROVE  SharesOut(level, <<X, Y>>) /\ OfNumbers(level)
<1> DEFINE B == <<X, Y>>
<1>1. \A k \in DOMAIN level : level[k] \subseteq X \X Y
  BY DEF PairsOf
<1>2. OfNumbers(level)
  BY <1>1 DEF OfNumbers
<1>3. \A p \in X \X Y : \E k \in DOMAIN level : p \in level[k]
  BY DEF PairsOf
<1>4. B[1] = X /\ B[2] = Y
  OBVIOUS
<1>5. 3 - 1 = 2 /\ 3 - 2 = 1
  OBVIOUS
<1> HIDE DEF B
<1>6. ASSUME NEW s \in {1, 2}, NEW k \in DOMAIN level, NEW i, NEW x, Cell(level, s, k, i, x)
      PROVE  i \in B[s] /\ x \in B[3 - s]
  <2>1. CASE s = 1
    <3>1. <<i, x>> \in level[k]
      BY <1>2, <1>6, <2>1, CellIs
    <3>2. <<i, x>> \in X \X Y
      BY <1>1, <3>1
    <3> QED  BY <1>4, <1>5, <2>1, <3>2
  <2>2. CASE s = 2
    <3>1. <<x, i>> \in level[k]
      BY <1>2, <1>6, <2>2, CellIs
    <3>2. <<x, i>> \in X \X Y
      BY <1>1, <3>1
    <3> QED  BY <1>4, <1>5, <2>2, <3>2
  <2> QED  BY <2>1, <2>2
<1>7. ASSUME NEW s \in {1, 2}, NEW i \in B[s], NEW x \in B[3 - s]
      PROVE  \E k \in DOMAIN level : Cell(level, s, k, i, x)
  <2>1. CASE s = 1
    <3>1. <<i, x>> \in X \X Y
      BY <1>4, <1>5, <2>1
    <3>2. PICK k \in DOMAIN level : <<i, x>> \in level[k]
      BY <1>3, <3>1
    <3> QED  BY <1>2, <2>1, <3>2, CellIs
  <2>2. CASE s = 2
    <3>1. <<x, i>> \in X \X Y
      BY <1>4, <1>5, <2>2
    <3>2. PICK k \in DOMAIN level : <<x, i>> \in level[k]
      BY <1>3, <3>1
    <3> QED  BY <1>2, <2>2, <3>2, CellIs
  <2> QED  BY <2>1, <2>2
<1> QED  BY <1>2, <1>4, <1>6, <1>7 DEF SharesOut, B

\* Some of a level's nodes, all but at most one.
Drops(level, part, gone) ==
  /\ \A i, j \in gone : i = j
  /\ \A k \in DOMAIN part : \E m \in DOMAIN level \ gone : part[k] = level[m]
  /\ \A m \in DOMAIN level \ gone : \E k \in DOMAIN part : part[k] = level[m]

\* The cells of a node are those no other node has.
LEMMA CellElsewhere ==
  ASSUME NEW level, OfNumbers(level), RowsApart(level), NEW B, SharesOut(level, B), NEW s \in {1, 2},
         NEW k \in DOMAIN level, NEW i \in B[s], NEW x \in B[3 - s]
  PROVE  Cell(level, s, k, i, x) <=> \A m \in DOMAIN level \ {k} : ~Cell(level, s, m, i, x)
<1>1. ASSUME Cell(level, s, k, i, x), NEW m \in DOMAIN level \ {k}, Cell(level, s, m, i, x) PROVE FALSE
  <2>1. level[k] \cap level[m] = {}
    BY DEF RowsApart
  <2>2. CASE s = 1
    BY <1>1, <2>1, <2>2, CellIs
  <2>3. CASE s = 2
    BY <1>1, <2>1, <2>3, CellIs
  <2> QED  BY <2>2, <2>3
<1>2. \E m \in DOMAIN level : Cell(level, s, m, i, x)
  BY DEF SharesOut
<1> QED  BY <1>1, <1>2

\* Dropping a node of a full level makes no twins.
LEMMA DropFree ==
  ASSUME NEW level, OfNumbers(level), RowsApart(level), NEW B, SharesOut(level, B), NEW part, NEW gone, Drops(level, part, gone),
         NEW s \in {1, 2}, Free(level, s)
  PROVE  Free(part, s)
<1>0. \A k, m, i, x : part[k] = level[m] => (Cell(part, s, k, i, x) <=> Cell(level, s, m, i, x))
  BY DEF Cell
<1>00. s \in {1, 2} /\ B[s] \subseteq Nat /\ B[3 - s] \subseteq Nat
  <2>1. 3 - 1 = 2 /\ 3 - 2 = 1
    OBVIOUS
  <2> QED  BY <2>1 DEF SharesOut
<1>1. ASSUME NEW i \in Nat, NEW j \in Nat, Names(part, s, i), Same(part, s, i, j)
      PROVE  i = j
  <2>1. ASSUME NEW m \in DOMAIN level \ gone, NEW x \in Nat PROVE Cell(level, s, m, i, x) <=> Cell(level, s, m, j, x)
    <3>1. PICK k \in DOMAIN part : part[k] = level[m]
      BY DEF Drops
    <3>2. Cell(part, s, k, i, x) <=> Cell(part, s, k, j, x)
      BY <1>1 DEF Same
    <3> QED  BY <1>0, <3>1, <3>2
  <2>2. ASSUME NEW a \in Nat, Names(part, s, a) PROVE a \in B[s] /\ Names(level, s, a)
    <3>1. PICK k \in DOMAIN part, x \in Nat : Cell(part, s, k, a, x)
      BY <2>2 DEF Names
    <3>2. PICK m \in DOMAIN level \ gone : part[k] = level[m]
      BY DEF Drops
    <3>3. Cell(level, s, m, a, x)
      BY <1>0, <3>1, <3>2
    <3> QED  BY <3>3 DEF SharesOut, Names
  <2>3. i \in B[s] /\ j \in B[s] /\ Names(level, s, i)
    BY <1>1, <2>2, SameTurned
  <2>4. ASSUME NEW m \in gone \cap DOMAIN level, NEW x \in Nat PROVE Cell(level, s, m, i, x) <=> Cell(level, s, m, j, x)
    <3>1. \A o \in DOMAIN level \ {m} : o \in DOMAIN level \ gone
      BY DEF Drops
    <3>2. CASE x \in B[3 - s]
      <4>1. Cell(level, s, m, i, x) <=> \A o \in DOMAIN level \ {m} : ~Cell(level, s, o, i, x)
        BY <2>3, <3>2, CellElsewhere
      <4>2. Cell(level, s, m, j, x) <=> \A o \in DOMAIN level \ {m} : ~Cell(level, s, o, j, x)
        BY <2>3, <3>2, CellElsewhere
      <4> QED  BY <2>1, <3>1, <4>1, <4>2
    <3>3. CASE x \notin B[3 - s]
      BY <3>3 DEF SharesOut
    <3> QED  BY <3>2, <3>3
  <2>5. Same(level, s, i, j)
    BY <2>1, <2>4 DEF Same
  <2> QED  BY <2>3, <2>5 DEF Free
<1> QED  BY <1>1 DEF Free

\* Nor does it make a leaf's polarities twin.
LEMMA DropFoldable ==
  ASSUME NEW level, OfNumbers(level), RowsApart(level), NEW B, SharesOut(level, B), NEW part, NEW gone, Drops(level, part, gone),
         NEW s \in {1, 2}, B[s] = {3} \/ B[s] = {1, 2}, Foldable(part, s)
  PROVE  Foldable(level, s) /\ B[s] = {1, 2}
<1>0. \A k, m, i, x : part[k] = level[m] => (Cell(part, s, k, i, x) <=> Cell(level, s, m, i, x))
  BY DEF Cell
<1>1. \A i, x : \A k \in DOMAIN level : Cell(level, s, k, i, x) => i \in B[s] /\ x \in B[3 - s]
  BY DEF SharesOut
<1>2. ASSUME NEW a \in Nat, Names(part, s, a) PROVE Names(level, s, a) /\ a \in B[s]
  <2>1. PICK k \in DOMAIN part, x \in Nat : Cell(part, s, k, a, x)
    BY <1>2 DEF Names
  <2>2. PICK m \in DOMAIN level \ gone : part[k] = level[m]
    BY DEF Drops
  <2>3. Cell(level, s, m, a, x)
    BY <1>0, <2>1, <2>2
  <2> QED  BY <1>1, <2>3 DEF Names
<1>3. (Names(level, s, 1) \/ Names(level, s, 2)) /\ B[s] = {1, 2}
  BY <1>2 DEF Foldable
<1>4. ASSUME NEW m \in DOMAIN level \ gone, NEW x \in Nat PROVE Cell(level, s, m, 1, x) <=> Cell(level, s, m, 2, x)
  <2>1. PICK k \in DOMAIN part : part[k] = level[m]
    BY DEF Drops
  <2>2. BothOrOne(part, s, k)
    BY DEF Foldable
  <2>3. Cell(part, s, k, 1, x) <=> Cell(part, s, k, 2, x)
    BY <2>2 DEF BothOrOne
  <2> QED  BY <1>0, <2>1, <2>3
<1>5. ASSUME NEW m \in gone \cap DOMAIN level, NEW x \in Nat PROVE Cell(level, s, m, 1, x) <=> Cell(level, s, m, 2, x)
  <2>1. \A o \in DOMAIN level \ {m} : o \in DOMAIN level \ gone
    BY DEF Drops
  <2>2. CASE x \in B[3 - s]
    <3>0. 1 \in B[s] /\ 2 \in B[s]
      BY <1>3
    <3>1. Cell(level, s, m, 1, x) <=> \A o \in DOMAIN level \ {m} : ~Cell(level, s, o, 1, x)
      BY <2>2, <3>0, CellElsewhere
    <3>2. Cell(level, s, m, 2, x) <=> \A o \in DOMAIN level \ {m} : ~Cell(level, s, o, 2, x)
      BY <2>2, <3>0, CellElsewhere
    <3> QED  BY <1>4, <2>1, <3>1, <3>2
  <2>3. CASE x \notin B[3 - s]
    BY <1>1, <2>3
  <2> QED  BY <2>2, <2>3
<1>6. ASSUME NEW m \in DOMAIN level PROVE BothOrOne(level, s, m)
  <2>1. \A x \in Nat : Cell(level, s, m, 1, x) <=> Cell(level, s, m, 2, x)
    BY <1>4, <1>5
  <2>2. \A x \in Nat : ~Cell(level, s, m, 3, x)
    BY <1>1, <1>3
  <2> QED  BY <2>1, <2>2 DEF BothOrOne
<1> QED  BY <1>3, <1>6 DEF Foldable

-------------------------------------------------------------------------------
(* Completion (expand_full). *)

\* Levels with at most a node more each.
Grown(old, new) ==
  /\ InRange(old) /\ InRange(new)
  /\ \A t \in Internal : Extends2(old, new, t)
  /\ \A t \in Internal : \A k \in DOMAIN new[t] : k \in DOMAIN old[t] \/ k = Len(old[t]) + 1

\* Where the nodes of a child were all named, a level grown without twins has none.
LEMMA GrownFree ==
  ASSUME NEW d, NEW new, Grown(d.levels, new), NEW t \in Internal, NEW c \in Children(t), c \notin Leaf,
         c \notin HasUnnamed(d), Free(d.levels[t], Side(c))
  PROVE  Free(new[t], Side(c))
<1> DEFINE old == d.levels
           s == Side(c)
<1>1. Parent[c] = t /\ c \in Internal \ {Root}
  BY ParentOf DEF Vtree
<1>2. InRange(old) /\ InRange(new)
  BY DEF Grown
<1>3. \A i \in DOMAIN old[c] : Names(old[t], s, i)
  BY <1>1, <1>2, UnnamedIs DEF Unread
<1>4. Beyond(old[t], new[t])
  BY DEF Grown, Beyond, Extends2
<1>5. OneMore(old[t], new[t], s)
  <2>1. ASSUME NEW i \in Nat, NEW j \in Nat, Names(new[t], s, i), Names(new[t], s, j), i # j
        PROVE  Names(old[t], s, i) \/ Names(old[t], s, j)
    <3>1. i \in DOMAIN new[c] /\ j \in DOMAIN new[c]
      BY <1>2, <2>1, NamesIs
    <3>2. (i \in DOMAIN old[c] \/ i = Len(old[c]) + 1) /\ (j \in DOMAIN old[c] \/ j = Len(old[c]) + 1)
      BY <1>1, <3>1 DEF Grown
    <3> QED  BY <1>3, <2>1, <3>2
  <2> QED  BY <2>1 DEF OneMore
<1> QED  BY <1>4, <1>5, BeyondFree

\* Nor do a leaf's polarities twin where a node of the level names one of them.
LEMMA GrownFolded ==
  ASSUME NEW old, NEW new, Grown(old, new), NEW t \in Internal, NEW c \in Children(t), c \in Leaf,
         \A i, j \in DOMAIN new[t] : OneForm(t, new[t][i], new[t][j]),
         \E k \in DOMAIN old[t] : old[t][k] # {}, ~Foldable(old[t], Side(c))
  PROVE  ~Foldable(new[t], Side(c))
<1> DEFINE s == Side(c)
<1>1. InRange(old) /\ InRange(new)
  BY DEF Grown
<1>2. Beyond(old[t], new[t])
  BY DEF Grown, Beyond, Extends2
<1>0. PICK k \in DOMAIN old[t] : old[t][k] # {}
  OBVIOUS
<1>3. PICK p \in old[t][k] : TRUE
  BY <1>0
<1>4. OfNumbers(old[t]) /\ OfNumbers(new[t]) /\ s \in {1, 2}
  BY <1>1, ContextCells
<1>5. p[s] \in {1, 2, 3}
  BY <1>1, SidesIs, LeafSlots
<1>6. Cell(old[t], s, k, p[s], p[3 - s])
  BY DEF Cell
<1>7. Names(old[t], s, p[s])
  BY <1>4, <1>6, CellTurned DEF Names
<1>8. ASSUME Foldable(new[t], s) PROVE p[s] # 3
  <2>1. PICK i \in {1, 2} : Names(new[t], s, i)
    BY <1>8 DEF Foldable
  <2>2. PICK m \in DOMAIN new[t], x \in Nat : Cell(new[t], s, m, i, x)
    BY <2>1 DEF Names
  <2>3. PICK q \in new[t][m] : q[s] = i
    BY <2>2 DEF Cell
  <2>4. k \in DOMAIN new[t] /\ p \in new[t][k]
    BY <1>2 DEF Beyond
  <2>5. OneForm(t, new[t][m], new[t][k])
    BY <2>4
  <2>6. q[s] = 3 <=> p[s] = 3
    BY <2>4, <2>5, OneFormSides
  <2> QED  BY <2>3, <2>6
<1>9. ASSUME Foldable(new[t], s) PROVE FALSE
  <2>1. Names(old[t], s, 1) \/ Names(old[t], s, 2)
    BY <1>5, <1>7, <1>8, <1>9
  <2>2. Foldable(old[t], s)
    BY <1>2, <1>9, <2>1, BeyondFoldable
  <2> QED  BY <2>2
<1> QED  BY <1>9

\* The bases a level is completed from.
Bases(levels, t, pairs) == <<Basis(levels, Left[t], pairs), Basis(levels, Right[t], pairs)>>

\* Those bases, side by side.
LEMMA BasesAre ==
  ASSUME NEW levels, InRange(levels), NEW t \in Internal, NEW pairs, Naming(levels, t, pairs)
  PROVE  LET B == Bases(levels, t, pairs)
         IN  /\ \A c \in Children(t) : B[Side(c)] = Basis(levels, c, pairs)
             /\ B[1] \subseteq Nat /\ B[2] \subseteq Nat
             /\ pairs \subseteq B[1] \X B[2]
             /\ Missing(levels, t, pairs) = (B[1] \X B[2]) \ pairs
             /\ \A c \in Children(t) : c \in Leaf => B[Side(c)] = {3} \/ B[Side(c)] = {1, 2}
             /\ \A c \in Children(t) : c \notin Leaf => B[Side(c)] = DOMAIN levels[c]
             /\ \A c \in Children(t) : Slots(levels, c) # {} => B[Side(c)] # {}
<1> DEFINE B == Bases(levels, t, pairs)
           X == Basis(levels, Left[t], pairs)
           Y == Basis(levels, Right[t], pairs)
<1>1. B[1] = X /\ B[2] = Y
  BY DEF Bases
<1>2. Side(Left[t]) = 1 /\ Side(Right[t]) = 2 /\ Left[t] \in Children(t) /\ Right[t] \in Children(t)
  BY SidesOf DEF Children
<1>3. \A c \in Children(t) : B[Side(c)] = Basis(levels, c, pairs)
  BY <1>1, <1>2 DEF Children
<1>4. \A c \in Children(t) : c \in Leaf => Basis(levels, c, pairs) = {3} \/ Basis(levels, c, pairs) = {1, 2}
  BY DEF Basis, One, Pos, Neg
<1>5. \A c \in Children(t) : c \notin Leaf => Basis(levels, c, pairs) = DOMAIN levels[c]
  BY DEF Basis
<1>6. \A c \in Children(t) : Basis(levels, c, pairs) \subseteq Slots(levels, c)
  BY BasisIs
<1>7. \A c \in Children(t) : Slots(levels, c) \subseteq Nat
  BY LevelIs, LeafSlots, ParentOf DEF Vtree
<1>8. \A c \in Children(t) : \A p \in pairs : p[Side(c)] \in Basis(levels, c, pairs)
  BY BasisIs
<1>9. \A p \in pairs : p = <<p[1], p[2]>>
  BY DEF Naming
<1>10. \A c \in Children(t) : c \notin Leaf => Slots(levels, c) = DOMAIN levels[c]
  BY DEF Slots
<1>11. Missing(levels, t, pairs) = (X \X Y) \ pairs
  BY DEF Missing
<1>12. \A p \in pairs : p[1] \in X /\ p[2] \in Y
  BY <1>2, <1>8
<1>13. X \subseteq Nat /\ Y \subseteq Nat
  BY <1>2, <1>6, <1>7
<1> HIDE DEF B, X, Y
<1>14. pairs \subseteq X \X Y
  BY <1>9, <1>12
<1>15. \A c \in Children(t) : Slots(levels, c) # {} => B[Side(c)] # {}
  BY <1>3, <1>4, <1>5, <1>10
<1> QED  BY <1>1, <1>3, <1>4, <1>5, <1>11, <1>13, <1>14, <1>15 DEF B

\* The pairs of a level with a node more.
LEMMA PairsOfAppend ==
  ASSUME NEW V, NEW level \in Seq(V), NEW cells
  PROVE  PairsOf(Append(level, cells)) = PairsOf(level) \cup cells
<1> DEFINE new == Append(level, cells)
<1>1. /\ \A k \in DOMAIN level : k \in DOMAIN new /\ new[k] = level[k]
      /\ Len(level) + 1 \in DOMAIN new /\ new[Len(level) + 1] = cells
      /\ \A k \in DOMAIN new : k \in DOMAIN level \/ k = Len(level) + 1
  BY AppendIs
<1> HIDE DEF new
<1>2. \A p \in PairsOf(new) : p \in PairsOf(level) \cup cells
  BY <1>1 DEF PairsOf
<1>3. \A p \in PairsOf(level) \cup cells : p \in PairsOf(new)
  BY <1>1 DEF PairsOf
<1> QED  BY <1>2, <1>3 DEF new

\* Below the root, completed levels share out their children's bases, and so
\* name every node.
LEMMA ExpandShares ==
  ASSUME NEW d, InRange(d.levels), Deterministic(d.levels)
  PROVE  LET levels == ExpandFull(d)
         IN  /\ Grown(d.levels, levels)
             /\ \A t \in Internal \ {Root} :
                  /\ Naming(levels, t, PairsAt(d.levels, t))
                  /\ SharesOut(levels[t], Bases(levels, t, PairsAt(d.levels, t)))
             /\ \A t \in Internal \ {Root} : levels[t] # <<>>
             /\ \A t \in Internal \ {Root} : \A c \in Children(t) : c \notin Leaf =>
                  \A i \in DOMAIN levels[c] : Names(levels[t], Side(c), i)
<1> DEFINE levels == ExpandFull(d)
           cells(t) == Missing(levels, t, PairsAt(d.levels, t))
           B(t) == Bases(levels, t, PairsAt(d.levels, t))
           none == {}
<1>1. InRange(levels)
  BY ExpandSound
<1>2. \A t \in Internal : levels[t] = IF t = Root \/ cells(t) = {} THEN d.levels[t] ELSE Append(d.levels[t], cells(t))
  BY ExpandAt
<1>3. /\ \A t \in Internal : Extends2(d.levels, levels, t)
      /\ \A t \in Internal : Wider(d.levels, levels, t)
      /\ \A t \in Vtree \ {Root} : Covered(levels, t, none)
  BY ExpandFn
<1> HIDE DEF levels, cells
<1>4. ASSUME NEW t \in Internal, NEW k \in DOMAIN levels[t] PROVE k \in DOMAIN d.levels[t] \/ k = Len(d.levels[t]) + 1
  <2> DEFINE old == d.levels[t]
             u == cells(t)
  <2>1. levels[t] = old \/ levels[t] = Append(old, u)
    BY <1>2
  <2>2. old \in Seq(SUBSET (Nat \X Nat))
    BY LevelIs
  <2> HIDE DEF old, u
  <2>3. k \in DOMAIN old \/ k = Len(old) + 1
    BY <1>4, <2>1, <2>2, AppendIs
  <2> QED  BY <2>3 DEF old
<1>5. Grown(d.levels, levels)
  BY <1>1, <1>3, <1>4 DEF Grown
<1>6. \A c \in Vtree \ {Root} : Slots(levels, c) # {}
  BY <1>3 DEF Covered
<1>7. ASSUME NEW t \in Internal, t # Root PROVE levels[t] # <<>>
  <2>1. Slots(levels, t) = DOMAIN levels[t]
    BY InternalIs DEF Slots
  <2> QED  BY <1>6, <1>7, <2>1 DEF Vtree
<1>8. ASSUME NEW t \in Internal, t # Root PROVE Naming(levels, t, PairsAt(d.levels, t)) /\ SharesOut(levels[t], B(t))
  <2> DEFINE pairs == PairsAt(d.levels, t)
  <2>1. Naming(levels, t, pairs)
    <3>1. OneForm(t, pairs, pairs)
      BY <1>8, PairsForm
    <3> QED  BY <1>3, <3>1, PairsNaming
  <2> HIDE DEF pairs
  <2> DEFINE C == Bases(levels, t, pairs)
  <2>2. /\ C[1] \subseteq Nat /\ C[2] \subseteq Nat /\ pairs \subseteq C[1] \X C[2]
        /\ Missing(levels, t, pairs) = (C[1] \X C[2]) \ pairs
    BY <1>1, <2>1, BasesAre
  <2>3. cells(t) = Missing(levels, t, pairs)
    BY DEF cells, pairs
  <2>4. C = <<C[1], C[2]>>
    BY DEF Bases
  <2> HIDE DEF C
  <2>5. PairsOf(levels[t]) = C[1] \X C[2]
    <3>1. PairsOf(d.levels[t]) = pairs
      BY DEF PairsAt, pairs
    <3>2. CASE cells(t) = {}
      <4>1. levels[t] = d.levels[t]
        BY <1>2, <3>2
      <4> QED  BY <2>2, <2>3, <3>1, <3>2, <4>1
    <3>3. CASE cells(t) # {}
      <4>1. levels[t] = Append(d.levels[t], cells(t))
        BY <1>2, <1>8, <3>3
      <4>2. PairsOf(levels[t]) = PairsOf(d.levels[t]) \cup cells(t)
        BY <4>1, LevelIs, PairsOfAppend
      <4> QED  BY <2>2, <2>3, <3>1, <4>2
    <3> QED  BY <3>2, <3>3
  <2>6. SharesOut(levels[t], <<C[1], C[2]>>)
    <3> DEFINE X == C[1]
               Y == C[2]
    <3>1. X \subseteq Nat /\ Y \subseteq Nat /\ PairsOf(levels[t]) = X \X Y
      BY <2>2, <2>5
    <3> HIDE DEF X, Y
    <3>2. SharesOut(levels[t], <<X, Y>>)
      BY <3>1, FullIs
    <3> QED  BY <3>2 DEF X, Y
  <2>7. SharesOut(levels[t], C)
    BY <2>4, <2>6
  <2> QED  BY <2>1, <2>7 DEF C, pairs
<1>9. ASSUME NEW t \in Internal, t # Root, NEW c \in Children(t), c \notin Leaf, NEW i \in DOMAIN levels[c]
      PROVE  Names(levels[t], Side(c), i)
  <2> DEFINE s == Side(c)
             pairs == PairsAt(d.levels, t)
             C == Bases(levels, t, pairs)
  <2>1. Naming(levels, t, pairs) /\ SharesOut(levels[t], C)
    BY <1>8, <1>9
  <2>2. /\ \A e \in Children(t) : Slots(levels, e) # {} => C[Side(e)] # {}
        /\ \A e \in Children(t) : e \notin Leaf => C[Side(e)] = DOMAIN levels[e]
        /\ C[1] \subseteq Nat /\ C[2] \subseteq Nat
    <3> HIDE DEF pairs
    <3> QED  BY <1>1, <2>1, BasesAre
  <2>3. Sibling(c) \in Children(t) /\ s \in {1, 2} /\ Side(Sibling(c)) = 3 - s
    BY SiblingOf DEF Children
  <2> HIDE DEF C, pairs, s
  <2>4. C[3 - s] # {}
    <3>1. Sibling(c) \in Vtree \ {Root}
      BY <2>3, ParentOf
    <3> QED  BY <1>6, <2>2, <2>3, <3>1
  <2>5. i \in C[s]
    BY <1>9, <2>2 DEF s
  <2>6. PICK x \in C[3 - s] : TRUE
    BY <2>4
  <2>7. x \in Nat
    BY <2>2, <2>3, <2>6
  <2>8. \E k \in DOMAIN levels[t] : Cell(levels[t], s, k, i, x)
    BY <2>1, <2>3, <2>5, <2>6 DEF SharesOut
  <2> QED  BY <2>7, <2>8 DEF Names, s
<1> QED  BY <1>5, <1>7, <1>8, <1>9 DEF levels

-------------------------------------------------------------------------------
(* The constants, and the complement. *)

\* A level of one node, of one pair, that names a leaf without a polarity.
LEMMA OnePairBest ==
  ASSUME NEW level, OfNumbers(level), DOMAIN level = {1}, NEW q, level[1] = {q}, NEW s \in {1, 2}
  PROVE  /\ \A i : Names(level, s, i) => i = q[s]
         /\ Free(level, s)
         /\ q[s] \notin {1, 2} => ~Foldable(level, s)
<1>1. \A k \in DOMAIN level : \A i, x : Cell(level, s, k, i, x) => i = q[s]
  BY DEF Cell
<1>2. \A i : Names(level, s, i) => i = q[s]
  BY <1>1 DEF Names
<1>3. ASSUME NEW i \in Nat, NEW j \in Nat, Names(level, s, i), Same(level, s, i, j) PROVE i = j
  <2>1. Names(level, s, j)
    BY <1>3 DEF Names, Same
  <2> QED  BY <1>2, <1>3, <2>1
<1>4. Free(level, s)
  BY <1>3 DEF Free
<1>5. Foldable(level, s) => q[s] \in {1, 2}
  BY <1>2 DEF Foldable
<1> QED  BY <1>2, <1>4, <1>5

\* The constant true is canonical.
LEMMA ConstantTrueBest == Best(ConstantTrue) /\ ConstantTrue.loose = {}
<1> DEFINE at(c) == IF c \in Leaf THEN 3 ELSE 1
           pair(t) == <<at(Left[t]), at(Right[t])>>
           levels == [t \in Internal |-> <<{pair(t)}>>]
           label == [v \in Leaf |-> One]
           yes == TRUE
           none == {}
           out == 1
<1>1. ConstantTrue = Diagram(levels, out, none, none, none, yes)
  <2>1. \A t \in Internal : <<{pair(t)}>> = <<{<<IF Left[t] \in Leaf THEN label[Left[t]] ELSE 1, IF Right[t] \in Leaf THEN label[Right[t]] ELSE 1>>}>>
    BY DEF One
  <2> HIDE DEF pair, label
  <2>2. levels = [t \in Internal |-> <<{<<IF Left[t] \in Leaf THEN label[Left[t]] ELSE 1, IF Right[t] \in Leaf THEN label[Right[t]] ELSE 1>>}>>]
    BY <2>1
  <2> QED  BY <2>2 DEF ConstantTrue, Cube, Seated, label
<1>2. \A t \in Internal : DOMAIN levels[t] = {1} /\ levels[t][1] = {pair(t)}
  <2>1. ASSUME NEW t \in Internal PROVE DOMAIN levels[t] = {1} /\ levels[t][1] = {pair(t)}
    <3> DEFINE x == {pair(t)}
    <3>1. levels[t] = <<x>>
      OBVIOUS
    <3> HIDE DEF x, levels
    <3>2. DOMAIN levels[t] = {1} /\ levels[t][1] = x
      BY <3>1
    <3> QED  BY <3>2 DEF x
  <2> QED  BY <2>1
<1>3. \A t \in Internal : \A c \in Children(t) : pair(t)[Side(c)] = at(c) /\ Side(c) \in {1, 2}
  BY SidesOf DEF Children
<1> HIDE DEF levels, pair, none, yes, out
<1>4. ConstantTrue.levels = levels /\ ConstantTrue.out = out /\ ConstantTrue.loose = none
  BY <1>1, DiagramIs
<1>5. InRange(levels)
  BY <1>4, ConstantsSound, SoundIs
<1>6. ASSUME NEW t \in Internal, NEW c \in Children(t)
      PROVE  Free(levels[t], Side(c)) /\ (c \in Leaf => ~Foldable(levels[t], Side(c)))
  <2>1. OfNumbers(levels[t])
    BY <1>5, ContextCells
  <2>2. pair(t)[Side(c)] = at(c) /\ Side(c) \in {1, 2}
    BY <1>3
  <2>3. DOMAIN levels[t] = {1} /\ levels[t][1] = {pair(t)}
    BY <1>2
  <2>4. Free(levels[t], Side(c)) /\ (pair(t)[Side(c)] \notin {1, 2} => ~Foldable(levels[t], Side(c)))
    BY <2>1, <2>2, <2>3, OnePairBest
  <2> QED  BY <2>2, <2>4
<1>7. FreeOff(ConstantTrue, {}) /\ FoldedOff(ConstantTrue, {})
  BY <1>4, <1>6 DEF FreeOff, FoldedOff, FreeAt, FoldedAt
<1>8. ASSUME NEW u \in Internal, u # Root PROVE ~Unread(levels, u)
  <2>1. Parent[u] \in Internal /\ u \in Children(Parent[u]) /\ u \notin Leaf
    BY <1>8, InternalChild
  <2>2. DOMAIN levels[u] = {1} /\ DOMAIN levels[Parent[u]] = {1} /\ levels[Parent[u]][1] = {pair(Parent[u])}
    BY <1>2, <2>1
  <2>3. pair(Parent[u])[Side(u)] = 1 /\ OfNumbers(levels[Parent[u]])
    BY <1>3, <1>5, <2>1, ContextCells
  <2>4. Side(u) \in {1, 2}
    BY <1>3, <2>1
  <2>5. pair(Parent[u]) \in levels[Parent[u]][1]
    BY <2>2
  <2>6. Cell(levels[Parent[u]], Side(u), 1, 1, pair(Parent[u])[3 - Side(u)])
    BY <2>3, <2>5 DEF Cell
  <2>7. pair(Parent[u])[3 - Side(u)] \in Nat
    BY <2>2, <2>3, <2>4, <2>6, CellTurned
  <2>8. Names(levels[Parent[u]], Side(u), 1)
    BY <2>2, <2>6, <2>7 DEF Names
  <2> QED  BY <2>2, <2>8 DEF Unread
<1>9. HasUnnamed(ConstantTrue) = {}
  BY <1>4, <1>5, <1>8, UnnamedIs
<1>10. DOMAIN levels[Root] = {out} \ {Zero}
  BY <1>2, RootIs DEF out, Zero
<1> QED  BY <1>4, <1>7, <1>9, <1>10 DEF Best, Trim, none

\* So is the constant false.
LEMMA ConstantFalseBest == Best(ConstantFalse) /\ ConstantFalse.loose = {}
<1>1. ConstantFalse.levels = NoLevels /\ ConstantFalse.out = Zero /\ ConstantFalse.loose = {}
  BY DEF ConstantFalse, Seated, Diagram
<1>2. \A t \in Internal : NoLevels[t] = <<>> /\ DOMAIN NoLevels[t] = {}
  BY DEF NoLevels
<1>3. InRange(NoLevels)
  BY <1>1, ConstantsSound, SoundIs
<1>4. HasUnnamed(ConstantFalse) = {}
  BY <1>1, <1>2, <1>3, UnnamedIs DEF Unread
<1>5. Trim(ConstantFalse)
  BY <1>1, <1>2, <1>4, RootIs DEF Trim
<1>6. FreeOff(ConstantFalse, {}) /\ FoldedOff(ConstantFalse, {})
  BY <1>1, <1>2, EmptyIs DEF FreeOff, FoldedOff
<1> QED  BY <1>1, <1>5, <1>6 DEF Best

\* A canonical diagram owes nothing.
LEMMA BestKempt ==
  ASSUME NEW d, Best(d)
  PROVE  Kempt(d)
BY DEF Best, Trim, Kempt, FreeOff, FoldedOff, Listed, Certain

\* What the completed levels are but for the root, and what completion owes.
LEMMA CompletedKeeps ==
  ASSUME NEW d, Sound(d), Kempt(d), NodesLive(d.levels), NEW t \in Internal \ {Root}, t \notin Owes(d, ExpandFull(d))
  PROVE  /\ FreeAt(d.levels[t], t) => FreeAt(ExpandFull(d)[t], t)
         /\ FoldedAt(d.levels[t], t) => FoldedAt(ExpandFull(d)[t], t)
<1> DEFINE levels == ExpandFull(d)
           cells == Missing(levels, t, PairsAt(d.levels, t))
<1>1. InRange(d.levels) /\ Deterministic(d.levels)
  BY SoundIs
<1>2. /\ Grown(d.levels, levels) /\ Deterministic(levels) /\ InRange(levels)
  BY <1>1, ExpandShares, ExpandSound
<1>3. levels[t] = d.levels[t] \/ levels[t] = Append(d.levels[t], cells)
  BY <1>1, ExpandAt
<1>5. CASE levels[t] = d.levels[t]
  BY <1>5
<1>6. CASE levels[t] # d.levels[t]
  <2>1. /\ Len(levels[t]) # 1
        /\ \A c \in Children(t) : c \in Leaf \/ d.certified \/ (d.loose # Unknown /\ c \notin d.loose)
    BY <1>6 DEF Owes, Filled
  <2> HIDE DEF levels, cells
  <2>2. \A c \in Children(t) : c \in Leaf \/ c \notin HasUnnamed(d)
    BY <2>1 DEF Kempt, Listed, Certain, Best, Trim
  <2>3. FreeAt(d.levels[t], t) => FreeAt(levels[t], t)
    BY <1>2, <2>2, GrownFree DEF FreeAt
  <2>4. \E k \in DOMAIN d.levels[t] : d.levels[t][k] # {}
    <3> DEFINE old == d.levels[t]
    <3>1. old \in Seq(SUBSET (Nat \X Nat)) /\ DOMAIN old = 1 .. Len(old) /\ Len(old) \in Nat
      BY <1>1, LevelIs
    <3>2. levels[t] = Append(old, cells)
      BY <1>3, <1>6
    <3>3. Len(levels[t]) = Len(old) + 1
      <4> HIDE DEF old
      <4> QED  BY <3>1, <3>2
    <3>4. 1 \in DOMAIN old
      <4> HIDE DEF old
      <4> QED  BY <2>1, <3>1, <3>3
    <3> QED  BY <3>4 DEF NodesLive
  <2>5. \A i, j \in DOMAIN levels[t] : OneForm(t, levels[t][i], levels[t][j])
    BY <1>2, DeterministicIs
  <2>6. FoldedAt(d.levels[t], t) => FoldedAt(levels[t], t)
    BY <1>2, <2>4, <2>5, GrownFolded DEF FoldedAt
  <2> QED  BY <2>3, <2>6 DEF levels
<1> QED  BY <1>5, <1>6

\* The levels of a complement below its root are the completed ones, and only
\* the root's children may have a node nobody names.
LEMMA ComplementedIs ==
  ASSUME NEW d, Sound(d), d.out # Zero, NEW cells, cells \in SUBSET Missing(ExpandFull(d), Root, ExpandFull(d)[Root][d.out]), NEW made,
         made.levels = Complemented(d, cells)
  PROVE  /\ \A t \in Internal \ {Root} : made.levels[t] = ExpandFull(d)[t]
         /\ HasUnnamed(made) \subseteq Children(Root) \ Leaf
<1> DEFINE old == ExpandFull(d)
           new == Complemented(d, cells)
<1>1. InRange(d.levels) /\ Deterministic(d.levels)
  BY SoundIs
<1>2. InRange(new)
  BY ComplementedSound
<1>3. DOMAIN old = Internal
  BY <1>1, ExpandSound DEF InRange
<1>4. \A t \in Internal \ {Root} : new[t] = old[t]
  <2> HIDE DEF old
  <2> QED  BY <1>3 DEF Complemented, old
<1>5. ASSUME NEW u \in HasUnnamed(made) PROVE u \in Children(Root) \ Leaf
  <2>1. u \in Internal \ {Root} /\ Unread(new, u)
    BY <1>2, <1>5, UnnamedIs
  <2>2. Parent[u] \in Internal /\ u \in Children(Parent[u]) /\ u \notin Leaf
    BY <2>1, InternalChild
  <2>3. CASE Parent[u] = Root
    BY <2>2, <2>3
  <2>4. CASE Parent[u] # Root
    <3>1. \A i \in DOMAIN old[u] : Names(old[Parent[u]], Side(u), i)
      BY <1>1, <2>2, <2>4, ExpandShares
    <3>2. new[u] = old[u] /\ new[Parent[u]] = old[Parent[u]]
      BY <1>4, <2>1, <2>2, <2>4
    <3> QED  BY <2>1, <3>1, <3>2 DEF Unread
  <2> QED  BY <2>3, <2>4
<1> QED  BY <1>4, <1>5

\* negate keeps the lists true.
LEMMA ComplementKempt ==
  ASSUME NEW d, Sound(d), Kempt(d), NodesLive(d.levels)
  PROVE  LET both == Complement(d)
         IN  /\ Kempt(both.result)
             /\ both.old = 0 => Best(both.result)
             /\ both.old # 0 => HasUnnamed(both.result) \subseteq Children(Root)
<1>1. CASE d.out = Zero
  <2>1. Complement(d) = [result |-> ConstantTrue, old |-> 0]
    BY <1>1 DEF Complement
  <2>2. Complement(d).result = ConstantTrue /\ Complement(d).old = 0
    BY <2>1
  <2> QED  BY <2>2, ConstantTrueBest, BestKempt
<1>2. CASE d.out # Zero
  <2> DEFINE levels == ExpandFull(d)
             alive(p) == /\ Left[Root] \in Leaf \/ levels[Left[Root]][p[1]] # {}
                         /\ Right[Root] \in Leaf \/ levels[Right[Root]][p[2]] # {}
             cells  == {p \in Missing(levels, Root, levels[Root][d.out]) : alive(p)}
             owed   == Owes(d, levels)
             no     == FALSE
             loose  == Children(Root) \ Leaf
             out    == Len(levels[Root]) + 1
             a      == d.contract \cup owed
             b      == d.leaves \cup owed
             made   == Diagram(Complemented(d, cells), out, a, b, loose, no)
             full   == [result |-> made, old |-> d.out]
             empty  == [result |-> ConstantFalse, old |-> 0]
  <2>1. Complement(d) = IF cells = {} THEN empty ELSE full
    BY <1>2 DEF Complement, Complemented
  <2>2. CASE cells = {}
    <3>1. Complement(d).result = ConstantFalse /\ Complement(d).old = 0
      <4> HIDE DEF cells, full
      <4> QED  BY <2>1, <2>2
    <3> QED  BY <3>1, ConstantFalseBest, BestKempt
  <2>3. CASE cells # {}
    <3>1. Complement(d).result = made /\ Complement(d).old = d.out
      <4> HIDE DEF cells, made
      <4> QED  BY <2>1, <2>3
    <3>2. cells \in SUBSET Missing(ExpandFull(d), Root, ExpandFull(d)[Root][d.out])
      OBVIOUS
    <3>3. Root \in owed
      BY DEF Owes
    <3>4. ~no
      OBVIOUS
    <3> DEFINE new == Complemented(d, cells)
    <3> HIDE DEF cells, owed, no, loose, out, a, b, new
    <3>5. made.levels = new /\ made.contract = a /\ made.leaves = b /\ made.loose = loose /\ made.certified = no
      <4>1. made = Diagram(new, out, a, b, loose, no)
        BY DEF new
      <4> HIDE DEF made
      <4> QED  BY <4>1, DiagramIs
    <3> HIDE DEF made
    <3>6. /\ \A t \in Internal \ {Root} : made.levels[t] = ExpandFull(d)[t]
          /\ HasUnnamed(made) \subseteq Children(Root) \ Leaf
      <4>1. made.levels = Complemented(d, cells)
        BY <3>5 DEF new
      <4> QED  BY <1>2, <3>2, <4>1, ComplementedIs
    <3>7. \A t \in Internal \ {Root} : t \notin owed =>
            /\ t \notin d.contract => FreeAt(made.levels[t], t)
            /\ t \notin d.leaves => FoldedAt(made.levels[t], t)
      BY <3>6, CompletedKeeps DEF owed, Kempt, FreeOff, FoldedOff
    <3>8. FreeOff(made, made.contract) /\ FoldedOff(made, made.leaves)
      BY <3>3, <3>5, <3>7 DEF FreeOff, FoldedOff, a, b
    <3>9. Listed(made) /\ Certain(made)
      BY <3>4, <3>5, <3>6 DEF Listed, Certain, loose
    <3>10. d.out # 0
      <4>1. d.out \in DOMAIN d.levels[Root] /\ DOMAIN d.levels[Root] = 1 .. Len(d.levels[Root]) /\ Len(d.levels[Root]) \in Nat
        BY <1>2, SoundIs, LevelIs, RootIs
      <4> QED  BY <4>1
    <3> QED  BY <3>1, <3>6, <3>8, <3>9, <3>10 DEF Kempt
  <2> QED  BY <2>2, <2>3
<1> QED  BY <1>1, <1>2

-------------------------------------------------------------------------------
(* The prune after a canonical complement (prune_complement). *)

\* A level whose nodes share out the cells of its children's bases, without twins.
FullAt(levels, t) ==
  /\ levels[t] # <<>>
  /\ \E B : /\ SharesOut(levels[t], B)
            /\ \A c \in Children(t) : c \notin Leaf => Free(levels[t], Side(c)) /\ B[Side(c)] = DOMAIN levels[c]
            /\ \A c \in Children(t) : c \in Leaf => ~Foldable(levels[t], Side(c)) /\ (B[Side(c)] = {3} \/ B[Side(c)] = {1, 2})

Full(d) == \A t \in Internal : FullAt(d.levels, t)

\* A trim diagram with an output has a node at every level.
LEMMA TrimHasNodes ==
  ASSUME NEW d, Sound(d), d.out # Zero, NodesLive(d.levels)
  PROVE  \A t \in Internal : d.levels[t] # <<>>
<1> DEFINE P == {t \in Internal : \E k \in DOMAIN d.levels[t] : TRUE}
<1>1. InRange(d.levels) /\ d.out \in DOMAIN d.levels[Root] /\ Root \in P
  BY SoundIs, RootIs
<1>2. ASSUME NEW t \in Internal \ {Root}, Parent[t] \in P PROVE t \in P
  <2>1. Parent[t] \in Internal /\ t \in Children(Parent[t]) /\ t \notin Leaf
    BY InternalChild
  <2>2. PICK k \in DOMAIN d.levels[Parent[t]] : d.levels[Parent[t]][k] # {}
    BY <1>2, <2>1 DEF NodesLive
  <2>3. PICK p \in d.levels[Parent[t]][k] : TRUE
    BY <2>2
  <2>4. p[Side(t)] \in Slots(d.levels, t)
    BY <1>1, <2>1, SidesIs
  <2> QED  BY <2>1, <2>4 DEF Slots
<1>3. Internal \subseteq P
  <2> HIDE DEF P
  <2> QED  BY <1>1, <1>2, DownInduction
<1>4. DOMAIN <<>> = {}
  OBVIOUS
<1> QED  BY <1>3, <1>4

\* The complement of a canonical diagram is full.
LEMMA ComplementFull ==
  ASSUME NEW d, Sound(d), d.certified, Best(d), NodesLive(d.levels), Complement(d).old # 0
  PROVE  Full(Complement(d).result)
<1> DEFINE levels == ExpandFull(d)
           alive(p) == /\ Left[Root] \in Leaf \/ levels[Left[Root]][p[1]] # {}
                       /\ Right[Root] \in Leaf \/ levels[Right[Root]][p[2]] # {}
           pairs  == levels[Root][d.out]
           lost   == Missing(levels, Root, pairs)
           cells  == {p \in lost : alive(p)}
           owed   == Owes(d, levels)
           loose  == Children(Root) \ Leaf
           no     == FALSE
           out    == Len(levels[Root]) + 1
           a      == d.contract \cup owed
           b      == d.leaves \cup owed
           made   == Diagram(Complemented(d, cells), out, a, b, loose, no)
           full   == [result |-> made, old |-> d.out]
           empty  == [result |-> ConstantFalse, old |-> 0]
           new    == Complemented(d, cells)
<1>1. d.out # Zero /\ Complement(d) = IF cells = {} THEN empty ELSE full
  <2>1. d.out = Zero => Complement(d) = [result |-> ConstantTrue, old |-> 0]
    BY DEF Complement
  <2>2. d.out # Zero
    BY <2>1
  <2> QED  BY <2>2 DEF Complement, Complemented
<1>2. Complement(d).result = made /\ cells # {}
  <2> HIDE DEF cells, made
  <2> QED  BY <1>1
<1>3. cells \in SUBSET lost
  OBVIOUS
<1>4. made.levels = new
  <2>1. made = Diagram(new, out, a, b, loose, no)
    OBVIOUS
  <2> HIDE DEF made, new, out, a, b, loose, no
  <2> QED  BY <2>1, DiagramIs
<1>5. /\ InRange(d.levels) /\ Deterministic(d.levels) /\ d.out \in DOMAIN d.levels[Root]
      /\ \A t \in Internal : d.levels[t] # <<>>
      /\ Root \in Internal /\ Left[Root] \in Children(Root) /\ Right[Root] \in Children(Root)
      /\ Side(Left[Root]) = 1 /\ Side(Right[Root]) = 2
  BY <1>1, SoundIs, TrimHasNodes, RootIs, SidesOf DEF Children
<1>6. /\ InRange(levels) /\ levels[Root] = d.levels[Root] /\ Grown(d.levels, levels)
      /\ \A t \in Internal : Wider(d.levels, levels, t)
      /\ NodesLive(levels)
  BY <1>5, ExpandSound, ExpandShares, ExpandFn
<1> HIDE DEF levels
<1>7. InRange(new) /\ Deterministic(new) /\ DOMAIN new[Root] = {1, 2} /\ d.out = 1 /\ Strict(new)
  <2>1. cells \subseteq Missing(ExpandFull(d), Root, ExpandFull(d)[Root][d.out])
    BY <1>3 DEF levels
  <2> HIDE DEF cells
  <2> QED  BY <1>1, <2>1, ComplementedSound
<1>8. DOMAIN levels = Internal
  BY <1>6 DEF InRange
<1>9. new[Root] = Append(levels[Root], cells) /\ \A t \in Internal \ {Root} : new[t] = levels[t]
  <2> HIDE DEF cells
  <2> QED  BY <1>5, <1>8 DEF Complemented, levels
<1> HIDE DEF new
<1>10. Naming(levels, Root, pairs)
  <2>1. OneForm(Root, pairs, pairs)
    BY <1>5, <1>6, DeterministicIs
  <2>2. pairs \subseteq PairsAt(d.levels, Root)
    BY <1>5, <1>6 DEF PairsAt, PairsOf
  <2> HIDE DEF pairs
  <2> QED  BY <1>5, <1>6, <2>1, <2>2, PairsNaming
<1> DEFINE B == Bases(levels, Root, pairs)
<1>11. /\ B[1] \subseteq Nat /\ B[2] \subseteq Nat /\ pairs \subseteq B[1] \X B[2] /\ lost = (B[1] \X B[2]) \ pairs
       /\ \A c \in Children(Root) : c \in Leaf => B[Side(c)] = {3} \/ B[Side(c)] = {1, 2}
       /\ \A c \in Children(Root) : c \notin Leaf => B[Side(c)] = DOMAIN levels[c]
  <2> HIDE DEF pairs
  <2> QED  BY <1>5, <1>6, <1>10, BasesAre
<1>12. cells = lost
  <2>1. \A p \in lost : p[1] \in B[1] /\ p[2] \in B[2]
    <3> HIDE DEF B, lost, pairs
    <3> QED  BY <1>11
  <2>2. Left[Root] \in Leaf \/ (Left[Root] \in Internal /\ B[1] = DOMAIN levels[Left[Root]])
    BY <1>5, <1>11, ParentOf DEF Vtree
  <2>3. Right[Root] \in Leaf \/ (Right[Root] \in Internal /\ B[2] = DOMAIN levels[Right[Root]])
    BY <1>5, <1>11, ParentOf DEF Vtree
  <2> HIDE DEF B, lost
  <2>4. \A p \in lost : alive(p)
    BY <1>6, <2>1, <2>2, <2>3 DEF NodesLive
  <2> QED  BY <2>4
<1>13. PairsOf(new[Root]) = B[1] \X B[2]
  <2>1. PairsOf(d.levels[Root]) = pairs
    <3>1. DOMAIN d.levels[Root] = {1}
      <4> DEFINE old == d.levels[Root]
                 V == SUBSET (Nat \X Nat)
      <4>1. old \in Seq(V) /\ new[Root] = Append(old, cells)
        BY <1>5, <1>6, <1>9, LevelIs
      <4> HIDE DEF old, V, cells
      <4>2. DOMAIN old = 1 .. Len(old) /\ Len(old) \in Nat /\ DOMAIN Append(old, cells) = 1 .. (Len(old) + 1)
        BY <4>1, AppendIs
      <4>3. 1 .. (Len(old) + 1) = {1, 2}
        BY <1>7, <4>1, <4>2
      <4> DEFINE n == Len(old)
      <4>4. n + 1 \in {1, 2} /\ 2 \in 1 .. (n + 1)
        <5>1. n \in Nat /\ 1 .. (n + 1) = {1, 2}
          BY <4>2, <4>3
        <5> HIDE DEF n
        <5>2. n + 1 \in 1 .. (n + 1)
          BY <5>1
        <5> QED  BY <5>1, <5>2
      <4>5. Len(old) = 1
        BY <4>2, <4>4
      <4>6. DOMAIN old = {1}
        BY <4>2, <4>5
      <4> QED  BY <4>6 DEF old
    <3> QED  BY <1>6, <1>7, <3>1 DEF PairsOf
  <2>2. PairsOf(new[Root]) = PairsOf(d.levels[Root]) \cup cells
    <3> DEFINE old == d.levels[Root]
               V == SUBSET (Nat \X Nat)
    <3>1. old \in Seq(V) /\ new[Root] = Append(old, cells)
      BY <1>5, <1>6, <1>9, LevelIs
    <3> HIDE DEF old, V, cells
    <3>2. PairsOf(Append(old, cells)) = PairsOf(old) \cup cells
      BY <3>1, PairsOfAppend
    <3> QED  BY <3>1, <3>2 DEF old
  <2> HIDE DEF B, cells, lost, pairs
  <2> QED  BY <1>11, <1>12, <2>1, <2>2
<1> HIDE DEF cells, lost, pairs
<1>14. SharesOut(new[Root], B)
  <2> DEFINE X == B[1]
             Y == B[2]
  <2>1. B = <<X, Y>>
    BY DEF Bases
  <2>2. X \subseteq Nat /\ Y \subseteq Nat /\ PairsOf(new[Root]) = X \X Y
    BY <1>11, <1>13
  <2> HIDE DEF X, Y, B
  <2>3. SharesOut(new[Root], <<X, Y>>)
    BY <2>2, FullIs
  <2> QED  BY <2>1, <2>3
<1> HIDE DEF B
<1>15. Grown(d.levels, new)
  <2>1. \A t \in Internal \ {Root} : Extends2(d.levels, new, t) /\ \A k \in DOMAIN new[t] : k \in DOMAIN d.levels[t] \/ k = Len(d.levels[t]) + 1
    BY <1>6, <1>9 DEF Grown, Extends2
  <2>2. Extends2(d.levels, new, Root) /\ \A k \in DOMAIN new[Root] : k \in DOMAIN d.levels[Root] \/ k = Len(d.levels[Root]) + 1
    <3> DEFINE old == d.levels[Root]
    <3>1. old \in Seq(SUBSET (Nat \X Nat)) /\ new[Root] = Append(old, cells)
      BY <1>5, <1>6, <1>9, LevelIs
    <3> HIDE DEF old
    <3>2. /\ \A k \in DOMAIN old : k \in DOMAIN Append(old, cells) /\ Append(old, cells)[k] = old[k]
          /\ \A k \in DOMAIN Append(old, cells) : k \in DOMAIN old \/ k = Len(old) + 1
      BY <3>1, AppendIs
    <3> QED  BY <3>1, <3>2 DEF old, Extends2
  <2> QED  BY <1>5, <1>7, <2>1, <2>2 DEF Grown
<1>16. ASSUME NEW t \in Internal, NEW c \in Children(t)
       PROVE  /\ c \notin Leaf => Free(new[t], Side(c))
              /\ c \in Leaf => ~Foldable(new[t], Side(c))
  <2>1. /\ c \notin Leaf => Free(d.levels[t], Side(c)) /\ c \notin HasUnnamed(d)
        /\ c \in Leaf => ~Foldable(d.levels[t], Side(c))
    BY DEF Best, Trim, FreeOff, FoldedOff, FreeAt, FoldedAt
  <2>2. \A i, j \in DOMAIN new[t] : OneForm(t, new[t][i], new[t][j])
    BY <1>7 DEF Strict
  <2>3. \E k \in DOMAIN d.levels[t] : d.levels[t][k] # {}
    <3>1. DOMAIN d.levels[t] # {}
      BY <1>5, LevelIs
    <3> QED  BY <3>1 DEF NodesLive
  <2> QED  BY <1>15, <2>1, <2>2, <2>3, GrownFree, GrownFolded
<1>17. ASSUME NEW t \in Internal PROVE new[t] # <<>>
  <2>1. DOMAIN d.levels[t] # {}
    BY <1>5, LevelIs
  <2>2. DOMAIN new[t] # {}
    BY <1>15, <2>1 DEF Grown, Extends2
  <2> QED  BY <2>2
<1>18. ASSUME NEW t \in Internal
       PROVE  \E C : /\ SharesOut(new[t], C)
                     /\ \A c \in Children(t) : c \notin Leaf => C[Side(c)] = DOMAIN new[c]
                     /\ \A c \in Children(t) : c \in Leaf => (C[Side(c)] = {3} \/ C[Side(c)] = {1, 2})
  <2>1. \A c \in Children(t) : c \notin Leaf => new[c] = levels[c]
    BY <1>9, ParentOf DEF Vtree
  <2>2. CASE t = Root
    BY <1>11, <1>14, <2>1, <2>2
  <2>3. CASE t # Root
    <3> DEFINE C == Bases(levels, t, PairsAt(d.levels, t))
               part == PairsAt(d.levels, t)
    <3>1. Naming(levels, t, part) /\ SharesOut(levels[t], C)
      BY <1>5, <2>3, ExpandShares DEF levels
    <3>2. C = Bases(levels, t, part)
      OBVIOUS
    <3> HIDE DEF C, part
    <3>3. /\ \A c \in Children(t) : c \in Leaf => C[Side(c)] = {3} \/ C[Side(c)] = {1, 2}
          /\ \A c \in Children(t) : c \notin Leaf => C[Side(c)] = DOMAIN levels[c]
      BY <1>6, <3>1, <3>2, BasesAre
    <3> QED  BY <1>9, <2>1, <2>3, <3>1, <3>3
  <2> QED  BY <2>2, <2>3
<1>19. ASSUME NEW t \in Internal PROVE FullAt(new, t)
  <2>1. PICK C : /\ SharesOut(new[t], C)
                 /\ \A c \in Children(t) : c \notin Leaf => C[Side(c)] = DOMAIN new[c]
                 /\ \A c \in Children(t) : c \in Leaf => (C[Side(c)] = {3} \/ C[Side(c)] = {1, 2})
    BY <1>18
  <2> QED  BY <1>16, <1>17, <2>1 DEF FullAt
<1> HIDE DEF made
<1> QED  BY <1>2, <1>4, <1>19 DEF Full

-------------------------------------------------------------------------------
\* The slots opposite a child of a full level: there are some.
LEMMA FullSides ==
  ASSUME NEW d, Sound(d), Full(d), NEW t \in Internal, NEW c \in Children(t), c \notin Leaf
  PROVE  \E B : /\ SharesOut(d.levels[t], B) /\ OfNumbers(d.levels[t]) /\ Side(c) \in {1, 2}
                /\ Free(d.levels[t], Side(c)) /\ B[Side(c)] = DOMAIN d.levels[c]
                /\ B[3 - Side(c)] # {} /\ B[3 - Side(c)] \subseteq Nat
                /\ Side(Sibling(c)) = 3 - Side(c) /\ Sibling(c) \in Children(t)
                /\ Sibling(c) \in Leaf => B[3 - Side(c)] = {3} \/ B[3 - Side(c)] = {1, 2}
                /\ Sibling(c) \notin Leaf => B[3 - Side(c)] = DOMAIN d.levels[Sibling(c)]
<1>1. PICK B : /\ SharesOut(d.levels[t], B)
               /\ \A e \in Children(t) : e \notin Leaf => Free(d.levels[t], Side(e)) /\ B[Side(e)] = DOMAIN d.levels[e]
               /\ \A e \in Children(t) : e \in Leaf => ~Foldable(d.levels[t], Side(e)) /\ (B[Side(e)] = {3} \/ B[Side(e)] = {1, 2})
  BY DEF Full, FullAt
<1>2. InRange(d.levels)
  BY SoundIs
<1>3. OfNumbers(d.levels[t]) /\ Side(c) \in {1, 2}
  BY <1>2, ContextCells
<1>4. Sibling(c) \in Children(t) /\ Side(Sibling(c)) = 3 - Side(c)
  BY SiblingOf DEF Children
<1>5. Sibling(c) \notin Leaf => Sibling(c) \in Internal
  BY <1>4, ParentOf DEF Vtree
<1>6. Sibling(c) \notin Leaf => DOMAIN d.levels[Sibling(c)] # {}
  <2>1. Sibling(c) \notin Leaf => d.levels[Sibling(c)] # <<>>
    BY <1>5 DEF Full, FullAt
  <2> QED  BY <1>2, <1>5, <2>1, LevelIs
<1>7. B[3 - Side(c)] # {}
  BY <1>1, <1>4, <1>6
<1>8. B[3 - Side(c)] \subseteq Nat
  BY <1>1, <1>3 DEF SharesOut
<1> QED  BY <1>1, <1>3, <1>4, <1>7, <1>8

\* Nobody but the dying node names what dies with it.
LEMMA DyingAlone ==
  ASSUME NEW d, Sound(d), Strict(d.levels), NEW t \in Internal, NEW c \in Children(t), c \notin Leaf,
         NEW i \in DOMAIN d.levels[t], NEW u \in DyingChild(d, c, d.levels[t][i]),
         NEW k \in DOMAIN d.levels[t], k # i, NEW x
  PROVE  ~Cell(d.levels[t], Side(c), k, u, x)
<1>1. SUFFICES ASSUME NEW p \in d.levels[t][k], p[Side(c)] = u PROVE FALSE
  BY DEF Cell
<1>2. /\ d.levels[t][i] \cap d.levels[t][k] = {}
      /\ OneForm(t, d.levels[t][i], d.levels[t][i]) /\ OneForm(t, d.levels[t][i], d.levels[t][k])
  BY DEF Strict
<1> QED  BY <1>1, <1>2, DyingIsAlone

\* With a node at most one node of a child dies.
LEMMA DyingIsOne ==
  ASSUME NEW d, Sound(d), Full(d), Strict(d.levels), NEW t \in Internal, NEW c \in Children(t), c \notin Leaf,
         NEW i \in DOMAIN d.levels[t], NEW u \in DyingChild(d, c, d.levels[t][i]), NEW v \in DyingChild(d, c, d.levels[t][i])
  PROVE  u = v
<1> DEFINE level == d.levels[t]
           s == Side(c)
<1>1. PICK B : /\ SharesOut(level, B) /\ OfNumbers(level) /\ s \in {1, 2}
               /\ Free(level, s) /\ B[s] = DOMAIN d.levels[c]
               /\ B[3 - s] # {} /\ B[3 - s] \subseteq Nat
  <2>1. \E B : /\ SharesOut(level, B) /\ OfNumbers(level) /\ s \in {1, 2}
               /\ Free(level, s) /\ B[s] = DOMAIN d.levels[c]
               /\ B[3 - s] # {} /\ B[3 - s] \subseteq Nat
    BY FullSides
  <2> QED  BY <2>1
<1>2. u \in B[s] /\ v \in B[s]
  BY <1>1 DEF DyingChild
<1>3. u \in Nat /\ v \in Nat
  BY <1>1, <1>2 DEF SharesOut
<1>4. \A k \in DOMAIN level : \A x : k # i => ~Cell(level, s, k, u, x) /\ ~Cell(level, s, k, v, x)
  BY DyingAlone
<1> HIDE DEF level, s
<1>5. \A x \in B[3 - s] : Cell(level, s, i, u, x) /\ Cell(level, s, i, v, x)
  BY <1>1, <1>2, <1>4 DEF SharesOut
<1>6. \A x : Cell(level, s, i, u, x) \/ Cell(level, s, i, v, x) => x \in B[3 - s]
  <2>1. i \in DOMAIN level
    BY DEF level
  <2> QED  BY <1>1, <2>1 DEF SharesOut
<1>7. Same(level, s, u, v)
  BY <1>4, <1>5, <1>6 DEF Same
<1>8. Names(level, s, u)
  <2>1. i \in DOMAIN level
    BY DEF level
  <2> QED  BY <1>1, <1>5, <2>1 DEF Names
<1> QED  BY <1>1, <1>3, <1>7, <1>8 DEF Free

\* A node of a child that nobody else names dies with the node that does.
LEMMA DyingNamed ==
  ASSUME NEW d, Sound(d), Full(d), NEW t \in Internal, NEW c \in Children(t), c \notin Leaf,
         NEW i \in DOMAIN d.levels[t], NEW u \in DOMAIN d.levels[c],
         \A k \in DOMAIN d.levels[t] : k # i => \A x : ~Cell(d.levels[t], Side(c), k, u, x)
  PROVE  u \in DyingChild(d, c, d.levels[t][i])
<1> DEFINE level == d.levels[t]
           s == Side(c)
           b == Sibling(c)
           node == level[i]
           at == {p \in node : p[s] = u}
           ones == {p \in node : p[s] = u /\ Weight(b, p[Side(b)]) = 2}
           basis == IF b \in Leaf THEN 2 ELSE Len(d.levels[b])
<1>1. PICK B : /\ SharesOut(level, B) /\ OfNumbers(level) /\ s \in {1, 2}
               /\ Free(level, s) /\ B[s] = DOMAIN d.levels[c]
               /\ B[3 - s] # {} /\ B[3 - s] \subseteq Nat
               /\ Side(b) = 3 - s /\ b \in Children(t)
               /\ b \in Leaf => B[3 - s] = {3} \/ B[3 - s] = {1, 2}
               /\ b \notin Leaf => B[3 - s] = DOMAIN d.levels[b]
  <2>1. \E B : /\ SharesOut(level, B) /\ OfNumbers(level) /\ s \in {1, 2}
               /\ Free(level, s) /\ B[s] = DOMAIN d.levels[c]
               /\ B[3 - s] # {} /\ B[3 - s] \subseteq Nat
               /\ Side(b) = 3 - s /\ b \in Children(t)
               /\ b \in Leaf => B[3 - s] = {3} \/ B[3 - s] = {1, 2}
               /\ b \notin Leaf => B[3 - s] = DOMAIN d.levels[b]
    BY FullSides
  <2> QED  BY <2>1
<1> DEFINE X == B[3 - s]
<1>2. \A x \in X : Cell(level, s, i, u, x)
  <2>1. u \in B[s]
    BY <1>1
  <2>2. \A x \in X : \E k \in DOMAIN level : Cell(level, s, k, u, x)
    BY <1>1, <2>1 DEF SharesOut
  <2> QED  BY <2>2
<1>3. \A x : Cell(level, s, i, u, x) => x \in X
  BY <1>1 DEF SharesOut
<1>4. node \subseteq Nat \X Nat
  BY <1>1 DEF OfNumbers
<1> DEFINE f == [x \in X |-> IF s = 1 THEN <<u, x>> ELSE <<x, u>>]
<1>5. ExistsBijection(X, at)
  <2>1. \A x \in X : f[x] \in at /\ f[x][3 - s] = x
    <3> SUFFICES ASSUME NEW x \in X PROVE f[x] \in at /\ f[x][3 - s] = x
      OBVIOUS
    <3>1. i \in DOMAIN level
      OBVIOUS
    <3>2. s = 1 => <<u, x>> \in level[i]
      BY <1>1, <1>2, <3>1, CellIs
    <3>3. s = 2 => <<x, u>> \in level[i]
      BY <1>1, <1>2, <3>1, CellIs
    <3> HIDE DEF level, s, X
    <3>4. s \in {1, 2} /\ f[x] = IF s = 1 THEN <<u, x>> ELSE <<x, u>>
      BY <1>1
    <3> QED  BY <3>2, <3>3, <3>4
  <2>2. \A p \in at : p[3 - s] \in X /\ f[p[3 - s]] = p
    <3> SUFFICES ASSUME NEW p \in at PROVE p[3 - s] \in X /\ f[p[3 - s]] = p
      OBVIOUS
    <3>1. Cell(level, s, i, u, p[3 - s])
      BY DEF Cell
    <3>2. p[3 - s] \in X
      BY <1>3, <3>1
    <3>3. p = <<p[1], p[2]>> /\ p[s] = u
      BY <1>4
    <3> HIDE DEF level, s, X, at
    <3> QED  BY <1>1, <3>2, <3>3
  <2> HIDE DEF f, X, at, s
  <2>3. f \in [X -> at]
    <3>1. f = [x \in X |-> f[x]]
      BY DEF f
    <3> QED  BY <2>1, <3>1
  <2>4. \A x, y \in X : f[x] = f[y] => x = y
    BY <2>1
  <2>5. \A p \in at : \E x \in X : f[x] = p
    BY <2>2
  <2>6. f \in Bijection(X, at)
    BY <2>3, <2>4, <2>5 DEF Bijection, Injection, Surjection, IsInjective
  <2> QED  BY <2>6 DEF ExistsBijection
<1>6. InRange(d.levels)
  BY SoundIs
<1>7. Cardinality(at) + Cardinality(ones) = basis
  <2>1. CASE b \in Leaf /\ X = {3}
    <3>1. ones = at
      <4>1. \A p \in at : p[3 - s] = 3
        <5> SUFFICES ASSUME NEW p \in at PROVE p[3 - s] = 3
          OBVIOUS
        <5>1. Cell(level, s, i, u, p[3 - s])
          BY DEF Cell
        <5> QED  BY <1>3, <2>1, <5>1
      <4> HIDE DEF s, X, node
      <4> QED  BY <1>1, <2>1, <4>1 DEF Weight, One
    <3>2. IsFiniteSet(X) /\ Cardinality(X) = 1
      BY <2>1, FS_Singleton
    <3>3. IsFiniteSet(at) /\ Cardinality(at) = 1
      <4> HIDE DEF at, X, f
      <4> QED  BY <1>5, <3>2, FS_Bijection
    <3> HIDE DEF at, ones
    <3> QED  BY <2>1, <3>1, <3>3
  <2>2. CASE b \in Leaf /\ X = {1, 2}
    <3>1. ones = {}
      <4>1. \A p \in at : p[3 - s] # 3
        <5> SUFFICES ASSUME NEW p \in at PROVE p[3 - s] # 3
          OBVIOUS
        <5>1. Cell(level, s, i, u, p[3 - s])
          BY DEF Cell
        <5>2. p[3 - s] \in X
          BY <1>3, <5>1
        <5> HIDE DEF X
        <5> QED  BY <2>2, <5>2
      <4> HIDE DEF s, X, node
      <4> QED  BY <1>1, <2>2, <4>1 DEF Weight, One
    <3>2. IsFiniteSet(X) /\ Cardinality(X) = 2
      <4> DEFINE n == 2
      <4>1. X = 1 .. n /\ n \in Nat
        BY <2>2
      <4> HIDE DEF X, n
      <4>2. IsFiniteSet(X) /\ Cardinality(X) = n
        BY <4>1, FS_Interval
      <4> QED  BY <4>2 DEF n
    <3>3. IsFiniteSet(at) /\ Cardinality(at) = 2
      <4> HIDE DEF at, X, f
      <4> QED  BY <1>5, <3>2, FS_Bijection
    <3>4. Cardinality(ones) = 0
      <4> HIDE DEF ones
      <4> QED  BY <3>1, FS_EmptySet
    <3> HIDE DEF at, ones
    <3> QED  BY <2>2, <3>3, <3>4
  <2>3. CASE b \notin Leaf
    <3>1. ones = {}
      BY <2>3 DEF Weight
    <3>2. b \in Internal
      BY <1>1, <2>3, ParentOf DEF Vtree
    <3>3. X = 1 .. Len(d.levels[b]) /\ Len(d.levels[b]) \in Nat
      <4>1. X = DOMAIN d.levels[b]
        BY <1>1, <2>3
      <4> HIDE DEF X
      <4> QED  BY <1>6, <3>2, <4>1, LevelIs
    <3>4. IsFiniteSet(X) /\ Cardinality(X) = Len(d.levels[b])
      <4> HIDE DEF X
      <4> DEFINE n == Len(d.levels[b])
      <4>1. X = 1 .. n /\ n \in Nat
        BY <3>3
      <4> HIDE DEF n
      <4>2. IsFiniteSet(X) /\ Cardinality(X) = n
        BY <4>1, FS_Interval
      <4> QED  BY <4>2 DEF n
    <3>5. IsFiniteSet(at) /\ Cardinality(at) = Cardinality(X) /\ Cardinality(at) \in Nat
      <4>1. IsFiniteSet(at) /\ Cardinality(at) = Cardinality(X)
        <5> HIDE DEF at, X, f
        <5> QED  BY <1>5, <3>4, FS_Bijection
      <4> HIDE DEF at, X
      <4> QED  BY <4>1, FS_CardinalityType
    <3>6. Cardinality(ones) = 0
      <4> HIDE DEF ones
      <4> QED  BY <3>1, FS_EmptySet
    <3> HIDE DEF at, ones, X
    <3> QED  BY <2>3, <3>4, <3>5, <3>6
  <2> HIDE DEF at, ones, basis
  <2> QED  BY <1>1, <2>1, <2>2, <2>3
<1> QED  BY <1>7 DEF DyingChild

-------------------------------------------------------------------------------
\* At most one node a level dies with the operand's output.
LEMMA DyingFew ==
  ASSUME NEW d, Sound(d), Full(d), Strict(d.levels), NEW dying, Dying(d, dying)
  PROVE  \A t \in Internal : \A i, j \in dying[t] : i = j
<1> DEFINE P == {t \in Internal : \A i, j \in dying[t] : i = j}
<1>1. Root \in P
  BY RootIs DEF Dying
<1>2. ASSUME NEW t \in Internal \ {Root}, Parent[t] \in P PROVE t \in P
  <2> DEFINE p == Parent[t]
  <2>1. p \in Internal /\ t \in Children(p) /\ t \notin Leaf
    BY InternalChild
  <2>2. \A i, j \in dying[p] : i = j
    BY <1>2
  <2>3. dying[t] = UNION {DyingChild(d, t, d.levels[p][i]) : i \in dying[p]} /\ dying[p] \subseteq DOMAIN d.levels[p]
    BY <2>1 DEF Dying
  <2>4. ASSUME NEW u \in dying[t], NEW v \in dying[t] PROVE u = v
    <3>1. PICK i \in dying[p] : u \in DyingChild(d, t, d.levels[p][i])
      BY <2>3
    <3>2. PICK j \in dying[p] : v \in DyingChild(d, t, d.levels[p][j])
      BY <2>3
    <3>3. i = j /\ i \in DOMAIN d.levels[p]
      BY <2>2, <2>3
    <3> HIDE DEF p
    <3> QED  BY <2>1, <3>1, <3>2, <3>3, DyingIsOne
  <2> QED  BY <2>4
<1>3. Internal \subseteq P
  <2> HIDE DEF P
  <2> QED  BY <1>1, <1>2, DownInduction
<1> QED  BY <1>3

\* What the prune keeps is what the complement's output reaches.
LEMMA UndyingExact ==
  ASSUME NEW d, Sound(d), NEW old, Beside(d, old), Full(d), NEW dying, Dying(d, dying), Closed(d.levels, Undying(d, dying))
  PROVE  Exact(d, Undying(d, dying))
<1> DEFINE kept == Undying(d, dying)
<1>1. /\ DOMAIN d.levels[Root] = {1, 2} /\ d.out = 2 /\ Strict(d.levels) /\ Root \in Internal /\ InRange(d.levels)
  BY SoundIs, RootIs DEF Beside
<1>2. kept[Root] = {d.out}
  BY <1>1 DEF Undying, Dying
<1>3. ASSUME NEW t \in Internal \ {Root} PROVE kept[t] = NamedFrom(d.levels, t, kept[Parent[t]])
  <2> DEFINE p == Parent[t]
             s == Side(t)
  <2>1. p \in Internal /\ t \in Children(p) /\ t \notin Leaf
    BY InternalChild
  <2>2. kept[t] = DOMAIN d.levels[t] \ dying[t] /\ kept[p] = DOMAIN d.levels[p] \ dying[p]
    BY <2>1 DEF Undying
  <2>3. /\ dying[t] = UNION {DyingChild(d, t, d.levels[p][i]) : i \in dying[p]} /\ dying[p] \subseteq DOMAIN d.levels[p]
        /\ \A i, j \in dying[p] : i = j
    BY <1>1, <2>1, DyingFew DEF Dying
  <2> HIDE DEF p
  <2>4. ASSUME NEW u \in NamedFrom(d.levels, t, kept[p]) PROVE u \in kept[t]
    <3>1. PICK i \in kept[p] : \E q \in d.levels[p][i] : u = q[s]
      BY <2>4 DEF NamedFrom, p
    <3>2. PICK q \in d.levels[p][i] : u = q[s]
      BY <3>1
    <3>3. /\ Left[p] \notin Leaf => q[1] \in kept[Left[p]]
          /\ Right[p] \notin Leaf => q[2] \in kept[Right[p]]
      <4> HIDE DEF kept
      <4> QED  BY <2>1, <3>1, <3>2 DEF Closed, kept
    <3>4. (t = Left[p] /\ s = 1) \/ (t = Right[p] /\ s = 2)
      BY <2>1, SidesOf DEF Children
    <3> QED  BY <2>1, <3>2, <3>3, <3>4
  <2>5. ASSUME NEW u \in kept[t], u \notin NamedFrom(d.levels, t, kept[p]) PROVE FALSE
    <3>1. u \in DOMAIN d.levels[t] /\ u \notin dying[t]
      BY <2>2
    <3>2. \A k \in kept[p] : \A q \in d.levels[p][k] : q[s] # u
      BY <2>5 DEF NamedFrom, p
    <3>3. \A k \in kept[p] : \A x : ~Cell(d.levels[p], s, k, u, x)
      BY <3>2 DEF Cell
    <3>4. PICK B : /\ SharesOut(d.levels[p], B) /\ B[s] = DOMAIN d.levels[t] /\ B[3 - s] # {} /\ s \in {1, 2}
      <4>1. \E B : SharesOut(d.levels[p], B) /\ B[s] = DOMAIN d.levels[t] /\ B[3 - s] # {} /\ s \in {1, 2}
        BY <2>1, FullSides
      <4> QED  BY <4>1
    <3>5. PICK x \in B[3 - s] : TRUE
      BY <3>4
    <3>6. PICK i \in DOMAIN d.levels[p] : Cell(d.levels[p], s, i, u, x)
      BY <3>1, <3>4, <3>5 DEF SharesOut
    <3>7. i \in dying[p]
      BY <2>2, <3>3, <3>6
    <3>8. \A k \in DOMAIN d.levels[p] : k # i => k \in kept[p]
      BY <2>2, <2>3, <3>7
    <3> HIDE DEF kept
    <3>9. \A k \in DOMAIN d.levels[p] : k # i => \A y : ~Cell(d.levels[p], s, k, u, y)
      BY <3>3, <3>8
    <3>10. u \in DyingChild(d, t, d.levels[p][i])
      BY <2>1, <3>1, <3>6, <3>9, DyingNamed
    <3> QED  BY <2>3, <3>1, <3>7, <3>10
  <2>6. kept[t] = NamedFrom(d.levels, t, kept[p])
    <3> HIDE DEF kept
    <3> QED  BY <2>4, <2>5
  <2> QED  BY <2>6 DEF p
<1> QED  BY <1>2, <1>3 DEF Exact

\* What is kept of a level, before it is renumbered.
LEMMA UndyingDrops ==
  ASSUME NEW levels, InRange(levels), NEW kept, Closed(levels, kept), NEW t \in Internal, NEW gone,
         \A i, j \in gone : i = j, \A i : i \in kept[t] <=> i \in DOMAIN levels[t] /\ i \notin gone
  PROVE  Drops(levels[t], Picked(levels, kept, t), gone)
<1>0. /\ \A k \in 1 .. Cardinality(kept[t]) : Was(kept, t, k) \in kept[t]
      /\ \A i \in kept[t] : Rank(kept[t], i) \in 1 .. Cardinality(kept[t]) /\ Was(kept, t, Rank(kept[t], i)) = i
  BY WasIs
<1> DEFINE n == Cardinality(kept[t])
<1>1. /\ \A k \in 1 .. n : Was(kept, t, k) \in kept[t]
      /\ \A i \in kept[t] : Rank(kept[t], i) \in 1 .. n /\ Was(kept, t, Rank(kept[t], i)) = i
  BY <1>0
<1> HIDE DEF n
<1>2. Picked(levels, kept, t) = [k \in 1 .. n |-> levels[t][Was(kept, t, k)]]
  BY DEF Picked, n
<1>3. \A k \in DOMAIN Picked(levels, kept, t) : \E m \in DOMAIN levels[t] \ gone : Picked(levels, kept, t)[k] = levels[t][m]
  BY <1>1, <1>2
<1>4. \A m \in DOMAIN levels[t] \ gone : \E k \in DOMAIN Picked(levels, kept, t) : Picked(levels, kept, t)[k] = levels[t][m]
  BY <1>1, <1>2
<1> QED  BY <1>3, <1>4 DEF Drops

\* After the prune every node is named, and there are no twins.
LEMMA PruneComplementBest ==
  ASSUME NEW d, Sound(d), NEW old, Beside(d, old), Full(d)
  PROVE  Best(PruneComplement(d, old))
<1>1. PICK dying : /\ Dying(d, dying) /\ Closed(d.levels, Undying(d, dying))
                   /\ PruneComplement(d, old) = Kept(d, Undying(d, dying))
  BY DyingIs
<1> DEFINE kept == Undying(d, dying)
           made == Kept(d, kept)
<1>2. /\ DOMAIN d.levels[Root] = {1, 2} /\ d.out = 2 /\ d.out # Zero /\ Strict(d.levels) /\ Root \in Internal /\ InRange(d.levels)
  BY SoundIs, RootIs DEF Beside, Zero
<1>3. Exact(d, kept)
  BY <1>1, UndyingExact
<1>4. Closed(d.levels, kept) /\ Trim(made)
  <2> HIDE DEF kept
  <2> QED  BY <1>2, <1>3, ExactTrims
<1>5. Root \in Lost(d, kept)
  BY <1>2, <1>3 DEF Lost, Exact
<1>6. made.levels = Compact(d.levels, kept)
  <2>1. made.levels = LeftLevels(d, kept)
    <3> HIDE DEF kept
    <3> QED  BY KeptParts
  <2> HIDE DEF kept, made
  <2> QED  BY <1>5, <2>1 DEF LeftLevels
<1>7. ASSUME NEW t \in Internal PROVE FreeAt(made.levels[t], t) /\ FoldedAt(made.levels[t], t)
  <2> DEFINE level == d.levels[t]
             part == Picked(d.levels, kept, t)
             gone == dying[t]
  <2>1. Drops(level, part, gone)
    <3>1. \A i : i \in kept[t] <=> i \in DOMAIN d.levels[t] /\ i \notin gone
      BY DEF Undying
    <3>2. \A i, j \in gone : i = j
      BY <1>1, <1>2, DyingFew
    <3> HIDE DEF kept, gone
    <3> QED  BY <1>2, <1>4, <3>1, <3>2, UndyingDrops
  <2>2. PICK B : /\ SharesOut(level, B)
                 /\ \A c \in Children(t) : c \notin Leaf => Free(level, Side(c))
                 /\ \A c \in Children(t) : c \in Leaf => ~Foldable(level, Side(c)) /\ (B[Side(c)] = {3} \/ B[Side(c)] = {1, 2})
    BY DEF Full, FullAt
  <2>3. \A c \in Children(t) : OfNumbers(level) /\ Side(c) \in {1, 2}
    BY <1>2, ContextCells
  <2>4. RowsApart(level)
    BY <1>2 DEF RowsApart, Strict
  <2> HIDE DEF level, part, gone, kept
  <2>5. FreeAt(part, t)
    BY <2>1, <2>2, <2>3, <2>4, DropFree DEF FreeAt
  <2>6. FoldedAt(part, t)
    BY <2>1, <2>2, <2>3, <2>4, DropFoldable DEF FoldedAt
  <2>7. (FreeAt(part, t) => FreeAt(Compact(d.levels, kept)[t], t)) /\ (FoldedAt(part, t) => FoldedAt(Compact(d.levels, kept)[t], t))
    BY <1>2, <1>4, CompactKeeps DEF part
  <2> QED  BY <1>6, <2>5, <2>6, <2>7
<1>8. FreeOff(made, {}) /\ FoldedOff(made, {})
  <2> HIDE DEF made
  <2> QED  BY <1>7 DEF FreeOff, FoldedOff
<1> QED  BY <1>1, <1>4, <1>8 DEF Best

\* What certify_complement ends with has no twins and nothing unnamed.
LEMMA CertifiedComplement ==
  ASSUME NEW d, Sound(d), d.certified, Kempt(d), NodesLive(d.levels)
  PROVE  LET both == Complement(d)
         IN  Best(IF both.old # 0 THEN PruneComplement(both.result, both.old) ELSE Prune(both.result, TRUE))
<1> DEFINE both == Complement(d)
<1>1. Best(d)
  BY DEF Kempt, Certain
<1>2. Sound(both.result) /\ (both.old # 0 => Beside(both.result, both.old))
  BY ComplementSound
<1>3. CASE both.old # 0
  <2>1. Full(both.result)
    BY <1>1, <1>3, ComplementFull
  <2> HIDE DEF both
  <2>2. Best(PruneComplement(both.result, both.old))
    BY <1>2, <1>3, <2>1, PruneComplementBest
  <2> QED  BY <1>3, <2>2 DEF both
<1>4. CASE both.old = 0
  <2>1. Best(both.result)
    BY <1>4, ComplementKempt
  <2> HIDE DEF both
  <2> DEFINE yes == TRUE
  <2>2. Listed(both.result) /\ HasUnnamed(both.result) \subseteq Children(Root) /\ yes
    BY <2>1 DEF Best, Trim, Listed
  <2> HIDE DEF yes
  <2>3. Tended(both.result, Prune(both.result, yes))
    BY <1>2, <2>2, PruneTrims
  <2>4. Best(Prune(both.result, yes))
    BY <2>1, <2>3 DEF Tended
  <2> QED  BY <1>4, <2>4 DEF both, yes
<1> QED  BY <1>3, <1>4

-------------------------------------------------------------------------------
(***************************************************************************)
(* Conjunction: the levels built, the twins they may hold, the nodes they  *)
(* may leave unnamed.                                                      *)
(***************************************************************************)
\* How a level was made, as its carrier tells.
MadeAs(f, g, swept, t) ==
  \/ swept[t].carrier = 1 /\ CarriedFirst(f, g, swept, t)
  \/ swept[t].carrier = 2 /\ CarriedSecond(f, g, swept, t)
  \/ swept[t].carrier = 0 /\ BuiltAs(f, g, swept, t)

\* Every slot of a level is a product's.
Onto(f, g, swept, t) ==
  \A k \in DOMAIN swept[t].level : \E i \in DOMAIN f.levels[t], j \in DOMAIN g.levels[t] : swept[t].at[<<i, j>>] = k

\* Every level was made so.
LEMMA MadeIs ==
  ASSUME NEW f, Sound(f), NEW g, Sound(g), NEW t \in Internal
  PROVE  LET swept == Sweep(f, g, {})
         IN  /\ MadeAs(f, g, swept, t)
             /\ DOMAIN swept[t].at = (DOMAIN f.levels[t]) \X (DOMAIN g.levels[t])
             /\ swept[t].carrier = 0 => Onto(f, g, swept, t)
<1> DEFINE swept == Sweep(f, g, {})
           F == f.levels[t]
           G == g.levels[t]
           l == swept[Left[t]]
           r == swept[Right[t]]
           grid == (DOMAIN F) \X (DOMAIN G)
           pairs == [ij \in grid |-> ProductPairs(l.at, r.at, F[ij[1]], G[ij[2]])]
           fTrue == IdentityLevel(F, l.fIs, r.fIs)
           gTrue == IdentityLevel(G, l.gIs, r.gIs)
           yes == TRUE
           no == FALSE
<1>1. Len(F) \in Nat /\ Len(G) \in Nat /\ DOMAIN F = 1 .. Len(F) /\ DOMAIN G = 1 .. Len(G)
  BY SoundIs, LevelIs
<1>2. swept[t] = SweptLevel(f, g, {}, t, l, r)
  BY SweepIs
<1>3. swept[t] = IF gTrue THEN [fIs |-> fTrue, gIs |-> yes, carrier |-> 1, level |-> F,
                                at |-> [ij \in grid |-> ij[1]]]
                 ELSE IF fTrue THEN [fIs |-> yes, gIs |-> no, carrier |-> 2, level |-> G,
                                     at |-> [ij \in grid |-> ij[2]]]
                 ELSE BuiltLevel(F, G, pairs)
  <2>1. Table(pairs) = pairs
    BY TableIs
  <2> QED  BY <1>2, <2>1 DEF SweptLevel
<1>4. CarriedFirst(f, g, swept, t) \/ CarriedSecond(f, g, swept, t) \/ BuiltAs(f, g, swept, t)
  BY SweptAs
<1>5. yes /\ ~no
  OBVIOUS
<1>6. /\ CarriedFirst(f, g, swept, t) => swept[t].gIs
      /\ CarriedSecond(f, g, swept, t) => ~swept[t].gIs /\ fTrue
      /\ BuiltAs(f, g, swept, t) => ~swept[t].gIs /\ ~swept[t].fIs
  BY DEF CarriedFirst, CarriedSecond, BuiltAs
<1>7. CASE gTrue
  <2>1. swept[t].carrier = 1 /\ swept[t].gIs = yes /\ DOMAIN swept[t].at = grid
    <3> HIDE DEF swept, fTrue, yes, F, grid
    <3> QED  BY <1>3, <1>7
  <2> HIDE DEF swept, yes, fTrue, grid
  <2>2. swept[t].gIs
    BY <1>5, <2>1
  <2>3. CarriedFirst(f, g, swept, t)
    BY <1>4, <1>6, <2>2
  <2>4. MadeAs(f, g, swept, t) /\ swept[t].carrier # 0
    BY <2>1, <2>3 DEF MadeAs
  <2> QED  BY <2>1, <2>4 DEF swept, grid
<1>8. CASE ~gTrue /\ fTrue
  <2>1. swept[t].carrier = 2 /\ swept[t].fIs = yes /\ swept[t].gIs = no /\ DOMAIN swept[t].at = grid
    <3>1. swept[t] = [fIs |-> yes, gIs |-> no, carrier |-> 2, level |-> G, at |-> [ij \in grid |-> ij[2]]]
      BY <1>3, <1>8
    <3> HIDE DEF swept, yes, no, G, grid
    <3> QED  BY <3>1
  <2> HIDE DEF swept, yes, no, fTrue, grid
  <2>2. ~swept[t].gIs /\ swept[t].fIs
    BY <1>5, <2>1
  <2>3. CarriedSecond(f, g, swept, t)
    BY <1>4, <1>6, <2>2
  <2>4. MadeAs(f, g, swept, t) /\ swept[t].carrier # 0
    BY <2>1, <2>3 DEF MadeAs
  <2> QED  BY <2>1, <2>4 DEF swept, grid
<1>9. CASE ~gTrue /\ ~fTrue
  <2>1. swept[t] = BuiltLevel(F, G, pairs)
    BY <1>3, <1>9
  <2>2. OnGrid(pairs, F, G)
    BY DEF OnGrid
  <2> HIDE DEF pairs
  <2> DEFINE made == BuiltLevel(F, G, pairs)
  <2>3. made.carrier = 0
    BY DEF BuiltLevel
  <2>4. DOMAIN made.at = DOMAIN pairs
    BY TableIs DEF BuiltLevel
  <2>5. Numbered(F) /\ Numbered(G)
    BY <1>1 DEF Numbered
  <2>6. /\ ~made.fIs /\ ~made.gIs
        /\ \A k \in DOMAIN made.level : \E i \in DOMAIN F, j \in DOMAIN G : made.at[<<i, j>>] = k
    <3> HIDE DEF F, G
    <3>1. /\ ~made.fIs /\ ~made.gIs
          /\ \A k \in DOMAIN made.level : \E i \in DOMAIN F, j \in DOMAIN G :
               made.level[k] = pairs[<<i, j>>] /\ made.at[<<i, j>>] = k
      BY <2>2, <2>5, BuiltLevelIs
    <3> QED  BY <3>1
  <2> HIDE DEF swept, made
  <2>7. swept[t].carrier = 0 /\ DOMAIN swept[t].at = grid /\ Onto(f, g, swept, t) /\ ~swept[t].gIs
    BY <2>1, <2>2, <2>3, <2>4, <2>6 DEF made, OnGrid, Onto
  <2> HIDE DEF fTrue
  <2>8. BuiltAs(f, g, swept, t)
    BY <1>4, <1>6, <1>9, <2>7 DEF swept
  <2> QED  BY <2>7, <2>8 DEF MadeAs, swept
<1> QED  BY <1>7, <1>8, <1>9

\* Every slot of a product is of the grid.
LEMMA GridAll ==
  ASSUME NEW f, Sound(f), NEW g, Sound(g)
  PROVE  \A t \in Vtree : Grid(f, g, Sweep(f, g, {}), t)
<1> DEFINE swept == Sweep(f, g, {})
           P == {t \in Vtree : Grid(f, g, swept, t)}
<1>1. Leaf \subseteq P
  BY GridLeaf DEF Vtree
<1>2. ASSUME NEW t \in Internal, Left[t] \in P, Right[t] \in P PROVE t \in P
  BY <1>2, GridStep DEF Vtree
<1>3. Vtree \subseteq P
  <2> HIDE DEF P
  <2> QED  BY <1>1, <1>2, UpInduction
<1> QED  BY <1>3

\* The products of the cells of two nodes, seen from a child.
MetCell(f, g, swept, t, c, a, b, u, x) ==
  \E i, j, y, z \in Nat :
    /\ Cell(f.levels[t], Side(c), a, i, y) /\ Cell(g.levels[t], Side(c), b, j, z)
    /\ u = swept[c].at[<<i, j>>] /\ u # 0
    /\ x = swept[Sibling(c)].at[<<y, z>>] /\ x # 0

\* They are the pairs of the nodes' product.
LEMMA MetIs ==
  ASSUME NEW f, Sound(f), NEW g, Sound(g), NEW swept, NEW t \in Internal, NEW c \in Children(t),
         NEW a \in DOMAIN f.levels[t], NEW b \in DOMAIN g.levels[t], NEW u, NEW x
  PROVE  (\E q \in ProductPairs(swept[Left[t]].at, swept[Right[t]].at, f.levels[t][a], g.levels[t][b]) : q[Side(c)] = u /\ q[3 - Side(c)] = x)
           <=> MetCell(f, g, swept, t, c, a, b, u, x)
<1> DEFINE l == swept[Left[t]].at
           r == swept[Right[t]].at
           s == Side(c)
           at == swept[c].at
           by == swept[Sibling(c)].at
<1>1. /\ OfNumbers(f.levels[t]) /\ OfNumbers(g.levels[t]) /\ s \in {1, 2}
  BY SoundIs, ContextCells
<1>2. /\ c = Left[t] => s = 1 /\ Sibling(c) = Right[t]
      /\ c = Right[t] => s = 2 /\ Sibling(c) = Left[t]
      /\ c = Left[t] \/ c = Right[t]
  BY SiblingOf DEF Children
<1>3. /\ f.levels[t][a] \subseteq Nat \X Nat /\ g.levels[t][b] \subseteq Nat \X Nat
  BY <1>1 DEF OfNumbers
<1>4. \A q : q \in ProductPairs(l, r, f.levels[t][a], g.levels[t][b])
               <=> \E p \in f.levels[t][a], o \in g.levels[t][b] : Meets(l, r, p, o, q)
  <2> HIDE DEF l, r
  <2> QED  BY ProductPairsHas
<1> DEFINE met == ProductPairs(l, r, f.levels[t][a], g.levels[t][b])
<1>5. /\ c = Left[t] => l = at /\ r = by
      /\ c = Right[t] => r = at /\ l = by
  BY <1>2
<1> HIDE DEF met, l, r, at, by
<1>6. ASSUME NEW q \in met, q[s] = u, q[3 - s] = x PROVE MetCell(f, g, swept, t, c, a, b, u, x)
  <2>1. PICK p \in f.levels[t][a], o \in g.levels[t][b] : Meets(l, r, p, o, q)
    BY <1>4, <1>6 DEF met
  <2>2. p[s] \in Nat /\ p[3 - s] \in Nat /\ o[s] \in Nat /\ o[3 - s] \in Nat
    BY <1>1, <1>3
  <2>3. Cell(f.levels[t], s, a, p[s], p[3 - s]) /\ Cell(g.levels[t], s, b, o[s], o[3 - s])
    BY DEF Cell
  <2>4. u = at[<<p[s], o[s]>>] /\ u # 0 /\ x = by[<<p[3 - s], o[3 - s]>>] /\ x # 0
    <3> HIDE DEF s
    <3> QED  BY <1>2, <1>5, <1>6, <2>1 DEF Meets
  <2> QED  BY <2>2, <2>3, <2>4 DEF MetCell, at, by
<1>7. ASSUME MetCell(f, g, swept, t, c, a, b, u, x) PROVE \E q \in met : q[s] = u /\ q[3 - s] = x
  <2>1. PICK i, j, y, z \in Nat :
             /\ Cell(f.levels[t], s, a, i, y) /\ Cell(g.levels[t], s, b, j, z)
             /\ u = at[<<i, j>>] /\ u # 0
             /\ x = by[<<y, z>>] /\ x # 0
    BY <1>7 DEF MetCell, at, by
  <2>2. PICK p \in f.levels[t][a] : p[s] = i /\ p[3 - s] = y
    BY <2>1 DEF Cell
  <2>3. PICK o \in g.levels[t][b] : o[s] = j /\ o[3 - s] = z
    BY <2>1 DEF Cell
  <2> DEFINE q == <<l[<<p[1], o[1]>>], r[<<p[2], o[2]>>]>>
  <2>4. q[1] = l[<<p[1], o[1]>>] /\ q[2] = r[<<p[2], o[2]>>]
    OBVIOUS
  <2> HIDE DEF q, s
  <2>5. q[s] = u /\ q[3 - s] = x
    BY <1>2, <1>5, <2>1, <2>2, <2>3, <2>4
  <2>6. q[1] # 0 /\ q[2] # 0
    BY <1>1, <2>1, <2>5
  <2>7. Meets(l, r, p, o, q)
    BY <2>4, <2>6 DEF Meets, q
  <2> QED  BY <1>4, <2>5, <2>7 DEF met
<1> QED  BY <1>6, <1>7 DEF met, l, r

\* A level built holds the products that are not false.
LEMMA BuiltCells ==
  ASSUME NEW f, Sound(f), NEW g, Sound(g), NEW swept, NEW t \in Internal, BuiltAs(f, g, swept, t), NEW c \in Children(t),
         NEW a \in DOMAIN f.levels[t], NEW b \in DOMAIN g.levels[t]
  PROVE  LET k == swept[t].at[<<a, b>>]
         IN  IF k = 0 THEN \A u, x : ~MetCell(f, g, swept, t, c, a, b, u, x)
             ELSE k \in DOMAIN swept[t].level /\ \A u, x : Cell(swept[t].level, Side(c), k, u, x) <=> MetCell(f, g, swept, t, c, a, b, u, x)
<1> DEFINE k == swept[t].at[<<a, b>>]
           met == ProductPairs(swept[Left[t]].at, swept[Right[t]].at, f.levels[t][a], g.levels[t][b])
<1>1. IF k = 0 THEN met = {} ELSE k \in DOMAIN swept[t].level /\ swept[t].level[k] = met
  BY DEF BuiltAs
<1>2. \A u, x : (\E q \in met : q[Side(c)] = u /\ q[3 - Side(c)] = x) <=> MetCell(f, g, swept, t, c, a, b, u, x)
  BY MetIs
<1> HIDE DEF met, k
<1>3. CASE k = 0
  BY <1>1, <1>2, <1>3 DEF k
<1>4. CASE k # 0
  <2>1. k \in DOMAIN swept[t].level /\ swept[t].level[k] = met
    BY <1>1, <1>4
  <2>2. \A u, x : Cell(swept[t].level, Side(c), k, u, x) <=> MetCell(f, g, swept, t, c, a, b, u, x)
    BY <1>2, <2>1 DEF Cell
  <2> QED  BY <1>4, <2>1, <2>2 DEF k
<1> QED  BY <1>3, <1>4

-------------------------------------------------------------------------------
\* The only slot of a child an operand is constant true over.
Unit(e) == IF e \in Leaf THEN 3 ELSE 1

\* What the sweep says of a constant operand, cell by cell.
LEMMA UnitIs ==
  ASSUME NEW f, Sound(f), NEW g, Sound(g), NEW t \in Internal, NEW e \in Children(t)
  PROVE  LET swept == Sweep(f, g, {})
         IN  /\ swept[e].gIs =>
                  /\ \A b \in DOMAIN g.levels[t] : \A z, y : Cell(g.levels[t], Side(e), b, z, y) => z = Unit(e)
                  /\ \A y \in Slots(f.levels, e) : swept[e].at[<<y, Unit(e)>>] = y
             /\ swept[e].fIs =>
                  /\ \A a \in DOMAIN f.levels[t] : \A y, z : Cell(f.levels[t], Side(e), a, y, z) => y = Unit(e)
                  /\ \A z \in Slots(g.levels, e) : swept[e].at[<<Unit(e), z>>] = z
<1> DEFINE swept == Sweep(f, g, {})
<1>1. InRange(f.levels) /\ InRange(g.levels) /\ Parent[e] = t /\ e \in Vtree
  BY SoundIs, ParentOf DEF Vtree
<1>2. /\ \A a \in DOMAIN f.levels[t] : \A y, z : Cell(f.levels[t], Side(e), a, y, z) => y \in Slots(f.levels, e) /\ y \in Named(f.levels, e)
      /\ \A b \in DOMAIN g.levels[t] : \A y, z : Cell(g.levels[t], Side(e), b, y, z) => y \in Slots(g.levels, e) /\ y \in Named(g.levels, e)
  <2>1. ASSUME NEW d, InRange(d.levels), NEW a \in DOMAIN d.levels[t], NEW y, NEW z, Cell(d.levels[t], Side(e), a, y, z)
        PROVE  y \in Slots(d.levels, e) /\ y \in Named(d.levels, e)
    <3>1. PICK q \in d.levels[t][a] : q[Side(e)] = y
      BY <2>1 DEF Cell
    <3>2. q[Side(e)] \in Slots(d.levels, e)
      BY <2>1, SidesIs
    <3>3. q \in PairsAt(d.levels, Parent[e])
      BY <1>1 DEF PairsAt, PairsOf
    <3> QED  BY <3>1, <3>2, <3>3 DEF Named
  <2> QED  BY <1>1, <2>1
<1>3. CASE e \in Leaf
  <2>1. swept[e] = SweptLeaf(f, g, e)
    BY <1>3, SweepIs
  <2>2. /\ swept[e].fIs = LeafIdentity(f, e) /\ swept[e].gIs = LeafIdentity(g, e)
        /\ \A i, j \in {1, 2, 3} : swept[e].at[<<i, j>>] = LeafProduct(i, j)
    <3> DEFINE p == LeafIdentity(f, e)
               q == LeafIdentity(g, e)
               at == [ij \in {1, 2, 3} \X {1, 2, 3} |-> LeafProduct(ij[1], ij[2])]
               none == <<>>
    <3>1. swept[e] = [fIs |-> p, gIs |-> q, carrier |-> 0, level |-> none, at |-> at]
      BY <2>1 DEF SweptLeaf, Pos, Neg, One
    <3>2. \A i, j \in {1, 2, 3} : at[<<i, j>>] = LeafProduct(i, j)
      OBVIOUS
    <3> HIDE DEF p, q, at, none
    <3> QED  BY <3>1, <3>2 DEF p, q
  <2> HIDE DEF swept
  <2>3. Slots(f.levels, e) = {1, 2, 3} /\ Slots(g.levels, e) = {1, 2, 3}
    BY <1>3, LeafSlots
  <2>4. \A i \in {1, 2, 3} : LeafProduct(i, 3) = i /\ LeafProduct(3, i) = i
    BY DEF LeafProduct, One
  <2>5. LeafIdentity(g, e) => Named(g.levels, e) \cap {1, 2} = {}
    BY DEF LeafIdentity, Pos, Neg
  <2>6. LeafIdentity(f, e) => Named(f.levels, e) \cap {1, 2} = {}
    BY DEF LeafIdentity, Pos, Neg
  <2>7. Unit(e) = 3
    BY <1>3 DEF Unit
  <2> QED  BY <1>2, <2>2, <2>3, <2>4, <2>5, <2>6, <2>7 DEF swept
<1>4. CASE e \notin Leaf
  <2>1. e \in Internal /\ Slots(f.levels, e) = DOMAIN f.levels[e] /\ Slots(g.levels, e) = DOMAIN g.levels[e]
    BY <1>1, <1>4 DEF Vtree, Slots
  <2>2. MadeAs(f, g, swept, e)
    BY <2>1, MadeIs
  <2>3. Unit(e) = 1
    BY <1>4 DEF Unit
  <2>4. /\ DOMAIN f.levels[e] = 1 .. Len(f.levels[e]) /\ DOMAIN g.levels[e] = 1 .. Len(g.levels[e])
    BY <1>1, <2>1, LevelIs
  <2>5. /\ Len(f.levels[e]) = 1 => DOMAIN f.levels[e] = {1}
        /\ Len(g.levels[e]) = 1 => DOMAIN g.levels[e] = {1}
    <3>1. \A n : n = 1 => 1 .. n = {1}
      OBVIOUS
    <3> QED  BY <2>4, <3>1
  <2> HIDE DEF swept
  <2>6. CASE CarriedFirst(f, g, swept, e)
    <3>1. Len(g.levels[e]) = 1 /\ (swept[e].fIs => Len(f.levels[e]) = 1)
          /\ \A i \in DOMAIN f.levels[e], j \in DOMAIN g.levels[e] : swept[e].at[<<i, j>>] = i
      BY <2>6 DEF CarriedFirst, IdentityLevel
    <3> QED  BY <1>2, <2>1, <2>3, <2>5, <3>1 DEF swept
  <2>7. CASE CarriedSecond(f, g, swept, e)
    <3>1. Len(f.levels[e]) = 1 /\ ~swept[e].gIs
          /\ \A i \in DOMAIN f.levels[e], j \in DOMAIN g.levels[e] : swept[e].at[<<i, j>>] = j
      BY <2>7 DEF CarriedSecond, IdentityLevel
    <3> QED  BY <1>2, <2>1, <2>3, <2>5, <3>1 DEF swept
  <2>8. CASE BuiltAs(f, g, swept, e)
    <3>1. ~swept[e].fIs /\ ~swept[e].gIs
      BY <2>8 DEF BuiltAs
    <3> QED  BY <3>1 DEF swept
  <2> QED  BY <2>2, <2>6, <2>7, <2>8 DEF MadeAs
<1> QED  BY <1>3, <1>4

\* A cell of a product beside a child one operand is constant true over.
BothCells(F, G, T, s, e, a, b, u, x) ==
  \E i, j \in Nat : <<i, j, u>> \in T /\ Cell(F, s, a, i, x) /\ Cell(G, s, b, j, e)

\* Which products a level holds, and of which slots.
Spread(F, G, W, T, s, e) ==
  /\ \A k \in DOMAIN W : \E a \in DOMAIN F, b \in DOMAIN G : \A u, x : Cell(W, s, k, u, x) <=> BothCells(F, G, T, s, e, a, b, u, x)
  /\ \A a \in DOMAIN F, b \in DOMAIN G :
       \/ \E k \in DOMAIN W : \A u, x : Cell(W, s, k, u, x) <=> BothCells(F, G, T, s, e, a, b, u, x)
       \/ \A u, x : ~BothCells(F, G, T, s, e, a, b, u, x)
  /\ \A b \in DOMAIN G : \A j, y : Cell(G, s, b, j, y) => y = e
  /\ \A i, j, a, b, u : <<i, j, u>> \in T /\ <<a, b, u>> \in T => i = a /\ j = b
  /\ \A i, j, u, v : <<i, j, u>> \in T /\ <<i, j, v>> \in T => u = v

\* Contexts of products are products of contexts, and differ where they do.
LEMMA SpreadFree ==
  ASSUME NEW F, OfNumbers(F), NEW G, OfNumbers(G), NEW W, OfNumbers(W), NEW T, NEW s \in {1, 2}, NEW e \in Nat,
         Spread(F, G, W, T, s, e), Free(F, s), Free(G, s)
  PROVE  Free(W, s)
<1>1. SUFFICES ASSUME NEW u \in Nat, NEW v \in Nat, Names(W, s, u), Same(W, s, u, v) PROVE u = v
  BY DEF Free
<1>2. PICK k \in DOMAIN W : \E x \in Nat : Cell(W, s, k, u, x)
  BY <1>1 DEF Names
<1>3. PICK x0 \in Nat : Cell(W, s, k, u, x0)
  BY <1>2
<1>4. Cell(W, s, k, v, x0)
  BY <1>1, <1>3 DEF Same
<1>5. PICK a0 \in DOMAIN F, b0 \in DOMAIN G : \A w, x : Cell(W, s, k, w, x) <=> BothCells(F, G, T, s, e, a0, b0, w, x)
  BY DEF Spread
<1>6. BothCells(F, G, T, s, e, a0, b0, u, x0) /\ BothCells(F, G, T, s, e, a0, b0, v, x0)
  BY <1>3, <1>4, <1>5
<1>7. PICK i \in Nat, j \in Nat : <<i, j, u>> \in T /\ Cell(F, s, a0, i, x0) /\ Cell(G, s, b0, j, e)
  BY <1>6 DEF BothCells
<1>8. PICK p \in Nat, q \in Nat : <<p, q, v>> \in T /\ Cell(F, s, a0, p, x0) /\ Cell(G, s, b0, q, e)
  BY <1>6 DEF BothCells
<1>9. ASSUME NEW a \in DOMAIN F, NEW b \in DOMAIN G, NEW x \in Nat
      PROVE  Cell(F, s, a, i, x) /\ Cell(G, s, b, j, e) <=> Cell(F, s, a, p, x) /\ Cell(G, s, b, q, e)
  <2>1. BothCells(F, G, T, s, e, a, b, u, x) <=> Cell(F, s, a, i, x) /\ Cell(G, s, b, j, e)
    BY <1>7 DEF BothCells, Spread
  <2>2. BothCells(F, G, T, s, e, a, b, v, x) <=> Cell(F, s, a, p, x) /\ Cell(G, s, b, q, e)
    BY <1>8 DEF BothCells, Spread
  <2>3. BothCells(F, G, T, s, e, a, b, u, x) <=> BothCells(F, G, T, s, e, a, b, v, x)
    <3>1. CASE \A w, y : ~BothCells(F, G, T, s, e, a, b, w, y)
      BY <3>1
    <3>2. ASSUME NEW m \in DOMAIN W, \A w, y : Cell(W, s, m, w, y) <=> BothCells(F, G, T, s, e, a, b, w, y)
          PROVE  BothCells(F, G, T, s, e, a, b, u, x) <=> BothCells(F, G, T, s, e, a, b, v, x)
      <4>1. Cell(W, s, m, u, x) <=> Cell(W, s, m, v, x)
        BY <1>1 DEF Same
      <4> QED  BY <3>2, <4>1
    <3> QED  BY <3>1, <3>2 DEF Spread
  <2> QED  BY <2>1, <2>2, <2>3
<1>10. Same(F, s, i, p)
  BY <1>7, <1>8, <1>9 DEF Same
<1>11. Same(G, s, j, q)
  <2>1. ASSUME NEW b \in DOMAIN G, NEW y \in Nat PROVE Cell(G, s, b, j, y) <=> Cell(G, s, b, q, y)
    <3>1. Cell(G, s, b, j, e) <=> Cell(G, s, b, q, e)
      BY <1>7, <1>8, <1>9
    <3>2. (Cell(G, s, b, j, y) => y = e) /\ (Cell(G, s, b, q, y) => y = e)
      BY DEF Spread
    <3> QED  BY <3>1, <3>2
  <2> QED  BY <2>1 DEF Same
<1>12. Names(F, s, i) /\ Names(G, s, j)
  BY <1>7 DEF Names
<1>13. i = p /\ j = q
  BY <1>10, <1>11, <1>12 DEF Free
<1> QED  BY <1>7, <1>8, <1>13 DEF Spread

-------------------------------------------------------------------------------
\* The products of a child's slots that are not false, from either operand.
Ways(f, g, swept, c) ==
  {<<w[1], w[2], swept[c].at[<<w[1], w[2]>>]>> : w \in {v \in Slots(f.levels, c) \X Slots(g.levels, c) : swept[c].at[<<v[1], v[2]>>] # 0}}
WaysTurned(f, g, swept, c) ==
  {<<w[2], w[1], swept[c].at[<<w[1], w[2]>>]>> : w \in {v \in Slots(f.levels, c) \X Slots(g.levels, c) : swept[c].at[<<v[1], v[2]>>] # 0}}

\* Membership in the ways to a slot.
LEMMA WaysAre ==
  ASSUME NEW f, NEW g, NEW swept, NEW c, NEW i, NEW j, NEW u
  PROVE  /\ <<i, j, u>> \in Ways(f, g, swept, c)
              <=> i \in Slots(f.levels, c) /\ j \in Slots(g.levels, c) /\ u = swept[c].at[<<i, j>>] /\ u # 0
         /\ <<j, i, u>> \in WaysTurned(f, g, swept, c)
              <=> i \in Slots(f.levels, c) /\ j \in Slots(g.levels, c) /\ u = swept[c].at[<<i, j>>] /\ u # 0
<1> DEFINE at == swept[c].at
           S == {v \in Slots(f.levels, c) \X Slots(g.levels, c) : at[<<v[1], v[2]>>] # 0}
<1>1. \A w : w \in S <=> \E a \in Slots(f.levels, c), b \in Slots(g.levels, c) : w = <<a, b>> /\ at[<<a, b>>] # 0
  <2> DEFINE A == Slots(f.levels, c)
             B == Slots(g.levels, c)
  <2>1. \A w : w \in A \X B <=> \E a \in A, b \in B : w = <<a, b>>
    OBVIOUS
  <2>2. \A w : w \in S <=> w \in A \X B /\ at[<<w[1], w[2]>>] # 0
    OBVIOUS
  <2> HIDE DEF A, B, at, S
  <2>3. \A a, b, w : w = <<a, b>> => w[1] = a /\ w[2] = b
    OBVIOUS
  <2>4. ASSUME NEW w, w \in S PROVE \E a \in A, b \in B : w = <<a, b>> /\ at[<<a, b>>] # 0
    <3>1. PICK a \in A, b \in B : w = <<a, b>>
      BY <2>1, <2>2, <2>4
    <3> QED  BY <2>2, <2>3, <2>4, <3>1
  <2>5. ASSUME NEW w, NEW a \in A, NEW b \in B, w = <<a, b>>, at[<<a, b>>] # 0 PROVE w \in S
    BY <2>1, <2>2, <2>3, <2>5
  <2> QED  BY <2>4, <2>5 DEF A, B
<1>2. <<i, j, u>> \in Ways(f, g, swept, c) <=> \E w \in S : <<i, j, u>> = <<w[1], w[2], at[<<w[1], w[2]>>]>>
  BY DEF Ways
<1>3. <<j, i, u>> \in WaysTurned(f, g, swept, c) <=> \E w \in S : <<j, i, u>> = <<w[2], w[1], at[<<w[1], w[2]>>]>>
  BY DEF WaysTurned
<1> HIDE DEF S, at
<1>4. \A w : <<i, j, u>> = <<w[1], w[2], at[<<w[1], w[2]>>]>> <=> i = w[1] /\ j = w[2] /\ u = at[<<w[1], w[2]>>]
  OBVIOUS
<1>5. \A w : <<j, i, u>> = <<w[2], w[1], at[<<w[1], w[2]>>]>> <=> i = w[1] /\ j = w[2] /\ u = at[<<w[1], w[2]>>]
  OBVIOUS
<1>6. (\E w \in S : i = w[1] /\ j = w[2] /\ u = at[<<w[1], w[2]>>])
        <=> i \in Slots(f.levels, c) /\ j \in Slots(g.levels, c) /\ u = at[<<i, j>>] /\ u # 0
  <2>1. ASSUME NEW w \in S, i = w[1], j = w[2], u = at[<<w[1], w[2]>>]
        PROVE  i \in Slots(f.levels, c) /\ j \in Slots(g.levels, c) /\ u = at[<<i, j>>] /\ u # 0
    <3>1. PICK a \in Slots(f.levels, c), b \in Slots(g.levels, c) : w = <<a, b>> /\ at[<<a, b>>] # 0
      BY <1>1
    <3>2. w[1] = a /\ w[2] = b
      BY <3>1
    <3> QED  BY <2>1, <3>1, <3>2
  <2>2. ASSUME i \in Slots(f.levels, c), j \in Slots(g.levels, c), u = at[<<i, j>>], u # 0
        PROVE  \E w \in S : i = w[1] /\ j = w[2] /\ u = at[<<w[1], w[2]>>]
    <3>1. <<i, j>> \in S
      BY <1>1, <2>2
    <3>2. <<i, j>>[1] = i /\ <<i, j>>[2] = j
      OBVIOUS
    <3> QED  BY <2>2, <3>1, <3>2
  <2> QED  BY <2>1, <2>2
<1> QED  BY <1>2, <1>3, <1>4, <1>5, <1>6 DEF at

\* Beside a child an operand is constant true over, cells meet as the other's.
LEMMA BothCellsAre ==
  ASSUME NEW f, Sound(f), NEW g, Sound(g), NEW t \in Internal, NEW c \in Children(t),
         NEW a \in DOMAIN f.levels[t], NEW b \in DOMAIN g.levels[t], NEW u, NEW x
  PROVE  LET swept == Sweep(f, g, {})
             o == Sibling(c)
             s == Side(c)
         IN  /\ swept[o].gIs => (MetCell(f, g, swept, t, c, a, b, u, x)
                                   <=> BothCells(f.levels[t], g.levels[t], Ways(f, g, swept, c), s, Unit(o), a, b, u, x))
             /\ swept[o].fIs => (MetCell(f, g, swept, t, c, a, b, u, x)
                                   <=> BothCells(g.levels[t], f.levels[t], WaysTurned(f, g, swept, c), s, Unit(o), b, a, u, x))
<1> DEFINE swept == Sweep(f, g, {})
           o == Sibling(c)
           s == Side(c)
           F == f.levels[t]
           G == g.levels[t]
           e == Unit(o)
<1>1. o \in Children(t) /\ Side(o) = 3 - s /\ s \in {1, 2}
  BY SiblingOf DEF Children
<1>2. InRange(f.levels) /\ InRange(g.levels) /\ OfNumbers(F) /\ OfNumbers(G)
  BY SoundIs, ContextCells
<1>3. /\ \A i, y : Cell(F, s, a, i, y) <=> Cell(F, Side(o), a, y, i)
      /\ \A j, z : Cell(G, s, b, j, z) <=> Cell(G, Side(o), b, z, j)
  <2> HIDE DEF s, o, F, G
  <2> QED  BY <1>1, <1>2, CellTurned DEF F, G
<1>4. /\ \A i, y : Cell(F, s, a, i, y) => i \in Slots(f.levels, c) /\ y \in Slots(f.levels, o) /\ i \in Nat /\ y \in Nat /\ y # 0
      /\ \A j, z : Cell(G, s, b, j, z) => j \in Slots(g.levels, c) /\ z \in Slots(g.levels, o) /\ j \in Nat /\ z \in Nat /\ z # 0
  <2>1. ASSUME NEW d, InRange(d.levels), NEW k \in DOMAIN d.levels[t], NEW i, NEW y, Cell(d.levels[t], s, k, i, y)
        PROVE  i \in Slots(d.levels, c) /\ y \in Slots(d.levels, o) /\ i \in Nat /\ y \in Nat /\ y # 0
    <3>1. PICK q \in d.levels[t][k] : q[s] = i /\ q[3 - s] = y
      BY <2>1 DEF Cell
    <3>2. q[Side(c)] \in Slots(d.levels, c) /\ q[Side(Sibling(c))] \in Slots(d.levels, Sibling(c))
      BY <2>1, SidesIs
    <3>3. i \in Slots(d.levels, c) /\ y \in Slots(d.levels, o)
      BY <1>1, <3>1, <3>2
    <3>4. o \in Vtree /\ c \in Vtree
      BY <1>1, ParentOf
    <3> HIDE DEF o
    <3>5. \A z \in Slots(d.levels, o) : z \in Nat /\ z # 0
      <4>1. CASE o \in Leaf
        BY <4>1, LeafSlots
      <4>2. CASE o \in Internal
        BY <2>1, <4>2, LevelIs
      <4> QED  BY <3>4, <4>1, <4>2 DEF Vtree
    <3>6. \A z \in Slots(d.levels, c) : z \in Nat
      <4>1. CASE c \in Leaf
        BY <4>1, LeafSlots
      <4>2. CASE c \in Internal
        BY <2>1, <4>2, LevelIs
      <4> QED  BY <3>4, <4>1, <4>2 DEF Vtree
    <3> QED  BY <3>3, <3>5, <3>6
  <2> HIDE DEF s, o
  <2> QED  BY <1>2, <2>1
<1>5. /\ swept[o].gIs => /\ \A z, j : Cell(G, Side(o), b, z, j) => z = e
                         /\ \A y \in Slots(f.levels, o) : swept[o].at[<<y, e>>] = y
      /\ swept[o].fIs => /\ \A y, i : Cell(F, Side(o), a, y, i) => y = e
                         /\ \A z \in Slots(g.levels, o) : swept[o].at[<<e, z>>] = z
  BY <1>1, UnitIs
<1>6. \A i, j : /\ <<i, j, u>> \in Ways(f, g, swept, c)
                     <=> i \in Slots(f.levels, c) /\ j \in Slots(g.levels, c) /\ u = swept[c].at[<<i, j>>] /\ u # 0
                /\ <<j, i, u>> \in WaysTurned(f, g, swept, c)
                     <=> i \in Slots(f.levels, c) /\ j \in Slots(g.levels, c) /\ u = swept[c].at[<<i, j>>] /\ u # 0
  <2> HIDE DEF swept
  <2> QED  BY WaysAre
<1>7. MetCell(f, g, swept, t, c, a, b, u, x) <=>
        \E i, j, y, z \in Nat :
          /\ Cell(F, s, a, i, y) /\ Cell(G, s, b, j, z)
          /\ u = swept[c].at[<<i, j>>] /\ u # 0
          /\ x = swept[o].at[<<y, z>>] /\ x # 0
  BY DEF MetCell
<1> HIDE DEF swept, s, o, F, G, e
<1>8. ASSUME swept[o].gIs
      PROVE  MetCell(f, g, swept, t, c, a, b, u, x) <=> BothCells(F, G, Ways(f, g, swept, c), s, e, a, b, u, x)
  <2>1. ASSUME MetCell(f, g, swept, t, c, a, b, u, x) PROVE BothCells(F, G, Ways(f, g, swept, c), s, e, a, b, u, x)
    <3>1. PICK i, j, y, z \in Nat : /\ Cell(F, s, a, i, y) /\ Cell(G, s, b, j, z)
                                    /\ u = swept[c].at[<<i, j>>] /\ u # 0
                                    /\ x = swept[o].at[<<y, z>>] /\ x # 0
      BY <1>7, <2>1
    <3>2. z = e /\ x = y
      BY <1>3, <1>4, <1>5, <1>8, <3>1
    <3>3. <<i, j, u>> \in Ways(f, g, swept, c)
      BY <1>4, <1>6, <3>1
    <3> QED  BY <3>1, <3>2, <3>3 DEF BothCells
  <2>2. ASSUME BothCells(F, G, Ways(f, g, swept, c), s, e, a, b, u, x) PROVE MetCell(f, g, swept, t, c, a, b, u, x)
    <3>1. PICK i, j \in Nat : <<i, j, u>> \in Ways(f, g, swept, c) /\ Cell(F, s, a, i, x) /\ Cell(G, s, b, j, e)
      BY <2>2 DEF BothCells
    <3>2. x \in Nat /\ e \in Nat /\ x # 0 /\ x = swept[o].at[<<x, e>>]
      BY <1>4, <1>5, <1>8, <3>1
    <3>3. u = swept[c].at[<<i, j>>] /\ u # 0
      BY <1>6, <3>1
    <3> QED  BY <1>7, <3>1, <3>2, <3>3
  <2> QED  BY <2>1, <2>2
<1>9. ASSUME swept[o].fIs
      PROVE  MetCell(f, g, swept, t, c, a, b, u, x) <=> BothCells(G, F, WaysTurned(f, g, swept, c), s, e, b, a, u, x)
  <2>1. ASSUME MetCell(f, g, swept, t, c, a, b, u, x) PROVE BothCells(G, F, WaysTurned(f, g, swept, c), s, e, b, a, u, x)
    <3>1. PICK i, j, y, z \in Nat : /\ Cell(F, s, a, i, y) /\ Cell(G, s, b, j, z)
                                    /\ u = swept[c].at[<<i, j>>] /\ u # 0
                                    /\ x = swept[o].at[<<y, z>>] /\ x # 0
      BY <1>7, <2>1
    <3>2. y = e /\ x = z
      BY <1>3, <1>4, <1>5, <1>9, <3>1
    <3>3. <<j, i, u>> \in WaysTurned(f, g, swept, c)
      BY <1>4, <1>6, <3>1
    <3> QED  BY <3>1, <3>2, <3>3 DEF BothCells
  <2>2. ASSUME BothCells(G, F, WaysTurned(f, g, swept, c), s, e, b, a, u, x) PROVE MetCell(f, g, swept, t, c, a, b, u, x)
    <3>1. PICK j, i \in Nat : <<j, i, u>> \in WaysTurned(f, g, swept, c) /\ Cell(G, s, b, j, x) /\ Cell(F, s, a, i, e)
      BY <2>2 DEF BothCells
    <3>2. x \in Nat /\ e \in Nat /\ x # 0 /\ x = swept[o].at[<<e, x>>]
      BY <1>4, <1>5, <1>9, <3>1
    <3>3. u = swept[c].at[<<i, j>>] /\ u # 0
      BY <1>6, <3>1
    <3> QED  BY <1>7, <3>1, <3>2, <3>3
  <2> QED  BY <2>1, <2>2
<1> QED  BY <1>8, <1>9 DEF swept, s, o, F, G, e

-------------------------------------------------------------------------------
\* Beside a child one operand is constant true over, a level built has no twins
\* its operands' levels do not have.
LEMMA SpreadIs ==
  ASSUME NEW f, Sound(f), NEW g, Sound(g), f.out # Zero, g.out # Zero, NEW t \in Internal, NEW c \in Children(t), c \notin Leaf,
         Sweep(f, g, {})[t].carrier = 0
  PROVE  LET swept == Sweep(f, g, {})
             o == Sibling(c)
             s == Side(c)
         IN  /\ swept[o].gIs => Spread(f.levels[t], g.levels[t], swept[t].level, Ways(f, g, swept, c), s, Unit(o))
             /\ swept[o].fIs => Spread(g.levels[t], f.levels[t], swept[t].level, WaysTurned(f, g, swept, c), s, Unit(o))
<1> DEFINE swept == Sweep(f, g, {})
           o == Sibling(c)
           s == Side(c)
           F == f.levels[t]
           G == g.levels[t]
           W == swept[t].level
           e == Unit(o)
           T == Ways(f, g, swept, c)
           TT == WaysTurned(f, g, swept, c)
<1>1. o \in Children(t) /\ Side(o) = 3 - s /\ s \in {1, 2}
  BY SiblingOf DEF Children
<1>2. OfNumbers(F) /\ OfNumbers(G)
  BY SoundIs, ContextCells
<1>3. c \in Vtree
  BY ParentOf
<1>4. BuiltAs(f, g, swept, t) /\ Onto(f, g, swept, t)
  BY MadeIs DEF MadeAs
<1>5. Grid(f, g, swept, c)
  BY <1>3, GridAll
<1>6. \A i, j, u : /\ <<i, j, u>> \in T
                       <=> i \in Slots(f.levels, c) /\ j \in Slots(g.levels, c) /\ u = swept[c].at[<<i, j>>] /\ u # 0
                   /\ <<j, i, u>> \in TT
                     <=> i \in Slots(f.levels, c) /\ j \in Slots(g.levels, c) /\ u = swept[c].at[<<i, j>>] /\ u # 0
  <2> HIDE DEF swept
  <2> QED  BY WaysAre
<1>7. /\ \A i, j, a, b, u : <<i, j, u>> \in T /\ <<a, b, u>> \in T => i = a /\ j = b
      /\ \A i, j, a, b, u : <<j, i, u>> \in TT /\ <<b, a, u>> \in TT => i = a /\ j = b
      /\ \A i, j, u, v : <<i, j, u>> \in T /\ <<i, j, v>> \in T => u = v
      /\ \A i, j, u, v : <<j, i, u>> \in TT /\ <<j, i, v>> \in TT => u = v
  <2>1. \A i, a \in Slots(f.levels, c), j, b \in Slots(g.levels, c) :
          swept[c].at[<<i, j>>] = swept[c].at[<<a, b>>] /\ swept[c].at[<<i, j>>] # 0 => i = a /\ j = b
    <3> HIDE DEF swept
    <3> QED  BY <1>5 DEF Grid
  <2> DEFINE A == Slots(f.levels, c)
             B == Slots(g.levels, c)
             at == swept[c].at
  <2>2. /\ \A i, a \in A, j, b \in B : at[<<i, j>>] = at[<<a, b>>] /\ at[<<i, j>>] # 0 => i = a /\ j = b
        /\ \A i, j, u : <<i, j, u>> \in T => i \in A /\ j \in B /\ u = at[<<i, j>>] /\ u # 0
        /\ \A i, j, u : <<j, i, u>> \in TT => i \in A /\ j \in B /\ u = at[<<i, j>>] /\ u # 0
    <3>1. \A i, j, u : <<i, j, u>> \in T => i \in A /\ j \in B /\ u = at[<<i, j>>] /\ u # 0
      <4> HIDE DEF T, TT, swept
      <4> QED  BY <1>6
    <3>2. \A i, j, u : <<j, i, u>> \in TT => i \in A /\ j \in B /\ u = at[<<i, j>>] /\ u # 0
      <4> HIDE DEF T, TT, swept
      <4> QED  BY <1>6
    <3> HIDE DEF swept, T, TT, at, A, B
    <3> QED  BY <2>1, <3>1, <3>2 DEF at, A, B
  <2> HIDE DEF swept, T, TT, A, B, at
  <2>3. ASSUME NEW i, NEW j, NEW a, NEW b, NEW u, <<i, j, u>> \in T, <<a, b, u>> \in T PROVE i = a /\ j = b
    <3>1. i \in A /\ j \in B /\ a \in A /\ b \in B /\ at[<<i, j>>] = u /\ at[<<a, b>>] = u /\ u # 0
      BY <2>2, <2>3
    <3> QED  BY <2>2, <3>1
  <2>4. ASSUME NEW i, NEW j, NEW a, NEW b, NEW u, <<j, i, u>> \in TT, <<b, a, u>> \in TT PROVE i = a /\ j = b
    <3>1. i \in A /\ j \in B /\ a \in A /\ b \in B /\ at[<<i, j>>] = u /\ at[<<a, b>>] = u /\ u # 0
      BY <2>2, <2>4
    <3> QED  BY <2>2, <3>1
  <2>5. ASSUME NEW i, NEW j, NEW u, NEW v, <<i, j, u>> \in T, <<i, j, v>> \in T PROVE u = v
    <3>1. u = at[<<i, j>>] /\ v = at[<<i, j>>]
      BY <2>2, <2>5
    <3> QED  BY <3>1
  <2>6. ASSUME NEW i, NEW j, NEW u, NEW v, <<j, i, u>> \in TT, <<j, i, v>> \in TT PROVE u = v
    <3>1. u = at[<<i, j>>] /\ v = at[<<i, j>>]
      BY <2>2, <2>6
    <3> QED  BY <3>1
  <2> QED  BY <2>3, <2>4, <2>5, <2>6
<1>8. ASSUME NEW a \in DOMAIN F, NEW b \in DOMAIN G, NEW u, NEW x
      PROVE  /\ swept[o].gIs => (MetCell(f, g, swept, t, c, a, b, u, x) <=> BothCells(F, G, T, s, e, a, b, u, x))
             /\ swept[o].fIs => (MetCell(f, g, swept, t, c, a, b, u, x) <=> BothCells(G, F, TT, s, e, b, a, u, x))
  BY BothCellsAre
<1>9. ASSUME NEW a \in DOMAIN F, NEW b \in DOMAIN G
      PROVE  LET k == swept[t].at[<<a, b>>]
             IN  IF k = 0 THEN \A u, x : ~MetCell(f, g, swept, t, c, a, b, u, x)
                 ELSE k \in DOMAIN W /\ \A u, x : Cell(W, s, k, u, x) <=> MetCell(f, g, swept, t, c, a, b, u, x)
  <2> HIDE DEF swept
  <2> QED  BY <1>4, BuiltCells
<1>10. /\ swept[o].gIs => \A b \in DOMAIN G : \A j, y : Cell(G, s, b, j, y) => y = e
       /\ swept[o].fIs => \A a \in DOMAIN F : \A i, y : Cell(F, s, a, i, y) => y = e
  <2>1. /\ \A a \in DOMAIN F : \A i, y : Cell(F, s, a, i, y) => Cell(F, Side(o), a, y, i)
        /\ \A b \in DOMAIN G : \A j, y : Cell(G, s, b, j, y) => Cell(G, Side(o), b, y, j)
    <3> HIDE DEF s, o, F, G
    <3> QED  BY <1>1, <1>2, CellTurned
  <2>2. /\ swept[o].gIs => \A b \in DOMAIN G : \A z, j : Cell(G, Side(o), b, z, j) => z = e
        /\ swept[o].fIs => \A a \in DOMAIN F : \A y, i : Cell(F, Side(o), a, y, i) => y = e
    BY <1>1, UnitIs
  <2> HIDE DEF swept, o, s, F, G, e
  <2> QED  BY <2>1, <2>2
<1>11. \A k \in DOMAIN W : \E a \in DOMAIN F, b \in DOMAIN G : swept[t].at[<<a, b>>] = k
  BY <1>4 DEF Onto
<1>12. \A k \in DOMAIN W : k # 0
  <2>1. InRange(SweptLevels(swept)) /\ SweptLevels(swept)[t] = W
    <3>1. InRange(SweptLevels(swept))
      BY SweepSound
    <3>2. SweptLevels(swept)[t] = W
      BY DEF SweptLevels
    <3> QED  BY <3>1, <3>2
  <2>2. DOMAIN W = 1 .. Len(W) /\ Len(W) \in Nat
    <3> HIDE DEF swept, W
    <3> QED  BY <2>1, LevelIs
  <2> QED  BY <2>2
<1> HIDE DEF swept, o, s, F, G, W, e, T, TT
<1>13. ASSUME NEW k \in DOMAIN W
       PROVE  \E a \in DOMAIN F, b \in DOMAIN G : \A u, x : Cell(W, s, k, u, x) <=> MetCell(f, g, swept, t, c, a, b, u, x)
  <2>1. PICK a \in DOMAIN F, b \in DOMAIN G : swept[t].at[<<a, b>>] = k
    BY <1>11
  <2>2. \A u, x : Cell(W, s, k, u, x) <=> MetCell(f, g, swept, t, c, a, b, u, x)
    BY <1>9, <1>12, <2>1
  <2> QED  BY <2>2
<1>14. ASSUME NEW a \in DOMAIN F, NEW b \in DOMAIN G
       PROVE  \/ \E k \in DOMAIN W : \A u, x : Cell(W, s, k, u, x) <=> MetCell(f, g, swept, t, c, a, b, u, x)
              \/ \A u, x : ~MetCell(f, g, swept, t, c, a, b, u, x)
  BY <1>9
<1>15. ASSUME swept[o].gIs PROVE Spread(F, G, W, T, s, e)
  <2>1. ASSUME NEW k \in DOMAIN W
        PROVE  \E a \in DOMAIN F, b \in DOMAIN G : \A u, x : Cell(W, s, k, u, x) <=> BothCells(F, G, T, s, e, a, b, u, x)
    <3>1. PICK a \in DOMAIN F, b \in DOMAIN G : \A u, x : Cell(W, s, k, u, x) <=> MetCell(f, g, swept, t, c, a, b, u, x)
      BY <1>13
    <3>2. \A u, x : Cell(W, s, k, u, x) <=> BothCells(F, G, T, s, e, a, b, u, x)
      BY <1>8, <1>15, <3>1
    <3> QED  BY <3>2
  <2>2. ASSUME NEW a \in DOMAIN F, NEW b \in DOMAIN G
        PROVE  \/ \E k \in DOMAIN W : \A u, x : Cell(W, s, k, u, x) <=> BothCells(F, G, T, s, e, a, b, u, x)
               \/ \A u, x : ~BothCells(F, G, T, s, e, a, b, u, x)
    <3>1. CASE \A u, x : ~MetCell(f, g, swept, t, c, a, b, u, x)
      BY <1>8, <1>15, <3>1
    <3>2. ASSUME NEW k \in DOMAIN W, \A u, x : Cell(W, s, k, u, x) <=> MetCell(f, g, swept, t, c, a, b, u, x)
          PROVE  \E m \in DOMAIN W : \A u, x : Cell(W, s, m, u, x) <=> BothCells(F, G, T, s, e, a, b, u, x)
      <4>1. \A u, x : Cell(W, s, k, u, x) <=> BothCells(F, G, T, s, e, a, b, u, x)
        BY <1>8, <1>15, <3>2
      <4> QED  BY <4>1
    <3> QED  BY <1>14, <3>1, <3>2
  <2> QED  BY <1>7, <1>10, <1>15, <2>1, <2>2 DEF Spread
<1>16. ASSUME swept[o].fIs PROVE Spread(G, F, W, TT, s, e)
  <2>1. ASSUME NEW k \in DOMAIN W
        PROVE  \E b \in DOMAIN G, a \in DOMAIN F : \A u, x : Cell(W, s, k, u, x) <=> BothCells(G, F, TT, s, e, b, a, u, x)
    <3>1. PICK a \in DOMAIN F, b \in DOMAIN G : \A u, x : Cell(W, s, k, u, x) <=> MetCell(f, g, swept, t, c, a, b, u, x)
      BY <1>13
    <3>2. \A u, x : Cell(W, s, k, u, x) <=> BothCells(G, F, TT, s, e, b, a, u, x)
      BY <1>8, <1>16, <3>1
    <3> QED  BY <3>2
  <2>2. ASSUME NEW b \in DOMAIN G, NEW a \in DOMAIN F
        PROVE  \/ \E k \in DOMAIN W : \A u, x : Cell(W, s, k, u, x) <=> BothCells(G, F, TT, s, e, b, a, u, x)
               \/ \A u, x : ~BothCells(G, F, TT, s, e, b, a, u, x)
    <3>1. CASE \A u, x : ~MetCell(f, g, swept, t, c, a, b, u, x)
      BY <1>8, <1>16, <3>1
    <3>2. ASSUME NEW k \in DOMAIN W, \A u, x : Cell(W, s, k, u, x) <=> MetCell(f, g, swept, t, c, a, b, u, x)
          PROVE  \E m \in DOMAIN W : \A u, x : Cell(W, s, m, u, x) <=> BothCells(G, F, TT, s, e, b, a, u, x)
      <4>1. \A u, x : Cell(W, s, k, u, x) <=> BothCells(G, F, TT, s, e, b, a, u, x)
        BY <1>8, <1>16, <3>2
      <4> QED  BY <4>1
    <3> QED  BY <1>14, <3>1, <3>2
  <2> QED  BY <1>7, <1>10, <1>16, <2>1, <2>2 DEF Spread
<1> QED  BY <1>15, <1>16 DEF swept, o, s, F, G, W, e, T, TT

\* adds_no_twins: so the product of two levels without twins has none.
LEMMA AddsNoTwinsKeeps ==
  ASSUME NEW f, Sound(f), NEW g, Sound(g), f.out # Zero, g.out # Zero, NEW t \in Internal, Sweep(f, g, {})[t].carrier = 0,
         AddsNoTwins(Sweep(f, g, {}), t), FreeAt(f.levels[t], t), FreeAt(g.levels[t], t)
  PROVE  FreeAt(Sweep(f, g, {})[t].level, t)
<1> DEFINE swept == Sweep(f, g, {})
           W == swept[t].level
<1>1. InRange(SweptLevels(swept)) /\ SweptLevels(swept)[t] = W
  <2>1. InRange(SweptLevels(swept))
    BY SweepSound
  <2>2. SweptLevels(swept)[t] = W
    BY DEF SweptLevels
  <2> QED  BY <2>1, <2>2
<1>2. ASSUME NEW c \in Children(t), c \notin Leaf PROVE Free(W, Side(c))
  <2> DEFINE s == Side(c)
             o == Sibling(c)
  <2>1. swept[o].gIs \/ swept[o].fIs
    BY <1>2 DEF AddsNoTwins
  <2>2. /\ swept[o].gIs => Spread(f.levels[t], g.levels[t], W, Ways(f, g, swept, c), s, Unit(o))
        /\ swept[o].fIs => Spread(g.levels[t], f.levels[t], W, WaysTurned(f, g, swept, c), s, Unit(o))
    BY <1>2, SpreadIs
  <2>3. Free(f.levels[t], s) /\ Free(g.levels[t], s)
    BY <1>2 DEF FreeAt
  <2> HIDE DEF swept, W
  <2>4. OfNumbers(f.levels[t]) /\ OfNumbers(g.levels[t]) /\ OfNumbers(W) /\ s \in {1, 2}
    BY <1>1, SoundIs, ContextCells
  <2>5. Unit(o) \in Nat
    BY DEF Unit
  <2> DEFINE e == Unit(o)
             T == Ways(f, g, swept, c)
             TT == WaysTurned(f, g, swept, c)
             F == f.levels[t]
             G == g.levels[t]
  <2> HIDE DEF s, o, e, T, TT, F, G
  <2>6. CASE swept[o].gIs
    <3>1. Spread(F, G, W, T, s, e)
      BY <2>2, <2>6 DEF F, G, T, e
    <3> QED  BY <2>3, <2>4, <2>5, <3>1, SpreadFree DEF F, G, e, s
  <2>7. CASE swept[o].fIs
    <3>1. Spread(G, F, W, TT, s, e)
      BY <2>2, <2>7 DEF F, G, TT, e
    <3> QED  BY <2>3, <2>4, <2>5, <3>1, SpreadFree DEF F, G, e, s
  <2> QED  BY <2>1, <2>6, <2>7
<1> QED  BY <1>2 DEF FreeAt

-------------------------------------------------------------------------------
\* What levels are noted as, among those they may be.
Noting(f, g, swept, as) == \A t \in Internal : as[t] \in {0, MayBeAs(f, g, swept, t)}

\* The record a conjunction returns.
Produced(f, g, swept, made, as, loose) ==
  /\ Noting(f, g, swept, as)
  /\ made = Diagram(SweptLevels(swept), swept[Root].at[<<f.out, g.out>>],
                    g.contract \cup f.contract \cup OwedTwins(swept, as), g.leaves \cup f.leaves \cup Built(swept), loose, FALSE)
  /\ loose \in IF f.loose # Unknown /\ g.loose # Unknown THEN LooseLevels(f, g, swept, as) ELSE {Unknown}

\* Every conjunction the sweep ends with is so.
LEMMA ProductsAre ==
  ASSUME NEW f, NEW g, NEW swept, NEW made, made \in Products(f, g, swept)
  PROVE  \E as, loose : Produced(f, g, swept, made, as, loose)
<1> DEFINE levels == SweptLevels(swept)
           out    == swept[Root].at[<<f.out, g.out>>]
           cs     == g.contract \cup f.contract
           vs     == g.leaves \cup f.leaves
           known  == f.loose # Unknown /\ g.loose # Unknown
           no     == FALSE
           may    == Table([t \in Internal |-> MayBeAs(f, g, swept, t)])
           of(as) == {Diagram(levels, out, cs \cup OwedTwins(swept, as), vs \cup Built(swept), loose, no) :
                        loose \in IF known THEN LooseLevels(f, g, swept, as) ELSE {Unknown}}
           notes == {[t \in Internal |-> IF t \in noted THEN may[t] ELSE 0] :
                        noted \in SUBSET {t \in Internal : may[t] # 0}}
<1>1. Products(f, g, swept) = UNION {of(as) : as \in notes}
  BY DEF Products, OwedByOperands, SweptLevels
<1>2. may = [t \in Internal |-> MayBeAs(f, g, swept, t)]
  BY TableIs
<1>3. ASSUME NEW as \in notes PROVE Noting(f, g, swept, as)
  <2>1. PICK noted : as = [t \in Internal |-> IF t \in noted THEN may[t] ELSE 0]
    OBVIOUS
  <2> HIDE DEF may
  <2> QED  BY <1>2, <2>1 DEF Noting
<1>4. PICK as \in notes : made \in of(as)
  <2> HIDE DEF of, notes
  <2> QED  BY <1>1
<1>5. Noting(f, g, swept, as)
  BY <1>3
<1> HIDE DEF notes, may, levels, out, cs, vs, no, known
<1>6. PICK loose : /\ made = Diagram(levels, out, cs \cup OwedTwins(swept, as), vs \cup Built(swept), loose, no)
                   /\ loose \in IF known THEN LooseLevels(f, g, swept, as) ELSE {Unknown}
  BY <1>4
<1>7. Produced(f, g, swept, made, as, loose)
  BY <1>5, <1>6 DEF Produced, levels, out, cs, vs, no, known
<1> QED  BY <1>7

\* A level that is an operand's.
LEMMA CarriedLevel ==
  ASSUME NEW f, Sound(f), NEW g, Sound(g), NEW t \in Internal
  PROVE  LET swept == Sweep(f, g, {})
         IN  /\ swept[t].carrier \in {0, 1, 2}
             /\ swept[t].carrier = 1 => swept[t].level = f.levels[t]
             /\ swept[t].carrier = 2 => swept[t].level = g.levels[t]
             /\ MayBeAs(f, g, swept, t) \in {0, 1, 2}
             /\ MayBeAs(f, g, swept, t) = 1 => swept[t].level = f.levels[t]
             /\ MayBeAs(f, g, swept, t) = 2 => swept[t].level = g.levels[t]
<1> DEFINE swept == Sweep(f, g, {})
<1>1. MadeAs(f, g, swept, t)
  BY MadeIs
<1> HIDE DEF swept
<1>2. /\ swept[t].carrier \in {0, 1, 2}
      /\ swept[t].carrier = 1 => swept[t].level = f.levels[t]
      /\ swept[t].carrier = 2 => swept[t].level = g.levels[t]
  BY <1>1 DEF MadeAs, CarriedFirst, CarriedSecond
<1>3. /\ MayBeAs(f, g, swept, t) \in {0, 1, 2}
      /\ MayBeAs(f, g, swept, t) = 1 => swept[t].level = f.levels[t]
      /\ MayBeAs(f, g, swept, t) = 2 => swept[t].level = g.levels[t]
  BY DEF MayBeAs
<1> QED  BY <1>2, <1>3 DEF swept

\* What a conjunction leaves off its lists is as its operands left it.
LEMMA ProductsOff ==
  ASSUME NEW f, Sound(f), NEW g, Sound(g), f.out # Zero, g.out # Zero,
         FreeOff(f, f.contract), FreeOff(g, g.contract), FoldedOff(f, f.leaves), FoldedOff(g, g.leaves),
         NEW made, made \in Products(f, g, Sweep(f, g, {}))
  PROVE  FreeOff(made, made.contract) /\ FoldedOff(made, made.leaves) /\ ~made.certified
<1> DEFINE swept == Sweep(f, g, {})
           levels == SweptLevels(swept)
<1>1. PICK as, loose : Produced(f, g, swept, made, as, loose)
  BY ProductsAre
<1>2. \A t \in Internal : levels[t] = swept[t].level
  BY DEF SweptLevels
<1>3. ASSUME NEW t \in Internal
      PROVE  /\ swept[t].carrier \in {0, 1, 2}
             /\ swept[t].carrier = 1 => swept[t].level = f.levels[t]
             /\ swept[t].carrier = 2 => swept[t].level = g.levels[t]
             /\ MayBeAs(f, g, swept, t) \in {0, 1, 2}
             /\ MayBeAs(f, g, swept, t) = 1 => swept[t].level = f.levels[t]
             /\ MayBeAs(f, g, swept, t) = 2 => swept[t].level = g.levels[t]
  BY CarriedLevel
<1>4. ASSUME NEW t \in Internal, swept[t].carrier = 0, AddsNoTwins(swept, t), FreeAt(f.levels[t], t), FreeAt(g.levels[t], t)
      PROVE  FreeAt(swept[t].level, t)
  BY <1>4, AddsNoTwinsKeeps
<1> DEFINE a == g.contract \cup f.contract \cup OwedTwins(swept, as)
           b == g.leaves \cup f.leaves \cup Built(swept)
           out == swept[Root].at[<<f.out, g.out>>]
           no == FALSE
<1>5. ~no /\ OwedTwins(swept, as) \subseteq a /\ Built(swept) \subseteq b
  OBVIOUS
<1>6. /\ \A t : t \notin a => t \notin f.contract /\ t \notin g.contract
      /\ \A t : t \notin b => t \notin f.leaves /\ t \notin g.leaves
  OBVIOUS
<1> HIDE DEF swept, levels, a, b, out, no
<1>7. made.levels = levels /\ made.contract = a /\ made.leaves = b /\ made.certified = no
  <2>1. made = Diagram(levels, out, a, b, loose, no)
    BY <1>1 DEF Produced, a, b, out, no, levels
  <2> QED  BY <2>1, DiagramIs
<1>8. ASSUME NEW t \in Internal, t \notin a PROVE FreeAt(levels[t], t)
  <2>1. FreeAt(f.levels[t], t) /\ FreeAt(g.levels[t], t)
    BY <1>6, <1>8 DEF FreeOff
  <2>2. CASE swept[t].carrier # 0
    <3>1. swept[t].level = f.levels[t] \/ swept[t].level = g.levels[t]
      BY <1>3, <2>2
    <3> QED  BY <1>2, <2>1, <3>1
  <2>3. CASE swept[t].carrier = 0
    <3>1. as[t] # 0 \/ AddsNoTwins(swept, t)
      BY <1>5, <1>8, <2>3 DEF OwedTwins, Built
    <3>2. CASE as[t] # 0
      <4>1. MayBeAs(f, g, swept, t) # 0
        BY <1>1, <3>2 DEF Produced, Noting
      <4>2. swept[t].level = f.levels[t] \/ swept[t].level = g.levels[t]
        BY <1>3, <4>1
      <4> QED  BY <1>2, <2>1, <4>2
    <3>3. CASE AddsNoTwins(swept, t)
      BY <1>2, <1>4, <2>1, <2>3, <3>3
    <3> QED  BY <3>1, <3>2, <3>3
  <2> QED  BY <2>2, <2>3
<1>9. ASSUME NEW t \in Internal, t \notin b PROVE FoldedAt(levels[t], t)
  <2>1. FoldedAt(f.levels[t], t) /\ FoldedAt(g.levels[t], t)
    BY <1>6, <1>9 DEF FoldedOff
  <2>2. swept[t].carrier # 0
    BY <1>5, <1>9 DEF Built
  <2>3. swept[t].level = f.levels[t] \/ swept[t].level = g.levels[t]
    BY <1>3, <2>2
  <2> QED  BY <1>2, <2>1, <2>3
<1>10. FreeOff(made, made.contract)
  BY <1>7, <1>8 DEF FreeOff
<1>11. FoldedOff(made, made.leaves)
  BY <1>7, <1>9 DEF FoldedOff
<1>12. ~made.certified
  BY <1>5, <1>7
<1> QED  BY <1>10, <1>11, <1>12

-------------------------------------------------------------------------------
\* Every node of a level swept is some product.
LEMMA SweptOnto ==
  ASSUME NEW f, Sound(f), NEW g, Sound(g), NEW t \in Internal
  PROVE  LET swept == Sweep(f, g, {})
         IN  /\ DOMAIN swept[t].at = (DOMAIN f.levels[t]) \X (DOMAIN g.levels[t])
             /\ Onto(f, g, swept, t)
<1> DEFINE swept == Sweep(f, g, {})
<1>1. MadeAs(f, g, swept, t) /\ (swept[t].carrier = 0 => Onto(f, g, swept, t))
      /\ DOMAIN swept[t].at = (DOMAIN f.levels[t]) \X (DOMAIN g.levels[t])
  BY MadeIs
<1>2. /\ DOMAIN f.levels[t] = 1 .. Len(f.levels[t]) /\ DOMAIN g.levels[t] = 1 .. Len(g.levels[t])
  BY SoundIs, LevelIs
<1>3. /\ Len(f.levels[t]) = 1 => 1 \in DOMAIN f.levels[t]
      /\ Len(g.levels[t]) = 1 => 1 \in DOMAIN g.levels[t]
  BY <1>2
<1> HIDE DEF swept
<1>4. CASE CarriedFirst(f, g, swept, t)
  <2>1. Len(g.levels[t]) = 1 /\ swept[t].level = f.levels[t]
        /\ \A i \in DOMAIN f.levels[t], j \in DOMAIN g.levels[t] : swept[t].at[<<i, j>>] = i
    BY <1>4 DEF CarriedFirst, IdentityLevel
  <2> QED  BY <1>1, <1>3, <2>1 DEF Onto, swept
<1>5. CASE CarriedSecond(f, g, swept, t)
  <2>1. Len(f.levels[t]) = 1 /\ swept[t].level = g.levels[t]
        /\ \A i \in DOMAIN f.levels[t], j \in DOMAIN g.levels[t] : swept[t].at[<<i, j>>] = j
    BY <1>5 DEF CarriedSecond, IdentityLevel
  <2> QED  BY <1>1, <1>3, <2>1 DEF Onto, swept
<1> QED  BY <1>1, <1>4, <1>5 DEF MadeAs, swept

\* A level with as many nodes as products has none that is false.
LEMMA AllLive ==
  ASSUME NEW f, Sound(f), NEW g, Sound(g), f.out # Zero, g.out # Zero, NEW t \in Internal,
         Len(f.levels[t]) * Len(g.levels[t]) = Len(Sweep(f, g, {})[t].level)
  PROVE  \A i \in DOMAIN f.levels[t], j \in DOMAIN g.levels[t] : Sweep(f, g, {})[t].at[<<i, j>>] # 0
<1> DEFINE swept == Sweep(f, g, {})
           F == f.levels[t]
           G == g.levels[t]
           W == swept[t].level
           m == Len(F)
           n == Len(G)
           w == Len(W)
           grid == (1 .. m) \X (1 .. n)
           S == {ij \in grid : swept[t].at[ij] # 0}
           at == [ij \in S |-> swept[t].at[ij]]
<1>1. m \in Nat /\ n \in Nat /\ DOMAIN F = 1 .. m /\ DOMAIN G = 1 .. n
  BY SoundIs, LevelIs
<1>2. w \in Nat /\ DOMAIN W = 1 .. w
  <2>1. InRange(SweptLevels(swept))
    BY SweepSound
  <2>2. SweptLevels(swept)[t] = W
    BY DEF SweptLevels
  <2> HIDE DEF swept, W
  <2> QED  BY <2>1, <2>2, LevelIs
<1>3. m * n = w
  OBVIOUS
<1>4. Grid(f, g, swept, t) /\ Onto(f, g, swept, t)
  BY GridAll, SweptOnto DEF Vtree
<1>5. t \notin Leaf /\ Slots(f.levels, t) = 1 .. m /\ Slots(g.levels, t) = 1 .. n /\ Slots(SweptLevels(swept), t) = 1 .. w
  <2>1. t \notin Leaf
    BY InternalIs
  <2>2. SweptLevels(swept)[t] = W
    BY DEF SweptLevels
  <2> HIDE DEF swept, m, n, w, F, G, W
  <2> QED  BY <1>1, <1>2, <2>1, <2>2 DEF Slots, F, G
<1>6. /\ \A i \in 1 .. m, j \in 1 .. n : swept[t].at[<<i, j>>] \in {0} \cup 1 .. w
      /\ \A i, a \in 1 .. m, j, b \in 1 .. n : swept[t].at[<<i, j>>] = swept[t].at[<<a, b>>] /\ swept[t].at[<<i, j>>] # 0 => i = a /\ j = b
      /\ \A k \in 1 .. w : \E i \in 1 .. m, j \in 1 .. n : swept[t].at[<<i, j>>] = k
  <2> DEFINE X == 1 .. m
             Y == 1 .. n
             Z == 1 .. w
             at2 == swept[t].at
  <2>1. DOMAIN f.levels[t] = X /\ DOMAIN g.levels[t] = Y /\ DOMAIN swept[t].level = Z
    BY <1>1, <1>2
  <2>2. Slots(f.levels, t) = X /\ Slots(g.levels, t) = Y /\ Slots(SweptLevels(swept), t) = Z /\ t \notin Leaf
    BY <1>5
  <2> HIDE DEF swept, X, Y, Z, F, G, m, n, w, W
  <2>3. \A i \in X, j \in Y : at2[<<i, j>>] \in {0} \cup Z
    BY <1>4, <2>2 DEF Grid
  <2>4. \A i, a \in X, j, b \in Y : at2[<<i, j>>] = at2[<<a, b>>] /\ at2[<<i, j>>] # 0 => i = a /\ j = b
    BY <1>4, <2>2 DEF Grid
  <2>5. \A k \in Z : \E i \in X, j \in Y : at2[<<i, j>>] = k
    BY <1>4, <2>1 DEF Onto
  <2> QED  BY <2>3, <2>4, <2>5 DEF X, Y, Z
<1> HIDE DEF swept, m, n, w, F, G, W
<1>7. at \in Bijection(S, 1 .. w)
  <2>1. \A ij \in grid : ij = <<ij[1], ij[2]>> /\ ij[1] \in 1 .. m /\ ij[2] \in 1 .. n
    OBVIOUS
  <2>2. ASSUME NEW ij \in S PROVE at[ij] \in 1 .. w
    BY <1>6, <2>1
  <2>3. ASSUME NEW x \in S, NEW y \in S, at[x] = at[y] PROVE x = y
    <3>1. x = <<x[1], x[2]>> /\ y = <<y[1], y[2]>> /\ x[1] \in 1 .. m /\ x[2] \in 1 .. n /\ y[1] \in 1 .. m /\ y[2] \in 1 .. n
      BY <2>1
    <3>2. swept[t].at[<<x[1], x[2]>>] = swept[t].at[<<y[1], y[2]>>] /\ swept[t].at[<<x[1], x[2]>>] # 0
      BY <2>3, <3>1
    <3>3. x[1] = y[1] /\ x[2] = y[2]
      BY <1>6, <3>1, <3>2
    <3> QED  BY <3>1, <3>3
  <2>4. ASSUME NEW k \in 1 .. w PROVE \E ij \in S : at[ij] = k
    <3>1. PICK i \in 1 .. m, j \in 1 .. n : swept[t].at[<<i, j>>] = k
      BY <1>6
    <3>2. <<i, j>> \in S
      BY <1>2, <3>1 DEF w
    <3> QED  BY <3>1, <3>2
  <2>5. at \in [S -> 1 .. w]
    BY <2>2
  <2> HIDE DEF at, S
  <2> QED  BY <2>3, <2>4, <2>5 DEF Bijection, Injection, Surjection, IsInjective
<1>8. IsFiniteSet(1 .. w) /\ Cardinality(1 .. w) = w
  BY <1>2, FS_Interval
<1>9. IsFiniteSet(grid) /\ Cardinality(grid) = m * n
  <2>1. /\ IsFiniteSet(1 .. m) /\ Cardinality(1 .. m) = m
        /\ IsFiniteSet(1 .. n) /\ Cardinality(1 .. n) = n
    BY <1>1, FS_Interval
  <2> DEFINE A == 1 .. m
             B == 1 .. n
  <2> HIDE DEF A, B
  <2>2. IsFiniteSet(A \X B) /\ Cardinality(A \X B) = Cardinality(A) * Cardinality(B)
    BY <2>1, FS_Product DEF A, B
  <2> QED  BY <2>1, <2>2 DEF A, B
<1>10. IsFiniteSet(S) /\ Cardinality(S) = w
  <2>1. ExistsBijection(S, 1 .. w)
    BY <1>7 DEF ExistsBijection
  <2>2. S \subseteq grid
    OBVIOUS
  <2> HIDE DEF S, grid
  <2>3. IsFiniteSet(S)
    BY <1>9, <2>2, FS_Subset
  <2>4. Cardinality(S) = Cardinality(1 .. w)
    BY <1>8, <2>1, <2>3, FS_Bijection
  <2> QED  BY <1>8, <2>3, <2>4
<1>11. S = grid
  <2>1. S \in SUBSET grid
    OBVIOUS
  <2> HIDE DEF S, grid
  <2>2. S \subseteq grid /\ Cardinality(S) = Cardinality(grid)
    BY <1>3, <1>9, <1>10, <2>1
  <2> QED  BY <1>9, <2>2, FS_Subset
<1>12. ASSUME NEW i \in 1 .. m, NEW j \in 1 .. n PROVE swept[t].at[<<i, j>>] # 0
  <2>1. <<i, j>> \in S
    BY <1>11
  <2> QED  BY <2>1
<1> QED  BY <1>1, <1>12 DEF swept, F, G

-------------------------------------------------------------------------------
\* The slots a cell names are numbers of the children's slots.
LEMMA CellSlots ==
  ASSUME NEW levels, InRange(levels), NEW t \in Internal, NEW c \in Children(t), NEW k \in DOMAIN levels[t], NEW i, NEW y,
         Cell(levels[t], Side(c), k, i, y)
  PROVE  /\ i \in Slots(levels, c) /\ y \in Slots(levels, Sibling(c)) /\ i \in Nat /\ y \in Nat /\ y # 0
         /\ Cell(levels[t], Side(Sibling(c)), k, y, i)
<1> DEFINE s == Side(c)
           o == Sibling(c)
<1>1. o \in Children(t) /\ Side(o) = 3 - s /\ s \in {1, 2}
  BY SiblingOf DEF Children
<1>2. PICK q \in levels[t][k] : q[s] = i /\ q[3 - s] = y
  BY DEF Cell
<1>3. q[Side(c)] \in Slots(levels, c) /\ q[Side(Sibling(c))] \in Slots(levels, Sibling(c))
  BY SidesIs
<1>4. i \in Slots(levels, c) /\ y \in Slots(levels, o)
  BY <1>1, <1>2, <1>3
<1>5. OfNumbers(levels[t])
  BY ContextCells
<1>6. o \in Vtree
  BY <1>1, ParentOf
<1> HIDE DEF s, o
<1>7. y # 0
  <2>1. CASE o \in Leaf
    BY <1>4, <2>1, LeafSlots
  <2>2. CASE o \in Internal
    BY <1>4, <2>2, LevelIs
  <2> QED  BY <1>6, <2>1, <2>2 DEF Vtree
<1>8. Cell(levels[t], s, k, i, y)
  BY DEF s
<1>9. i \in Nat /\ y \in Nat /\ Cell(levels[t], 3 - s, k, y, i)
  BY <1>1, <1>5, <1>8, CellTurned
<1> QED  BY <1>1, <1>4, <1>7, <1>9 DEF s, o

\* Cells whose products are not false give the level a cell.
LEMMA ProductNamed ==
  ASSUME NEW f, Sound(f), NEW g, Sound(g), f.out # Zero, g.out # Zero, NEW t \in Internal, NEW c \in Children(t),
         Sweep(f, g, {})[t].carrier = 0, NEW a \in DOMAIN f.levels[t], NEW b \in DOMAIN g.levels[t],
         NEW i, NEW y, Cell(f.levels[t], Side(c), a, i, y), NEW j, NEW z, Cell(g.levels[t], Side(c), b, j, z),
         Sweep(f, g, {})[c].at[<<i, j>>] # 0, Sweep(f, g, {})[Sibling(c)].at[<<y, z>>] # 0
  PROVE  Names(Sweep(f, g, {})[t].level, Side(c), Sweep(f, g, {})[c].at[<<i, j>>])
<1> DEFINE swept == Sweep(f, g, {})
           u == swept[c].at[<<i, j>>]
           x == swept[Sibling(c)].at[<<y, z>>]
           k == swept[t].at[<<a, b>>]
           W == swept[t].level
<1>1. InRange(f.levels) /\ InRange(g.levels)
  BY SoundIs
<1>2. i \in Nat /\ y \in Nat /\ j \in Nat /\ z \in Nat
  BY <1>1, CellSlots
<1>3. MetCell(f, g, swept, t, c, a, b, u, x)
  <2> HIDE DEF swept
  <2> QED  BY <1>2 DEF MetCell, swept
<1>4. BuiltAs(f, g, swept, t)
  BY MadeIs DEF MadeAs
<1>5. IF k = 0 THEN \A v, w : ~MetCell(f, g, swept, t, c, a, b, v, w)
      ELSE k \in DOMAIN W /\ \A v, w : Cell(W, Side(c), k, v, w) <=> MetCell(f, g, swept, t, c, a, b, v, w)
  <2> HIDE DEF swept
  <2> QED  BY <1>4, BuiltCells
<1> HIDE DEF swept, u, x, k, W
<1>6. k \in DOMAIN W /\ Cell(W, Side(c), k, u, x)
  BY <1>3, <1>5
<1>7. x \in Nat
  <2>1. InRange(SweptLevels(swept)) /\ SweptLevels(swept)[t] = W
    <3>1. InRange(SweptLevels(swept))
      BY SweepSound DEF swept
    <3>2. SweptLevels(swept)[t] = W
      BY DEF SweptLevels, W
    <3> QED  BY <3>1, <3>2
  <2>2. OfNumbers(W) /\ Side(c) \in {1, 2}
    BY <2>1, ContextCells
  <2> QED  BY <1>6, <2>2, CellTurned
<1> QED  BY <1>6, <1>7 DEF Names, u, W, swept

\* KillsNone: no product of the sibling's named slots is false.
LEMMA KillsNoneIs ==
  ASSUME NEW f, Sound(f), NEW g, Sound(g), f.out # Zero, g.out # Zero, NEW t \in Internal, NEW c \in Children(t),
         KillsNone(f, g, Sweep(f, g, {}), Sibling(c)), NEW a \in DOMAIN f.levels[t], NEW b \in DOMAIN g.levels[t],
         NEW i, NEW y, Cell(f.levels[t], Side(c), a, i, y), NEW j, NEW z, Cell(g.levels[t], Side(c), b, j, z)
  PROVE  Sweep(f, g, {})[Sibling(c)].at[<<y, z>>] # 0
<1> DEFINE swept == Sweep(f, g, {})
           o == Sibling(c)
<1>1. InRange(f.levels) /\ InRange(g.levels) /\ o \in Children(t) /\ o \in Vtree
  BY SoundIs, SiblingOf, ParentOf
<1>2. /\ y \in Slots(f.levels, o) /\ y # 0 /\ Cell(f.levels[t], Side(o), a, y, i)
      /\ z \in Slots(g.levels, o) /\ z # 0 /\ Cell(g.levels[t], Side(o), b, z, j)
  BY <1>1, CellSlots
<1>3. CASE o \in Leaf
  <2>1. swept[o].fIs \/ swept[o].gIs
    BY <1>3 DEF KillsNone
  <2>2. /\ swept[o].gIs =>
             /\ \A m \in DOMAIN g.levels[t] : \A v, w : Cell(g.levels[t], Side(o), m, v, w) => v = Unit(o)
             /\ \A v \in Slots(f.levels, o) : swept[o].at[<<v, Unit(o)>>] = v
        /\ swept[o].fIs =>
             /\ \A m \in DOMAIN f.levels[t] : \A v, w : Cell(f.levels[t], Side(o), m, v, w) => v = Unit(o)
             /\ \A v \in Slots(g.levels, o) : swept[o].at[<<Unit(o), v>>] = v
    BY <1>1, UnitIs
  <2> HIDE DEF swept, o
  <2>3. CASE swept[o].gIs
    <3>1. z = Unit(o) /\ swept[o].at[<<y, Unit(o)>>] = y
      BY <1>2, <2>2, <2>3
    <3> QED  BY <1>2, <3>1 DEF swept, o
  <2>4. CASE swept[o].fIs
    <3>1. y = Unit(o) /\ swept[o].at[<<Unit(o), z>>] = z
      BY <1>2, <2>2, <2>4
    <3> QED  BY <1>2, <3>1 DEF swept, o
  <2> QED  BY <2>1, <2>3, <2>4
<1>4. CASE o \notin Leaf
  <2>1. Len(f.levels[o]) * Len(g.levels[o]) = Len(swept[o].level) /\ o \in Internal
    BY <1>1, <1>4 DEF KillsNone, Vtree
  <2>2. y \in DOMAIN f.levels[o] /\ z \in DOMAIN g.levels[o]
    BY <1>2, <1>4 DEF Slots
  <2> HIDE DEF o
  <2>3. \A v \in DOMAIN f.levels[o], w \in DOMAIN g.levels[o] : swept[o].at[<<v, w>>] # 0
    BY <2>1, AllLive
  <2> QED  BY <2>2, <2>3 DEF o
<1> QED  BY <1>3, <1>4

\* HeldForEveryLabel: some label meets any label.
LEMMA HeldMeets ==
  ASSUME NEW labels, HeldForEveryLabel(labels), NEW y \in {1, 2, 3}
  PROVE  \E z \in labels : z \in {1, 2, 3} /\ LeafProduct(y, z) # 0
<1>1. 3 \in labels \/ (1 \in labels /\ 2 \in labels)
  BY DEF HeldForEveryLabel, One, Pos, Neg
<1>2. \A v \in {1, 2, 3} : LeafProduct(v, 3) = v /\ LeafProduct(3, v) = v /\ LeafProduct(v, v) = v
  BY DEF LeafProduct, One
<1> QED  BY <1>1, <1>2

\* A child's nodes, named in an operand's level, or the only one while the
\* product has nodes.
LEMMA OnlyNamed ==
  ASSUME NEW f, Sound(f), NEW g, Sound(g), f.out # Zero, g.out # Zero, NEW t \in Internal, NEW c \in Children(t), c \notin Leaf,
         Sweep(f, g, {})[t].carrier = 0, Sweep(f, g, {})[t].level # <<>>
  PROVE  /\ \E i \in DOMAIN f.levels[c] : Names(f.levels[t], Side(c), i)
         /\ \E j \in DOMAIN g.levels[c] : Names(g.levels[t], Side(c), j)
<1> DEFINE swept == Sweep(f, g, {})
           s == Side(c)
           W == swept[t].level
<1>1. InRange(f.levels) /\ InRange(g.levels)
  BY SoundIs
<1>2. InRange(SweptLevels(swept)) /\ SweptLevels(swept)[t] = W
  <2>1. InRange(SweptLevels(swept))
    BY SweepSound
  <2>2. SweptLevels(swept)[t] = W
    BY DEF SweptLevels
  <2> QED  BY <2>1, <2>2
<1>3. BuiltAs(f, g, swept, t) /\ Onto(f, g, swept, t)
  BY MadeIs DEF MadeAs
<1>4. 1 \in DOMAIN W
  <2> HIDE DEF swept, W
  <2>1. DOMAIN W = 1 .. Len(W) /\ Len(W) \in Nat /\ W \in Seq(SUBSET (Nat \X Nat))
    BY <1>2, LevelIs
  <2>2. W # <<>>
    BY DEF W, swept
  <2>3. Len(W) # 0
    BY <2>1, <2>2
  <2> QED  BY <2>1, <2>3
<1> HIDE DEF swept
<1>5. PICK a \in DOMAIN f.levels[t], b \in DOMAIN g.levels[t] : swept[t].at[<<a, b>>] = 1
  BY <1>3, <1>4 DEF Onto
<1>6. \A v, w : Cell(W, s, 1, v, w) <=> MetCell(f, g, swept, t, c, a, b, v, w)
  <2>1. LET k == swept[t].at[<<a, b>>]
        IN  IF k = 0 THEN \A v, w : ~MetCell(f, g, swept, t, c, a, b, v, w)
            ELSE k \in DOMAIN W /\ \A v, w : Cell(W, s, k, v, w) <=> MetCell(f, g, swept, t, c, a, b, v, w)
    BY <1>3, BuiltCells
  <2> HIDE DEF s, W
  <2> QED  BY <1>5, <2>1
<1>7. PICK q \in W[1] : TRUE
  BY <1>3, <1>4 DEF BuiltAs
<1>8. Cell(W, s, 1, q[s], q[3 - s])
  BY DEF Cell
<1>9. MetCell(f, g, swept, t, c, a, b, q[s], q[3 - s])
  BY <1>6, <1>8
<1>10. PICK i, j, y, z \in Nat : Cell(f.levels[t], s, a, i, y) /\ Cell(g.levels[t], s, b, j, z)
  BY <1>9 DEF MetCell
<1>11. i \in DOMAIN f.levels[c] /\ j \in DOMAIN g.levels[c]
  <2>1. i \in Slots(f.levels, c) /\ j \in Slots(g.levels, c)
    BY <1>1, <1>10, CellSlots
  <2> QED  BY <2>1 DEF Slots
<1>12. Names(f.levels[t], s, i) /\ Names(g.levels[t], s, j)
  BY <1>10 DEF Names
<1> QED  BY <1>11, <1>12

-------------------------------------------------------------------------------
\* The nodes of a child all named: none unread, or the only one of a level above
\* that a product has nodes of.
LEMMA InNames ==
  ASSUME NEW f, Sound(f), NEW g, Sound(g), f.out # Zero, g.out # Zero, NEW t \in Internal, NEW c \in Children(t), c \notin Leaf,
         Sweep(f, g, {})[t].carrier = 0
  PROVE  /\ ~Unread(f.levels, c) \/ (Len(f.levels[c]) = 1 /\ Sweep(f, g, {})[t].level # <<>>)
              => \A i \in DOMAIN f.levels[c] : Names(f.levels[t], Side(c), i)
         /\ ~Unread(g.levels, c) \/ (Len(g.levels[c]) = 1 /\ Sweep(f, g, {})[t].level # <<>>)
              => \A i \in DOMAIN g.levels[c] : Names(g.levels[t], Side(c), i)
<1> DEFINE swept == Sweep(f, g, {})
<1>1. Parent[c] = t /\ c \in Internal
  BY ParentOf DEF Vtree
<1>2. /\ DOMAIN f.levels[c] = 1 .. Len(f.levels[c]) /\ DOMAIN g.levels[c] = 1 .. Len(g.levels[c])
  BY <1>1, SoundIs, LevelIs
<1>3. \A n : n = 1 => 1 .. n = {1}
  OBVIOUS
<1>4. /\ Len(f.levels[c]) = 1 => DOMAIN f.levels[c] = {1}
      /\ Len(g.levels[c]) = 1 => DOMAIN g.levels[c] = {1}
  BY <1>2, <1>3
<1>5. swept[t].level # <<>> =>
        /\ \E i \in DOMAIN f.levels[c] : Names(f.levels[t], Side(c), i)
        /\ \E j \in DOMAIN g.levels[c] : Names(g.levels[t], Side(c), j)
  BY OnlyNamed
<1> HIDE DEF swept
<1>6. ASSUME ~Unread(f.levels, c) \/ (Len(f.levels[c]) = 1 /\ swept[t].level # <<>>), NEW i \in DOMAIN f.levels[c]
      PROVE  Names(f.levels[t], Side(c), i)
  <2>1. CASE ~Unread(f.levels, c)
    BY <1>1, <2>1 DEF Unread
  <2>2. CASE Len(f.levels[c]) = 1 /\ swept[t].level # <<>>
    <3>1. PICK m \in DOMAIN f.levels[c] : Names(f.levels[t], Side(c), m)
      BY <1>5, <2>2
    <3>2. i = 1 /\ m = 1
      BY <1>4, <2>2
    <3> QED  BY <3>1, <3>2
  <2> QED  BY <1>6, <2>1, <2>2
<1>7. ASSUME ~Unread(g.levels, c) \/ (Len(g.levels[c]) = 1 /\ swept[t].level # <<>>), NEW i \in DOMAIN g.levels[c]
      PROVE  Names(g.levels[t], Side(c), i)
  <2>1. CASE ~Unread(g.levels, c)
    BY <1>1, <2>1 DEF Unread
  <2>2. CASE Len(g.levels[c]) = 1 /\ swept[t].level # <<>>
    <3>1. PICK m \in DOMAIN g.levels[c] : Names(g.levels[t], Side(c), m)
      BY <1>5, <2>2
    <3>2. i = 1 /\ m = 1
      BY <1>4, <2>2
    <3> QED  BY <3>1, <3>2
  <2> QED  BY <1>7, <2>1, <2>2
<1> QED  BY <1>6, <1>7 DEF swept

\* A built level names every node below it where no product is false.
LEMMA TightNames ==
  ASSUME NEW f, Sound(f), NEW g, Sound(g), f.out # Zero, g.out # Zero, NEW t \in Internal, NEW c \in Children(t), c \notin Leaf,
         Sweep(f, g, {})[t].carrier = 0, KillsNone(f, g, Sweep(f, g, {}), Sibling(c)),
         \A i \in DOMAIN f.levels[c] : Names(f.levels[t], Side(c), i),
         \A i \in DOMAIN g.levels[c] : Names(g.levels[t], Side(c), i),
         NEW u \in DOMAIN Sweep(f, g, {})[c].level
  PROVE  Names(Sweep(f, g, {})[t].level, Side(c), u)
<1> DEFINE swept == Sweep(f, g, {})
           s == Side(c)
           o == Sibling(c)
<1>1. c \in Internal
  BY ParentOf DEF Vtree
<1>2. Onto(f, g, swept, c)
  BY <1>1, SweptOnto
<1>3. PICK i \in DOMAIN f.levels[c], j \in DOMAIN g.levels[c] : swept[c].at[<<i, j>>] = u
  <2> HIDE DEF swept
  <2> QED  BY <1>2 DEF Onto, swept
<1>4. PICK a \in DOMAIN f.levels[t] : \E y \in Nat : Cell(f.levels[t], s, a, i, y)
  BY DEF Names
<1>5. PICK y \in Nat : Cell(f.levels[t], s, a, i, y)
  BY <1>4
<1>6. PICK b \in DOMAIN g.levels[t] : \E z \in Nat : Cell(g.levels[t], s, b, j, z)
  BY DEF Names
<1>7. PICK z \in Nat : Cell(g.levels[t], s, b, j, z)
  BY <1>6
<1>8. u # 0
  <2>1. InRange(SweptLevels(swept))
    BY SweepSound
  <2>2. SweptLevels(swept)[c] = swept[c].level
    BY <1>1 DEF SweptLevels
  <2> HIDE DEF swept
  <2>3. DOMAIN swept[c].level = 1 .. Len(swept[c].level) /\ Len(swept[c].level) \in Nat
    BY <1>1, <2>1, <2>2, LevelIs
  <2>4. u \in DOMAIN swept[c].level
    BY DEF swept
  <2> QED  BY <2>3, <2>4
<1>9. swept[o].at[<<y, z>>] # 0
  BY <1>5, <1>7, KillsNoneIs
<1>10. swept[c].at[<<i, j>>] # 0
  BY <1>3, <1>8
<1>11. Names(swept[t].level, s, swept[c].at[<<i, j>>])
  BY <1>5, <1>7, <1>9, <1>10, ProductNamed
<1> QED  BY <1>3, <1>11

\* Beside a leaf, where the second operand names every live product for every
\* label.
LEMMA HeldNames ==
  ASSUME NEW f, Sound(f), NEW g, Sound(g), f.out # Zero, g.out # Zero, NEW t \in Internal, NEW c \in Children(t), c \notin Leaf,
         Sweep(f, g, {})[t].carrier = 0, MayBeHeld(g, Sweep(f, g, {}), c, Sibling(c)),
         \A i \in DOMAIN f.levels[c] : Names(f.levels[t], Side(c), i),
         NEW u \in DOMAIN Sweep(f, g, {})[c].level
  PROVE  Names(Sweep(f, g, {})[t].level, Side(c), u)
<1> DEFINE swept == Sweep(f, g, {})
           s == Side(c)
           o == Sibling(c)
<1>1. c \in Internal /\ Parent[c] = t /\ o \in Leaf
  BY ParentOf DEF Vtree, MayBeHeld
<1>2. Onto(f, g, swept, c) /\ DOMAIN swept[c].at = (DOMAIN f.levels[c]) \X (DOMAIN g.levels[c])
  BY <1>1, SweptOnto
<1>3. PICK i \in DOMAIN f.levels[c], j \in DOMAIN g.levels[c] : swept[c].at[<<i, j>>] = u
  <2> HIDE DEF swept
  <2> QED  BY <1>2 DEF Onto, swept
<1>4. PICK a \in DOMAIN f.levels[t] : \E y \in Nat : Cell(f.levels[t], s, a, i, y)
  BY DEF Names
<1>5. PICK y \in Nat : Cell(f.levels[t], s, a, i, y)
  BY <1>4
<1>6. u # 0
  <2>1. InRange(SweptLevels(swept))
    BY SweepSound
  <2>2. SweptLevels(swept)[c] = swept[c].level
    BY <1>1 DEF SweptLevels
  <2> HIDE DEF swept
  <2>3. DOMAIN swept[c].level = 1 .. Len(swept[c].level) /\ Len(swept[c].level) \in Nat
    BY <1>1, <2>1, <2>2, LevelIs
  <2>4. u \in DOMAIN swept[c].level
    BY DEF swept
  <2> QED  BY <2>3, <2>4
<1>7. y \in {1, 2, 3}
  <2>1. y \in Slots(f.levels, o)
    BY <1>5, SoundIs, CellSlots
  <2> QED  BY <1>1, <2>1, LeafSlots
<1> DEFINE labels == Partners(PairsAt(g.levels, t), c, j)
<1>8. HeldForEveryLabel(labels)
  <2>1. \A ij \in DOMAIN swept[c].at : swept[c].at[ij] # 0 => HeldForEveryLabel(Partners(PairsAt(g.levels, Parent[c]), c, ij[2]))
    BY DEF MayBeHeld
  <2>2. <<i, j>> \in DOMAIN swept[c].at
    BY <1>2
  <2>3. <<i, j>>[2] = j
    OBVIOUS
  <2> HIDE DEF swept
  <2>4. HeldForEveryLabel(Partners(PairsAt(g.levels, Parent[c]), c, <<i, j>>[2]))
    BY <1>3, <1>6, <2>1, <2>2
  <2> QED  BY <1>1, <2>3, <2>4
<1> HIDE DEF labels
<1>9. PICK z \in labels : z \in {1, 2, 3} /\ LeafProduct(y, z) # 0
  BY <1>7, <1>8, HeldMeets
<1>10. PICK b \in DOMAIN g.levels[t] : Cell(g.levels[t], s, b, j, z)
  BY DEF labels, Partners, PairsAt, PairsOf, Cell
<1>11. swept[o].at[<<y, z>>] # 0
  <2>1. Grid(f, g, swept, o)
    BY <1>1, GridAll DEF Vtree
  <2>2. Slots(f.levels, o) = {1, 2, 3} /\ Slots(g.levels, o) = {1, 2, 3}
    BY <1>1, LeafSlots
  <2> HIDE DEF swept, o
  <2>3. swept[o].at[<<y, z>>] = LeafProduct(y, z)
    BY <1>1, <1>7, <1>9, <2>1, <2>2 DEF Grid
  <2> QED  BY <1>9, <2>3
<1>12. swept[c].at[<<i, j>>] # 0
  BY <1>3, <1>6
<1>13. Names(swept[t].level, s, swept[c].at[<<i, j>>])
  BY <1>5, <1>10, <1>11, <1>12, ProductNamed
<1> QED  BY <1>3, <1>13

\* A level carried over leaves below it what its operand has there.
LEMMA CarriedNames ==
  ASSUME NEW f, Sound(f), NEW g, Sound(g), NEW t \in Internal, NEW c \in Children(t), c \notin Leaf
  PROVE  LET swept == Sweep(f, g, {})
         IN  /\ swept[t].carrier = 1 => swept[t].level = f.levels[t] /\ DOMAIN swept[c].level = DOMAIN f.levels[c]
             /\ swept[t].carrier = 2 => swept[t].level = g.levels[t] /\ DOMAIN swept[c].level = DOMAIN g.levels[c]
<1> DEFINE swept == Sweep(f, g, {})
<1>1. MadeAs(f, g, swept, t)
  BY MadeIs
<1>2. c \in Vtree /\ c \in Internal
  BY ParentOf DEF Vtree
<1>3. Grid(f, g, swept, c)
  BY <1>2, GridAll
<1>4. SweptLevels(swept)[c] = swept[c].level
  BY <1>2 DEF SweptLevels
<1> HIDE DEF swept
<1>5. /\ Slots(SweptLevels(swept), c) = DOMAIN swept[c].level
      /\ Slots(f.levels, c) = DOMAIN f.levels[c]
      /\ Slots(g.levels, c) = DOMAIN g.levels[c]
  BY <1>4 DEF Slots
<1>6. /\ swept[c].gIs => DOMAIN swept[c].level = DOMAIN f.levels[c]
      /\ swept[c].fIs => DOMAIN swept[c].level = DOMAIN g.levels[c]
  BY <1>3, <1>5 DEF Grid
<1>7. CASE swept[t].carrier = 1
  <2>1. CarriedFirst(f, g, swept, t)
    BY <1>1, <1>7 DEF MadeAs
  <2>2. swept[c].gIs
    BY <2>1 DEF CarriedFirst, IdentityLevel, Children
  <2> QED  BY <1>6, <1>7, <2>1, <2>2 DEF CarriedFirst, swept
<1>8. CASE swept[t].carrier = 2
  <2>1. CarriedSecond(f, g, swept, t)
    BY <1>1, <1>8 DEF MadeAs
  <2>2. swept[c].fIs
    BY <2>1 DEF CarriedSecond, IdentityLevel, Children
  <2> QED  BY <1>6, <1>8, <2>1, <2>2 DEF CarriedSecond, swept
<1> QED  BY <1>7, <1>8 DEF swept

-------------------------------------------------------------------------------
\* What the choice of loose levels says of a level left out.
LEMMA LeftOffLoose ==
  ASSUME NEW f, NEW g, NEW swept, NEW as, NEW loose, loose \in LooseLevels(f, g, swept, as), NEW c \in Internal \ {Root}, c \notin loose
  PROVE  LET tab == <<SettleLoose(f), SettleLoose(g)>>
         IN  \/ swept[Parent[c]].carrier # 0 /\ c \notin tab[swept[Parent[c]].carrier]
             \/ swept[Parent[c]].carrier = 0 /\ (Tight(f, g, tab, swept, as, c) \/ TightIfHeld(f, g, tab, swept, c))
<1> DEFINE tab     == Table(<<SettleLoose(f), SettleLoose(g)>>)
           carried == {x \in Internal \ {Root} : swept[Parent[x]].carrier # 0}
           open    == {x \in Internal \ ({Root} \cup carried) : ~Tight(f, g, tab, swept, as, x)}
           ifHeld  == {x \in open : TightIfHeld(f, g, tab, swept, x)}
           stays   == {x \in carried : x \in tab[swept[Parent[x]].carrier]}
<1>1. tab = <<SettleLoose(f), SettleLoose(g)>>
  BY TableIs
<1>2. LooseLevels(f, g, swept, as) = {stays \cup (open \ h) : h \in SUBSET ifHeld}
  BY DEF LooseLevels
<1>3. /\ c \in carried <=> swept[Parent[c]].carrier # 0
      /\ c \in stays <=> c \in carried /\ c \in tab[swept[Parent[c]].carrier]
      /\ c \in open <=> c \notin carried /\ ~Tight(f, g, tab, swept, as, c)
      /\ c \in ifHeld <=> c \in open /\ TightIfHeld(f, g, tab, swept, c)
  OBVIOUS
<1> HIDE DEF stays, open, ifHeld, tab, carried
<1>4. PICK h \in SUBSET ifHeld : loose = stays \cup (open \ h)
  BY <1>2
<1>5. c \notin stays /\ (c \notin open \/ c \in ifHeld)
  BY <1>4
<1>6. \/ swept[Parent[c]].carrier # 0 /\ c \notin tab[swept[Parent[c]].carrier]
      \/ swept[Parent[c]].carrier = 0 /\ (Tight(f, g, tab, swept, as, c) \/ TightIfHeld(f, g, tab, swept, c))
  BY <1>3, <1>5
<1> QED  BY <1>1, <1>6

\* A product leaves no node unread below a level it does not list as loose.
LEMMA LooseNames ==
  ASSUME NEW f, Sound(f), NEW g, Sound(g), f.out # Zero, g.out # Zero,
         f.loose # Unknown, g.loose # Unknown, Listed(f), Listed(g),
         NEW as, Noting(f, g, Sweep(f, g, {}), as), NEW loose, loose \in LooseLevels(f, g, Sweep(f, g, {}), as),
         NEW c \in Internal \ {Root}, c \notin loose
  PROVE  ~Unread(SweptLevels(Sweep(f, g, {})), c)
<1> DEFINE swept == Sweep(f, g, {})
           t == Parent[c]
           s == Side(c)
           tab == <<SettleLoose(f), SettleLoose(g)>>
<1>1. t \in Internal /\ c \in Children(t) /\ c \notin Leaf /\ c # Root /\ c \in Internal
  BY InternalChild
<1>2. \A u \in Internal : SweptLevels(swept)[u] = swept[u].level
  BY DEF SweptLevels
<1>3. tab[1] = SettleLoose(f) /\ tab[2] = SettleLoose(g)
  OBVIOUS
<1>4. (c \notin tab[1] => ~Unread(f.levels, c)) /\ (c \notin tab[2] => ~Unread(g.levels, c))
  <2>1. HasUnnamed(f) \subseteq SettleLoose(f) /\ HasUnnamed(g) \subseteq SettleLoose(g)
    BY SettleKeeps
  <2>2. /\ HasUnnamed(f) = {u \in Internal \ {Root} : Unread(f.levels, u)}
        /\ HasUnnamed(g) = {u \in Internal \ {Root} : Unread(g.levels, u)}
    BY SoundIs, UnnamedIs
  <2> HIDE DEF tab
  <2> QED  BY <1>1, <1>3, <2>1, <2>2
<1>5. \/ swept[t].carrier # 0 /\ c \notin tab[swept[t].carrier]
      \/ swept[t].carrier = 0 /\ (Tight(f, g, tab, swept, as, c) \/ TightIfHeld(f, g, tab, swept, c))
  <2> HIDE DEF swept
  <2> QED  BY LeftOffLoose DEF swept
<1>6. /\ swept[t].carrier = 1 => swept[t].level = f.levels[t] /\ DOMAIN swept[c].level = DOMAIN f.levels[c]
      /\ swept[t].carrier = 2 => swept[t].level = g.levels[t] /\ DOMAIN swept[c].level = DOMAIN g.levels[c]
  <2> HIDE DEF t
  <2> QED  BY <1>1, CarriedNames
<1>7. /\ swept[t].carrier \in {0, 1, 2}
      /\ MayBeAs(f, g, swept, t) = 1 => swept[t].level = f.levels[t]
      /\ MayBeAs(f, g, swept, t) = 2 => swept[t].level = g.levels[t]
  <2> HIDE DEF t
  <2> QED  BY <1>1, CarriedLevel
<1>8. as[t] \in {0, MayBeAs(f, g, swept, t)}
  <2> HIDE DEF swept
  <2> QED  BY <1>1 DEF Noting, swept
<1>9. DOMAIN swept[c].level = 1 .. Len(swept[c].level)
      /\ DOMAIN f.levels[c] = 1 .. Len(f.levels[c]) /\ DOMAIN g.levels[c] = 1 .. Len(g.levels[c])
  <2>1. InRange(SweptLevels(swept))
    BY SweepSound
  <2> HIDE DEF swept
  <2> QED  BY <1>1, <1>2, <2>1, SoundIs, LevelIs
<1>10. ASSUME NEW level, swept[t].level = level, NEW dom, DOMAIN swept[c].level = dom, \A i \in dom : Names(level, s, i)
       PROVE  ~Unread(SweptLevels(swept), c)
  <2> HIDE DEF swept, s
  <2> QED  BY <1>1, <1>2, <1>10 DEF Unread, s
<1>11. ASSUME ~Unread(f.levels, c) PROVE \A i \in DOMAIN f.levels[c] : Names(f.levels[t], s, i)
  BY <1>11 DEF Unread
<1>12. ASSUME ~Unread(g.levels, c) PROVE \A i \in DOMAIN g.levels[c] : Names(g.levels[t], s, i)
  BY <1>12 DEF Unread
<1>13. CASE swept[t].carrier # 0
  <2>1. swept[t].carrier = 1 \/ swept[t].carrier = 2
    BY <1>7, <1>13
  <2> HIDE DEF swept, tab, t, s
  <2>2. CASE swept[t].carrier = 1
    <3>1. ~Unread(f.levels, c)
      BY <1>4, <1>5, <1>13, <2>2
    <3> QED  BY <1>6, <1>10, <1>11, <2>2, <3>1 DEF swept
  <2>3. CASE swept[t].carrier = 2
    <3>1. ~Unread(g.levels, c)
      BY <1>4, <1>5, <1>13, <2>3
    <3> QED  BY <1>6, <1>10, <1>12, <2>3, <3>1 DEF swept
  <2> QED  BY <2>1, <2>2, <2>3
<1>14. CASE swept[t].carrier = 0
  <2> DEFINE in1 == c \notin tab[1] \/ (Len(f.levels[c]) = 1 /\ swept[t].level # <<>>)
             in2 == c \notin tab[2] \/ (Len(g.levels[c]) = 1 /\ swept[t].level # <<>>)
  <2>1. \/ as[t] = 1 /\ c \notin tab[1] /\ Len(swept[c].level) = Len(f.levels[c])
        \/ as[t] = 2 /\ c \notin tab[2] /\ Len(swept[c].level) = Len(g.levels[c])
        \/ in1 /\ in2 /\ KillsNone(f, g, swept, Sibling(c))
        \/ in1 /\ MayBeHeld(g, swept, c, Sibling(c))
    <3> HIDE DEF swept, tab
    <3> QED  BY <1>5, <1>14 DEF Tight, TightIfHeld
  <2>2. /\ ~Unread(f.levels, c) \/ (Len(f.levels[c]) = 1 /\ swept[t].level # <<>>)
             => \A i \in DOMAIN f.levels[c] : Names(f.levels[t], s, i)
        /\ ~Unread(g.levels, c) \/ (Len(g.levels[c]) = 1 /\ swept[t].level # <<>>)
             => \A i \in DOMAIN g.levels[c] : Names(g.levels[t], s, i)
    <3> HIDE DEF t
    <3> QED  BY <1>1, <1>14, InNames
  <2>3. in1 => \A i \in DOMAIN f.levels[c] : Names(f.levels[t], s, i)
    <3> HIDE DEF swept, tab, t, s
    <3> QED  BY <1>4, <2>2
  <2>4. in2 => \A i \in DOMAIN g.levels[c] : Names(g.levels[t], s, i)
    <3> HIDE DEF swept, tab, t, s
    <3> QED  BY <1>4, <2>2
  <2>5. ASSUME in1, in2, KillsNone(f, g, swept, Sibling(c)), NEW u \in DOMAIN swept[c].level PROVE Names(swept[t].level, s, u)
    <3>1. /\ \A i \in DOMAIN f.levels[c] : Names(f.levels[t], s, i)
          /\ \A i \in DOMAIN g.levels[c] : Names(g.levels[t], s, i)
      BY <2>3, <2>4, <2>5
    <3> HIDE DEF t, in1, in2
    <3> QED  BY <1>1, <1>14, <2>5, <3>1, TightNames
  <2>6. ASSUME in1, MayBeHeld(g, swept, c, Sibling(c)), NEW u \in DOMAIN swept[c].level PROVE Names(swept[t].level, s, u)
    <3>1. \A i \in DOMAIN f.levels[c] : Names(f.levels[t], s, i)
      BY <2>3, <2>6
    <3> HIDE DEF t, in1, in2
    <3> QED  BY <1>1, <1>14, <2>6, <3>1, HeldNames
  <2> HIDE DEF swept, tab, t, s, in1, in2
  <2>7. CASE as[t] = 1 /\ c \notin tab[1] /\ Len(swept[c].level) = Len(f.levels[c])
    <3>1. swept[t].level = f.levels[t]
      BY <1>7, <1>8, <2>7
    <3>2. ~Unread(f.levels, c) /\ DOMAIN swept[c].level = DOMAIN f.levels[c]
      BY <1>4, <1>9, <2>7
    <3> QED  BY <1>10, <1>11, <3>1, <3>2 DEF swept
  <2>8. CASE as[t] = 2 /\ c \notin tab[2] /\ Len(swept[c].level) = Len(g.levels[c])
    <3>1. swept[t].level = g.levels[t]
      BY <1>7, <1>8, <2>8
    <3>2. ~Unread(g.levels, c) /\ DOMAIN swept[c].level = DOMAIN g.levels[c]
      BY <1>4, <1>9, <2>8
    <3> QED  BY <1>10, <1>12, <3>1, <3>2 DEF swept
  <2> QED  BY <1>10, <2>1, <2>5, <2>6, <2>7, <2>8 DEF swept
<1> QED  BY <1>13, <1>14

\* Every conjunction of kempt diagrams is kempt.
LEMMA ProductsKempt ==
  ASSUME NEW f, Sound(f), NEW g, Sound(g), f.out # Zero, g.out # Zero, Kempt(f), Kempt(g),
         NEW made, made \in Products(f, g, Sweep(f, g, {}))
  PROVE  Kempt(made)
<1> DEFINE swept == Sweep(f, g, {})
<1>1. FreeOff(made, made.contract) /\ FoldedOff(made, made.leaves) /\ ~made.certified
  BY ProductsOff DEF Kempt
<1>2. Sound(made) /\ made.levels = SweptLevels(swept)
  BY ProductsSound
<1>3. PICK as, loose : Produced(f, g, swept, made, as, loose)
  BY ProductsAre
<1>4. made.loose = loose
  <2> HIDE DEF swept
  <2> DEFINE a == g.contract \cup f.contract \cup OwedTwins(swept, as)
             b == g.leaves \cup f.leaves \cup Built(swept)
             out == swept[Root].at[<<f.out, g.out>>]
             no == FALSE
             levels == SweptLevels(swept)
  <2>1. made = Diagram(levels, out, a, b, loose, no)
    BY <1>3 DEF Produced
  <2> HIDE DEF a, b, out, no, levels
  <2> QED  BY <2>1, DiagramIs
<1>5. ASSUME loose # Unknown, NEW c \in Internal \ {Root}, c \notin loose PROVE ~Unread(made.levels, c)
  <2>1. loose \in IF f.loose # Unknown /\ g.loose # Unknown THEN LooseLevels(f, g, swept, as) ELSE {Unknown}
    BY <1>3 DEF Produced
  <2>2. Noting(f, g, swept, as)
    BY <1>3 DEF Produced
  <2>3. f.loose # Unknown /\ g.loose # Unknown
    <3> HIDE DEF swept
    <3> QED  BY <1>5, <2>1
  <2>4. loose \in LooseLevels(f, g, swept, as)
    <3> HIDE DEF swept
    <3> QED  BY <2>1, <2>3
  <2>5. ~Unread(SweptLevels(swept), c)
    BY <1>5, <2>2, <2>3, <2>4, LooseNames DEF Kempt
  <2> QED  BY <1>2, <2>5
<1>6. Listed(made)
  <2>1. HasUnnamed(made) = {c \in Internal \ {Root} : Unread(made.levels, c)}
    BY <1>2, SoundIs, UnnamedIs
  <2> QED  BY <1>4, <1>5, <2>1 DEF Listed
<1> QED  BY <1>1, <1>6 DEF Kempt, Certain

\* The false diagram with every level listed owes nothing.
LEMMA FalseListedKempt == Kempt(AllListed(NoLevels, Zero))
<1> DEFINE no == FALSE
           u == Unknown
           d == AllListed(NoLevels, Zero)
<1>1. ~no /\ u = Unknown
  OBVIOUS
<1>2. d.contract = Internal /\ d.leaves = Internal /\ d.loose = u /\ d.certified = no
  <2>1. d = Diagram(NoLevels, Zero, Internal, Internal, u, no)
    BY DEF AllListed
  <2> HIDE DEF d, u, no
  <2> QED  BY <2>1, DiagramIs
<1> HIDE DEF d, u, no
<1> QED  BY <1>1, <1>2 DEF Kempt, FreeOff, FoldedOff, Listed, Certain, d

\* A conjunction of tidy diagrams is tidy.
LEMMA ConjunctionsKempt ==
  ASSUME NEW x, Sound(x), Kempt(x), NEW y, Sound(y), Kempt(y), NEW made, made \in Conjunctions(x, y)
  PROVE  Kempt(made)
<1> DEFINE swap == MaxWidth(y) > MaxWidth(x)
           f == IF swap THEN y ELSE x
           g == IF swap THEN x ELSE y
<1>1. Conjunctions(x, y) = IF f.levels = g.levels /\ f.out = g.out THEN {f}
                           ELSE IF f.out = Zero \/ g.out = Zero THEN {AllListed(NoLevels, Zero)}
                           ELSE Products(f, g, Sweep(f, g, {}))
  BY DEF Conjunctions
<1>2. Sound(f) /\ Sound(g) /\ Kempt(f) /\ Kempt(g)
  <2>1. CASE swap
    BY <2>1
  <2>2. CASE ~swap
    BY <2>2
  <2> QED  BY <2>1, <2>2
<1> HIDE DEF f, g
<1>3. \/ made = f
      \/ made = AllListed(NoLevels, Zero)
      \/ f.out # Zero /\ g.out # Zero /\ made \in Products(f, g, Sweep(f, g, {}))
  BY <1>1
<1> QED  BY <1>2, <1>3, ProductsKempt, FalseListedKempt

-------------------------------------------------------------------------------
(***************************************************************************)
(* The calls keep the diagrams tidy.                                       *)
(***************************************************************************)
\* Between two pops of a sweep: what is still to be searched is pending, or the
\* parent at hand, of which the left child may be done; a parent reached through
\* merges has its twins below the nodes noted as changed.
SweepTidy(levels, s) ==
  /\ \A t \in Internal : t \notin s.pending /\ t # s.at => FreeAt(levels[t], t)
  /\ s.at # 0 /\ ~s.left /\ Left[s.at] \notin Leaf => Free(levels[s.at], 1)
  /\ \A t \in s.pending \ s.whole : MarkedAt(levels[t], t, s.changed[t])
  /\ s.at # 0 /\ s.listed => MarkedAt(levels[s.at], s.at, s.changed[s.at])
  /\ s.at \notin s.pending

\* Twins, by the step the call is at.
TwinsTidy(d, step, sweep) ==
  /\ step = "sweeping" => SweepTidy(d.levels, sweep)
  /\ step \in {"swept", "leaves", "contracting", "finish"} => FreeOff(d, {})
  /\ step \notin {"sweeping", "swept", "leaves", "contracting", "finish"} => FreeOff(d, d.contract)

\* The polarities of leaves.
LeavesTidy(d, step, leaves) ==
  /\ step = "finish" => FoldedOff(d, {})
  /\ step = "contracting" => FoldedOff(d, leaves)
  /\ step \notin {"finish", "contracting"} => FoldedOff(d, d.leaves)

\* The sweep after the leaf pass finds nothing left to merge.
TidyAgain(d, step, rewrote) ==
  rewrote /\ step \in {"sweep", "sweeping", "swept"} => Best(d)

\* What each pass may rely on, and what the last of them leaves.
ShapedFor(d, h, plan, scope, step, old, rewrote) ==
  /\ Pruned(plan, step) => Trim(d)
  /\ step = "prune" => ~rewrote /\ (scope = "BelowRoot" => HasUnnamed(d) \subseteq Children(Root))
  /\ step = "complement" => h.certified /\ Complement(h).result = d /\ Complement(h).old = old
  /\ step = "done" /\ plan = "Full" => Best(d)

TidyFor(d, h, plan, scope, step, old, rewrote, leaves, sweep) ==
  /\ Listed(d) /\ Certain(d)
  /\ TwinsTidy(d, step, sweep) /\ LeavesTidy(d, step, leaves)
  /\ TidyAgain(d, step, rewrote) /\ ShapedFor(d, h, plan, scope, step, old, rewrote)

TidyCall(d, h, c) == TidyFor(d, h, c.plan, c.scope, c.step, c.old, c.rewrote, c.leaves, c.sweep)

TidyInv == /\ Kempt(held)
           /\ IF call = Idle THEN Kempt(work) ELSE TidyCall(work, held, call)

\* A call in flight, by its fields.
HasFields(c, plan, scope, step, old, rewrote, leaves, sweep) ==
  /\ Flight(c) /\ c # Idle
  /\ c.plan = plan /\ c.scope = scope /\ c.step = step /\ c.old = old
  /\ c.rewrote = rewrote /\ c.leaves = leaves /\ c.sweep = sweep

\* The fields of a call as it was put together.
LEMMA FieldsOf ==
  ASSUME NEW n, NEW k, NEW p, NEW sc, NEW st, NEW o, NEW r, NEW lv, NEW w
  PROVE  HasFields(InFlight(n, k, p, sc, st, o, r, lv, w), p, sc, st, o, r, lv, w)
<1> DEFINE e == InFlight(n, k, p, sc, st, o, r, lv, w)
<1>1. /\ e.name = n /\ e.ask = k /\ e.plan = p /\ e.scope = sc /\ e.step = st /\ e.old = o
      /\ e.rewrote = r /\ e.leaves = lv /\ e.sweep = w /\ e # Idle
  BY InFlightIs
<1>2. e = InFlight(n, k, p, sc, st, o, r, lv, w)
  OBVIOUS
<1> HIDE DEF e
<1>3. Flight(e)
  BY <1>1, <1>2 DEF Flight
<1>4. HasFields(e, p, sc, st, o, r, lv, w)
  BY <1>1, <1>3 DEF HasFields
<1> QED  BY <1>4 DEF e

\* The fields of a call one of which changes.
LEMMA FieldsMoved ==
  ASSUME NEW c, NEW p, NEW sc, NEW st, NEW o, NEW r, NEW lv, NEW w, HasFields(c, p, sc, st, o, r, lv, w), NEW x
  PROVE  /\ HasFields([c EXCEPT !.step = x], p, sc, x, o, r, lv, w)
         /\ HasFields([c EXCEPT !.leaves = x], p, sc, st, o, r, x, w)
         /\ HasFields([c EXCEPT !.rewrote = x], p, sc, st, o, x, lv, w)
         /\ HasFields([c EXCEPT !.sweep = x], p, sc, st, o, r, lv, x)
<1> DEFINE n == c.name
           k == c.ask
<1>1. c = InFlight(n, k, p, sc, st, o, r, lv, w)
  BY DEF HasFields, Flight
<1> HIDE DEF n, k
<1>2. [c EXCEPT !.step = x] = InFlight(n, k, p, sc, x, o, r, lv, w)
  BY <1>1, InFlightStep
<1>3. [c EXCEPT !.leaves = x] = InFlight(n, k, p, sc, st, o, r, x, w)
  BY <1>1, InFlightLeaves
<1>4. [c EXCEPT !.rewrote = x] = InFlight(n, k, p, sc, st, o, x, lv, w)
  BY <1>1, InFlightRewrote
<1>5. [c EXCEPT !.sweep = x] = InFlight(n, k, p, sc, st, o, r, lv, x)
  BY <1>1, InFlightSweep
<1> QED  BY <1>2, <1>3, <1>4, <1>5, FieldsOf

\* The call in flight, by its own fields.
LEMMA OwnFields ==
  ASSUME IInv, call # Idle
  PROVE  HasFields(call, call.plan, call.scope, call.step, call.old, call.rewrote, call.leaves, call.sweep)
BY DEF IInv, Ready, HasFields, Flight

\* What makes the next state tidy.
LEMMA TidyNext ==
  ASSUME TidyInv, held' = held, NEW p, NEW sc, NEW st, NEW o, NEW r, NEW lv, NEW w,
         HasFields(call', p, sc, st, o, r, lv, w), TidyFor(work', held, p, sc, st, o, r, lv, w)
  PROVE  TidyInv'
BY DEF TidyInv, TidyCall, HasFields

\* A refused call that leaves a tidy diagram.
LEMMA TidyRefused ==
  ASSUME TidyInv, NEW left, RefuseWith(left), Kempt(left)
  PROVE  TidyInv'
BY DEF TidyInv, RefuseWith

\* Diagrams with the same nodes.
LEMMA SameLevelsTidy ==
  ASSUME NEW d, NEW e, e.levels = d.levels, e.out = d.out
  PROVE  /\ HasUnnamed(e) = HasUnnamed(d) /\ (Trim(e) <=> Trim(d)) /\ (Best(e) <=> Best(d))
         /\ \A off : (FreeOff(e, off) <=> FreeOff(d, off)) /\ (FoldedOff(e, off) <=> FoldedOff(d, off))
BY DEF HasUnnamed, Trim, Best, FreeOff, FoldedOff

\* More levels off the lists ask for less.
LEMMA OffMore ==
  ASSUME NEW d, NEW off, NEW more, off \subseteq more
  PROVE  (FreeOff(d, off) => FreeOff(d, more)) /\ (FoldedOff(d, off) => FoldedOff(d, more))
BY DEF FreeOff, FoldedOff

\* Return.
LEMMA ReturnTidy == IInv /\ TidyInv /\ Return => TidyInv'
<1> SUFFICES ASSUME IInv, TidyInv, Return PROVE TidyInv'
  OBVIOUS
<1>1. call # Idle /\ call.step = "done" /\ held' = work /\ work' = work /\ call' = Idle
  BY DEF Return, At
<1>2. TidyCall(work, held, call)
  BY <1>1 DEF TidyInv
<1>3. Kempt(work)
  BY <1>1, <1>2 DEF TidyCall, TidyFor, TwinsTidy, LeavesTidy, Kempt
<1> QED  BY <1>1, <1>3 DEF TidyInv

\* PruneRefused and SweepRefused.
LEMMA EarlyRefusedTidy == IInv /\ TidyInv /\ (PruneRefused \/ SweepRefused) => TidyInv'
<1> SUFFICES ASSUME IInv, TidyInv, PruneRefused \/ SweepRefused PROVE TidyInv'
  OBVIOUS
<1>1. call # Idle /\ call.step \in {"prune", "sweep"} /\ RefuseWith(work)
  BY DEF PruneRefused, SweepRefused, At
<1>2. TidyCall(work, held, call)
  BY <1>1 DEF TidyInv
<1>3. Kempt(work)
  BY <1>1, <1>2 DEF TidyCall, TidyFor, TwinsTidy, LeavesTidy, Kempt
<1> QED  BY <1>1, <1>3, TidyRefused

\* A diagram without loose nodes has none to list.
LEMMA TrimListed ==
  ASSUME NEW d, Trim(d)
  PROVE  Listed(d)
BY DEF Trim, Listed

\* PrunePass.
LEMMA PrunePassTidy == IInv /\ TidyInv /\ PrunePass => TidyInv'
<1> SUFFICES ASSUME IInv, TidyInv, PrunePass PROVE TidyInv'
  OBVIOUS
<1> DEFINE below == call.scope = "BelowRoot"
           made == Prune(work, below)
           step == IF call.plan = "Prune" THEN "done" ELSE "sweep"
<1>1. /\ call # Idle /\ call.step = "prune" /\ held' = held
      /\ work' = made /\ call' = [call EXCEPT !.step = step] /\ Sound(work)
  BY DEF PrunePass, At, Goto, Stay, IInv
<1>2. TidyCall(work, held, call)
  BY <1>1 DEF TidyInv
<1>3. /\ FreeOff(work, work.contract) /\ FoldedOff(work, work.leaves) /\ Listed(work) /\ Certain(work)
      /\ ~call.rewrote /\ (below => HasUnnamed(work) \subseteq Children(Root))
  BY <1>1, <1>2 DEF TidyCall, TidyFor, TwinsTidy, LeavesTidy, ShapedFor
<1>4. step \in {"done", "sweep"} /\ (step = "done" => call.plan # "Full")
  OBVIOUS
<1> HIDE DEF below, step
<1>5. Tended(work, made)
  BY <1>1, <1>3, PruneTrims
<1> HIDE DEF made
<1>6. Trim(made) /\ FreeOff(made, made.contract) /\ FoldedOff(made, made.leaves) /\ Certain(made)
  BY <1>3, <1>5 DEF Tended, FreeOff, FoldedOff, Certain
<1>7. Listed(made)
  BY <1>6, TrimListed
<1>8. TidyFor(made, held, call.plan, call.scope, step, call.old, call.rewrote, call.leaves, call.sweep)
  <2>1. TwinsTidy(made, step, call.sweep) /\ LeavesTidy(made, step, call.leaves)
    BY <1>4, <1>6 DEF TwinsTidy, LeavesTidy
  <2>2. TidyAgain(made, step, call.rewrote)
    BY <1>3 DEF TidyAgain
  <2>3. ShapedFor(made, held, call.plan, call.scope, step, call.old, call.rewrote)
    BY <1>4, <1>6 DEF ShapedFor
  <2> QED  BY <1>6, <1>7, <2>1, <2>2, <2>3 DEF TidyFor
<1>9. HasFields(call', call.plan, call.scope, step, call.old, call.rewrote, call.leaves, call.sweep)
  BY <1>1, OwnFields, FieldsMoved
<1> QED  BY <1>1, <1>8, <1>9, TidyNext

\* A best diagram certified.
LEMMA CertifiedBest ==
  ASSUME NEW d, Best(d), Sound(d), OneRoot(d)
  PROVE  Best(Certified(d)) /\ Kempt(Certified(d))
<1> DEFINE none == {}
           yes == TRUE
<1>1. d = Diagram(d.levels, d.out, d.contract, d.leaves, d.loose, d.certified)
  BY SoundIs
<1>2. Certified(d).levels = d.levels /\ Certified(d).out = d.out
  BY <1>1 DEF Certified, Diagram
<1>3. Best(Certified(d))
  BY <1>2, SameLevelsTidy
<1> QED  BY <1>3, BestKempt

\* A best diagram at the end of a call.
LEMMA BestDone ==
  ASSUME NEW d, Best(d), NEW h, NEW plan, NEW scope, NEW old, NEW rewrote, NEW leaves, NEW sweep
  PROVE  TidyFor(d, h, plan, scope, "done", old, rewrote, leaves, sweep)
<1>1. Kempt(d)
  BY BestKempt
<1>2. TwinsTidy(d, "done", sweep) /\ LeavesTidy(d, "done", leaves)
  BY <1>1 DEF Kempt, TwinsTidy, LeavesTidy
<1>3. TidyAgain(d, "done", rewrote) /\ ShapedFor(d, h, plan, scope, "done", old, rewrote)
  BY DEF TidyAgain, ShapedFor, Pruned
<1> QED  BY <1>1, <1>2, <1>3 DEF TidyFor, Kempt

\* CertifyComplement.
LEMMA CertifyComplementTidy == IInv /\ Promised /\ TidyInv /\ CertifyComplement => TidyInv'
<1> SUFFICES ASSUME IInv, Promised, TidyInv, CertifyComplement PROVE TidyInv'
  OBVIOUS
<1> DEFINE pruned == IF call.old # 0 THEN PruneComplement(work, call.old) ELSE Prune(work, TRUE)
           both == Complement(held)
<1>1. /\ call # Idle /\ call.step = "complement" /\ held' = held
      /\ work' = Certified(pruned) /\ call' = [call EXCEPT !.step = "done"] /\ Sound(work) /\ Sound(held) /\ Ready(work, call)
  BY DEF CertifyComplement, At, Goto, Stay, IInv
<1>2. TidyCall(work, held, call) /\ Kempt(held) /\ NodesLive(held.levels)
  BY <1>1 DEF TidyInv, Promised
<1>3. held.certified /\ both.result = work /\ both.old = call.old
  BY <1>1, <1>2 DEF TidyCall, TidyFor, ShapedFor
<1>4. Best(pruned)
  <2>1. Best(IF both.old # 0 THEN PruneComplement(both.result, both.old) ELSE Prune(both.result, TRUE))
    BY <1>1, <1>2, <1>3, CertifiedComplement
  <2> HIDE DEF both
  <2> QED  BY <1>3, <2>1
<1>5. Sound(pruned) /\ OneRoot(pruned)
  <2>1. CASE call.old = 0
    <3>1. pruned = Prune(work, TRUE)
      BY <2>1
    <3> QED  BY <1>1, <3>1, PruneSound
  <2>2. CASE call.old # 0
    <3>1. Beside(work, call.old)
      BY <1>1, <2>2 DEF Ready, AsTheStep
    <3> QED  BY <1>1, <2>2, <3>1, PruneComplementSound
  <2> QED  BY <2>1, <2>2
<1> HIDE DEF pruned, both
<1> DEFINE made == Certified(pruned)
<1>6. Best(made)
  BY <1>4, <1>5, CertifiedBest
<1> HIDE DEF made
<1>7. TidyFor(made, held, call.plan, call.scope, "done", call.old, call.rewrote, call.leaves, call.sweep)
  BY <1>6, BestDone
<1>8. HasFields(call', call.plan, call.scope, "done", call.old, call.rewrote, call.leaves, call.sweep)
  BY <1>1, OwnFields, FieldsMoved
<1>9. work' = made
  BY <1>1 DEF made
<1> QED  BY <1>1, <1>7, <1>8, <1>9, TidyNext

\* AfterSweep.
LEMMA AfterSweepTidy == IInv /\ TidyInv /\ AfterSweep => TidyInv'
<1> SUFFICES ASSUME IInv, TidyInv, AfterSweep PROVE TidyInv'
  OBVIOUS
<1> DEFINE step == IF call.plan = "Contract" THEN "done" ELSE IF call.rewrote THEN "finish" ELSE "leaves"
<1>1. /\ call # Idle /\ call.step = "swept" /\ held' = held /\ work' = work /\ call' = [call EXCEPT !.step = step]
  BY DEF AfterSweep, At, Goto, Stay
<1>2. TidyCall(work, held, call)
  BY <1>1 DEF TidyInv
<1>3. /\ FreeOff(work, {}) /\ FoldedOff(work, work.leaves) /\ Listed(work) /\ Certain(work)
      /\ call.rewrote => Best(work)
      /\ call.plan # "Contract" => Trim(work)
  BY <1>1, <1>2 DEF TidyCall, TidyFor, TwinsTidy, LeavesTidy, ShapedFor, TidyAgain, Pruned
<1>4. FreeOff(work, work.contract)
  BY <1>3, OffMore
<1>5. /\ step \in {"done", "finish", "leaves"}
      /\ step = "done" <=> call.plan = "Contract"
      /\ step = "finish" => call.rewrote
  OBVIOUS
<1> HIDE DEF step
<1>6. TidyFor(work, held, call.plan, call.scope, step, call.old, call.rewrote, call.leaves, call.sweep)
  <2>1. TwinsTidy(work, step, call.sweep)
    BY <1>3, <1>4, <1>5 DEF TwinsTidy
  <2>2. LeavesTidy(work, step, call.leaves)
    BY <1>3, <1>5 DEF LeavesTidy, Best
  <2>3. TidyAgain(work, step, call.rewrote)
    BY <1>5 DEF TidyAgain
  <2>4. ShapedFor(work, held, call.plan, call.scope, step, call.old, call.rewrote)
    BY <1>3, <1>5 DEF ShapedFor, Pruned
  <2> QED  BY <1>3, <2>1, <2>2, <2>3, <2>4 DEF TidyFor
<1>7. HasFields(call', call.plan, call.scope, step, call.old, call.rewrote, call.leaves, call.sweep)
  BY <1>1, OwnFields, FieldsMoved
<1> QED  BY <1>1, <1>6, <1>7, TidyNext

\* A diagram with other worklists.
LEMMA Relisted ==
  ASSUME NEW d, Sound(d), NEW x
  PROVE  /\ LET e == [d EXCEPT !.contract = x]
            IN  e.levels = d.levels /\ e.out = d.out /\ e.contract = x /\ e.leaves = d.leaves /\ e.loose = d.loose /\ e.certified = d.certified
         /\ LET e == [d EXCEPT !.leaves = x]
            IN  e.levels = d.levels /\ e.out = d.out /\ e.contract = d.contract /\ e.leaves = x /\ e.loose = d.loose /\ e.certified = d.certified
<1>1. d = Diagram(d.levels, d.out, d.contract, d.leaves, d.loose, d.certified)
  BY SoundIs
<1> QED  BY <1>1 DEF Diagram

\* Relisting keeps what does not depend on the worklists.
LEMMA RelistedTidy ==
  ASSUME NEW d, NEW e, e.levels = d.levels, e.out = d.out, e.loose = d.loose, e.certified = d.certified
  PROVE  /\ Listed(d) => Listed(e)
         /\ Certain(d) => Certain(e)
<1>1. HasUnnamed(e) = HasUnnamed(d) /\ (Best(e) <=> Best(d))
  BY SameLevelsTidy
<1> QED  BY <1>1 DEF Listed, Certain

\* Finish.
LEMMA FinishTidy == IInv /\ TidyInv /\ Finish => TidyInv'
<1> SUFFICES ASSUME IInv, TidyInv, Finish PROVE TidyInv'
  OBVIOUS
<1> DEFINE bare == [work EXCEPT !.loose = {}]
           made == IF call.scope = "Whole" THEN Certified(work) ELSE bare
<1>1. /\ call # Idle /\ call.step = "finish" /\ held' = held
      /\ work' = made /\ call' = [call EXCEPT !.step = "done"] /\ Sound(work) /\ Ready(work, call)
  BY DEF Finish, Goto, Stay, At, IInv
<1>2. TidyCall(work, held, call)
  BY <1>1 DEF TidyInv
<1>3. Best(work)
  BY <1>1, <1>2 DEF TidyCall, TidyFor, TwinsTidy, LeavesTidy, ShapedFor, Pruned, Best
<1>4. OneRoot(work)
  BY <1>1 DEF Ready, AsTheStep, Pruned
<1>5. Best(Certified(work))
  BY <1>1, <1>3, <1>4, CertifiedBest
<1>6. Best(bare)
  <2>1. bare.levels = work.levels /\ bare.out = work.out
    BY <1>1, WithoutLoose
  <2> HIDE DEF bare
  <2> QED  BY <1>3, <2>1, SameLevelsTidy
<1>7. Best(made)
  BY <1>5, <1>6
<1> HIDE DEF made
<1>8. TidyFor(made, held, call.plan, call.scope, "done", call.old, call.rewrote, call.leaves, call.sweep)
  BY <1>7, BestDone
<1>9. HasFields(call', call.plan, call.scope, "done", call.old, call.rewrote, call.leaves, call.sweep)
  BY <1>1, OwnFields, FieldsMoved
<1> QED  BY <1>1, <1>8, <1>9, TidyNext

\* LeavesEnd.
LEMMA LeavesEndTidy == IInv /\ TidyInv /\ LeavesEnd => TidyInv'
<1> SUFFICES ASSUME IInv, TidyInv, LeavesEnd PROVE TidyInv'
  OBVIOUS
<1> DEFINE step == IF call.rewrote THEN "sweep" ELSE "finish"
<1>1. /\ call # Idle /\ call.step = "contracting" /\ held' = held /\ work' = work /\ call' = [call EXCEPT !.step = step]
      /\ call.leaves = {}
  BY DEF LeavesEnd, At, Goto, Stay
<1>2. TidyCall(work, held, call)
  BY <1>1 DEF TidyInv
<1>3. FreeOff(work, {}) /\ FoldedOff(work, {}) /\ Listed(work) /\ Certain(work) /\ Trim(work)
  BY <1>1, <1>2 DEF TidyCall, TidyFor, TwinsTidy, LeavesTidy, ShapedFor, Pruned
<1>4. FreeOff(work, work.contract) /\ FoldedOff(work, work.leaves) /\ Best(work)
  BY <1>3, OffMore DEF Best
<1>5. step \in {"sweep", "finish"}
  OBVIOUS
<1> HIDE DEF step
<1>6. TidyFor(work, held, call.plan, call.scope, step, call.old, call.rewrote, call.leaves, call.sweep)
  <2>1. TwinsTidy(work, step, call.sweep) /\ LeavesTidy(work, step, call.leaves) /\ TidyAgain(work, step, call.rewrote)
    BY <1>3, <1>4, <1>5 DEF TwinsTidy, LeavesTidy, TidyAgain
  <2>2. ShapedFor(work, held, call.plan, call.scope, step, call.old, call.rewrote)
    BY <1>3, <1>5 DEF ShapedFor
  <2> QED  BY <1>3, <2>1, <2>2 DEF TidyFor
<1>7. HasFields(call', call.plan, call.scope, step, call.old, call.rewrote, call.leaves, call.sweep)
  BY <1>1, OwnFields, FieldsMoved
<1> QED  BY <1>1, <1>6, <1>7, TidyNext

\* LeavesStart.
LEMMA LeavesStartTidy == IInv /\ TidyInv /\ LeavesStart => TidyInv'
<1> SUFFICES ASSUME IInv, TidyInv, LeavesStart PROVE TidyInv'
  OBVIOUS
<1> DEFINE none == {}
           made == [work EXCEPT !.leaves = none]
           step == IF work.leaves = {} THEN "finish" ELSE "contracting"
           lv   == work.leaves
           one  == [call EXCEPT !.step = step]
<1>1. /\ call # Idle /\ call.step = "leaves" /\ held' = held /\ work' = made
      /\ call' = [call EXCEPT !.step = step, !.leaves = lv] /\ Sound(work)
  BY DEF LeavesStart, At, Stay, IInv
<1>2. TidyCall(work, held, call)
  BY <1>1 DEF TidyInv
<1>3. FreeOff(work, {}) /\ FoldedOff(work, lv) /\ Listed(work) /\ Certain(work) /\ Trim(work)
  BY <1>1, <1>2 DEF TidyCall, TidyFor, TwinsTidy, LeavesTidy, ShapedFor, Pruned
<1>4. step \in {"contracting", "finish"} /\ (step = "finish" => lv = {})
  OBVIOUS
<1>5. call' = [one EXCEPT !.leaves = lv]
  BY <1>1
<1> HIDE DEF none, step, lv
<1>6. made.levels = work.levels /\ made.out = work.out /\ made.loose = work.loose /\ made.certified = work.certified
  BY <1>1, Relisted
<1> HIDE DEF made
<1>7. FreeOff(made, {}) /\ FoldedOff(made, lv) /\ Listed(made) /\ Certain(made) /\ Trim(made)
  BY <1>3, <1>6, RelistedTidy, SameLevelsTidy
<1>8. TidyFor(made, held, call.plan, call.scope, step, call.old, call.rewrote, lv, call.sweep)
  <2>1. TwinsTidy(made, step, call.sweep) /\ LeavesTidy(made, step, lv) /\ TidyAgain(made, step, call.rewrote)
    BY <1>4, <1>7 DEF TwinsTidy, LeavesTidy, TidyAgain
  <2>2. ShapedFor(made, held, call.plan, call.scope, step, call.old, call.rewrote)
    BY <1>4, <1>7 DEF ShapedFor
  <2> QED  BY <1>7, <2>1, <2>2 DEF TidyFor
<1>9. HasFields(one, call.plan, call.scope, step, call.old, call.rewrote, call.leaves, call.sweep)
  BY <1>1, OwnFields, FieldsMoved
<1> HIDE DEF one
<1>10. HasFields(call', call.plan, call.scope, step, call.old, call.rewrote, lv, call.sweep)
  BY <1>5, <1>9, FieldsMoved
<1> QED  BY <1>1, <1>8, <1>10, TidyNext

\* LeafLevel.
LEMMA LeafLevelTidy == IInv /\ TidyInv /\ LeafLevel => TidyInv'
<1> SUFFICES ASSUME IInv, TidyInv, LeafLevel PROVE TidyInv'
  OBVIOUS
<1> DEFINE made == ContractLeafSides(work, NextLeaf)
           lv   == call.leaves \ {NextLeaf}
           r    == call.rewrote \/ work'.levels # work.levels
           one  == [call EXCEPT !.leaves = lv]
<1>1. /\ call # Idle /\ call.step = "contracting" /\ held' = held /\ work' = made
      /\ call' = [call EXCEPT !.leaves = lv, !.rewrote = r] /\ Sound(work) /\ Ready(work, call) /\ call.leaves # {}
  BY DEF LeafLevel, At, Stay, IInv
<1>2. TidyCall(work, held, call)
  BY <1>1 DEF TidyInv
<1>3. FreeOff(work, {}) /\ FoldedOff(work, call.leaves) /\ Listed(work) /\ Certain(work) /\ Trim(work)
  BY <1>1, <1>2 DEF TidyCall, TidyFor, TwinsTidy, LeavesTidy, ShapedFor, Pruned
<1>4. NextLeaf \in Internal
  BY <1>1, NextLeafIs DEF Ready, CallTyped
<1>5. Trim(made) /\ Listed(made) /\ Certain(made) /\ FreeOff(made, {}) /\ FoldedOff(made, lv)
  BY <1>1, <1>3, <1>4, FoldsKeep
<1>6. call' = [one EXCEPT !.rewrote = r]
  BY <1>1
<1> HIDE DEF made, lv, r
<1> DEFINE step == "contracting"
<1>7. step = "contracting"
  OBVIOUS
<1> HIDE DEF step
<1>8. TidyFor(made, held, call.plan, call.scope, step, call.old, r, lv, call.sweep)
  <2>1. TwinsTidy(made, step, call.sweep) /\ LeavesTidy(made, step, lv) /\ TidyAgain(made, step, r)
    BY <1>5, <1>7 DEF TwinsTidy, LeavesTidy, TidyAgain
  <2>2. ShapedFor(made, held, call.plan, call.scope, step, call.old, r)
    BY <1>5, <1>7 DEF ShapedFor
  <2> QED  BY <1>5, <2>1, <2>2 DEF TidyFor
<1>9. HasFields(one, call.plan, call.scope, step, call.old, call.rewrote, lv, call.sweep)
  <2>1. HasFields(call, call.plan, call.scope, step, call.old, call.rewrote, call.leaves, call.sweep)
    BY <1>1, <1>7, OwnFields
  <2> QED  BY <2>1, FieldsMoved
<1> HIDE DEF one
<1>10. HasFields(call', call.plan, call.scope, step, call.old, r, lv, call.sweep)
  BY <1>6, <1>9, FieldsMoved
<1> QED  BY <1>1, <1>8, <1>10, TidyNext

\* LeafRefused: the levels still to do go back on their list.
LEMMA LeafRefusedTidy == IInv /\ TidyInv /\ LeafRefused => TidyInv'
<1> SUFFICES ASSUME IInv, TidyInv, LeafRefused PROVE TidyInv'
  OBVIOUS
<1>1. call # Idle /\ call.step = "contracting" /\ Sound(work) /\ Ready(work, call) /\ call.leaves # {}
  BY DEF LeafRefused, At, IInv
<1>2. TidyCall(work, held, call)
  BY <1>1 DEF TidyInv
<1>3. FreeOff(work, {}) /\ FoldedOff(work, call.leaves) /\ Listed(work) /\ Certain(work) /\ Trim(work)
  BY <1>1, <1>2 DEF TidyCall, TidyFor, TwinsTidy, LeavesTidy, ShapedFor, Pruned
<1>4. NextLeaf \in Internal /\ NextLeaf \in call.leaves
  BY <1>1, NextLeafIs DEF Ready, CallTyped
<1>5. PICK d : /\ d = work \/ (Left[NextLeaf] \in Leaf /\ d = ContractLeaf(work, Left[NextLeaf]))
               /\ RefuseWith([d EXCEPT !.leaves = @ \cup LeafQueue])
  BY DEF LeafRefused
<1>6. Sound(d)
  BY <1>1, <1>4, <1>5, ContractLeafSound DEF Children
<1>7. FreeOff(d, {}) /\ FoldedOff(d, call.leaves) /\ Listed(d) /\ Certain(d)
  <2>1. CASE d = work
    BY <1>3, <2>1
  <2>2. CASE Left[NextLeaf] \in Leaf /\ d = ContractLeaf(work, Left[NextLeaf])
    <3> DEFINE c == Left[NextLeaf]
    <3>1. c \in Children(NextLeaf) /\ c \in Leaf /\ d = ContractLeaf(work, c)
      BY <2>2 DEF Children
    <3> HIDE DEF c
    <3>2. /\ Listed(d) /\ Certain(d)
          /\ \A u \in Internal \ {NextLeaf} : d.levels[u] = work.levels[u]
          /\ FreeAt(work.levels[NextLeaf], NextLeaf) => FreeAt(d.levels[NextLeaf], NextLeaf)
      BY <1>1, <1>3, <1>4, <3>1, FoldKeeps
    <3>3. \A t \in Internal : FreeAt(d.levels[t], t)
      BY <1>3, <1>4, <3>2 DEF FreeOff
    <3>4. \A t \in Internal : t \notin call.leaves => FoldedAt(d.levels[t], t)
      BY <1>3, <1>4, <3>2 DEF FoldedOff
    <3> QED  BY <3>2, <3>3, <3>4 DEF FreeOff, FoldedOff
  <2> QED  BY <1>5, <2>1, <2>2
<1> DEFINE x == d.leaves \cup LeafQueue
           left == [d EXCEPT !.leaves = x]
<1>8. RefuseWith(left)
  BY <1>5
<1>9. call.leaves \subseteq x
  BY DEF LeafQueue
<1> HIDE DEF x
<1>10. /\ left.levels = d.levels /\ left.out = d.out /\ left.contract = d.contract /\ left.leaves = x
       /\ left.loose = d.loose /\ left.certified = d.certified
  BY <1>6, Relisted
<1> HIDE DEF left
<1>11. FreeOff(left, {}) /\ FoldedOff(left, call.leaves) /\ Listed(left) /\ Certain(left)
  BY <1>7, <1>10, RelistedTidy, SameLevelsTidy
<1>12. FreeOff(left, left.contract) /\ FoldedOff(left, left.leaves)
  BY <1>9, <1>10, <1>11, OffMore
<1>13. Kempt(left)
  BY <1>11, <1>12 DEF Kempt
<1> QED  BY <1>8, <1>13, TidyRefused

\* What a caller hands in.
LEMMA OperandKempt == \A d \in Operand : Kempt(d)
<1> SUFFICES ASSUME NEW d \in Operand PROVE Kempt(d)
  OBVIOUS
<1>1. Sound(d)
  BY OperandSound
<1>2. /\ Canonical(d) <=> Best(d)
      /\ \A t \in Internal : /\ TwinFreeAt(d.levels, t) <=> FreeAt(d.levels[t], t)
                             /\ LeafTwinFreeAt(d.levels, t) <=> FoldedAt(d.levels[t], t)
  BY <1>1, CanonicalIs
<1>3. Tidy(d)
  BY OperandAssumption
<1> QED  BY <1>2, <1>3 DEF Kempt, Tidy, FreeOff, FoldedOff, Listed, Certain

\* A call begun on a tidy diagram.
LEMMA BeginTidy ==
  ASSUME TidyInv, NEW ask, NEW plan, NEW scope, NEW step, NEW old, NEW diagram,
         Begin(ask, plan, scope, step, old, diagram), Kempt(diagram),
         step \in {"done", "prune", "sweep", "complement"},
         ShapedFor(diagram, held, plan, scope, step, old, FALSE)
  PROVE  TidyInv'
<1> DEFINE no == FALSE
           none == {}
           name == ask.name
           made == InFlight(name, ask, plan, scope, step, old, no, none, NotSweeping)
<1>1. call' = made /\ work' = diagram /\ held' = held
  BY DEF Begin, InFlight
<1>2. ~no /\ ShapedFor(diagram, held, plan, scope, step, old, no)
  OBVIOUS
<1> HIDE DEF no, none, name
<1>3. HasFields(made, plan, scope, step, old, no, none, NotSweeping)
  BY FieldsOf
<1> HIDE DEF made
<1>4. TwinsTidy(diagram, step, NotSweeping) /\ LeavesTidy(diagram, step, none)
  BY DEF TwinsTidy, LeavesTidy, Kempt
<1>5. TidyAgain(diagram, step, no)
  BY <1>2 DEF TidyAgain
<1>6. TidyFor(diagram, held, plan, scope, step, old, no, none, NotSweeping)
  BY <1>2, <1>4, <1>5 DEF TidyFor, Kempt
<1> QED  BY <1>1, <1>3, <1>6, TidyNext

\* Where a reduction starts, on a tidy diagram.
LEMMA FirstStepTidy ==
  ASSUME NEW plan, NEW d, Kempt(d), NEW h, NEW scope, NEW old,
         scope = "BelowRoot" /\ plan # "Contract" => HasUnnamed(d) \subseteq Children(Root)
  PROVE  /\ ShapedFor(d, h, plan, scope, FirstStep(plan, d), old, FALSE)
         /\ FirstStep(plan, d) \in {"done", "prune", "sweep"}
<1>1. CASE plan = "Contract"
  <2>1. FirstStep(plan, d) = "sweep"
    BY <1>1 DEF FirstStep
  <2> DEFINE step == "sweep"
  <2>2. ShapedFor(d, h, plan, scope, step, old, FALSE)
    BY <1>1 DEF ShapedFor, Pruned
  <2> QED  BY <2>1, <2>2
<1>2. CASE plan # "Contract"
  <2>1. \/ FirstStep(plan, d) = "prune"
        \/ FirstStep(plan, d) = "done" /\ d.certified
    BY <1>2 DEF FirstStep
  <2>2. d.certified => Best(d)
    BY DEF Kempt, Certain
  <2>3. ShapedFor(d, h, plan, scope, "prune", old, FALSE)
    BY <1>2 DEF ShapedFor, Pruned
  <2>4. d.certified => ShapedFor(d, h, plan, scope, "done", old, FALSE)
    BY <2>2 DEF ShapedFor, Pruned
  <2> QED  BY <2>1, <2>3, <2>4
<1> QED  BY <1>1, <1>2

\* Nothing is asked of a call without a plan.
LEMMA NoPlanTidy ==
  ASSUME NEW d, NEW h, NEW old
  PROVE  ShapedFor(d, h, "none", "none", "done", old, FALSE)
BY DEF ShapedFor, Pruned

\* Load.
LEMMA LoadTidy == IInv /\ TidyInv /\ Load => TidyInv'
<1> SUFFICES ASSUME IInv, TidyInv, Load PROVE TidyInv'
  OBVIOUS
<1>1. PICK d \in Operand : Begin([name |-> "load", operand |-> d], "none", "none", "done", 0, d)
  BY DEF Load
<1> DEFINE ask == [name |-> "load", operand |-> d]
<1> HIDE DEF ask
<1>2. Begin(ask, "none", "none", "done", 0, d)
  BY <1>1 DEF ask
<1>3. Kempt(d)
  BY OperandKempt
<1> QED  BY <1>2, <1>3, BeginTidy, NoPlanTidy

\* And.
LEMMA AndTidy == IInv /\ TidyInv /\ And => TidyInv'
<1> SUFFICES ASSUME IInv, TidyInv, And PROVE TidyInv'
  OBVIOUS
<1>1. PICK d \in Operand : \E made \in Conjunctions(held, d) :
        Begin([name |-> "and", operand |-> d], "none", "none", "done", 0, made)
  BY DEF And
<1> DEFINE ask == [name |-> "and", operand |-> d]
<1> HIDE DEF ask
<1>2. PICK made : made \in Conjunctions(held, d) /\ Begin(ask, "none", "none", "done", 0, made)
  BY <1>1 DEF ask
<1>3. Kempt(made)
  BY <1>2, OperandKempt, OperandSound, ConjunctionsKempt DEF IInv, TidyInv
<1> QED  BY <1>2, <1>3, BeginTidy, NoPlanTidy

\* Minimize.
LEMMA MinimizeTidy == IInv /\ TidyInv /\ Minimize => TidyInv'
<1> SUFFICES ASSUME IInv, TidyInv, Minimize PROVE TidyInv'
  OBVIOUS
<1>1. PICK plan \in Plans : Begin([name |-> "minimize"], plan, "Whole", FirstStep(plan, held), 0, held)
  BY DEF Minimize
<1> DEFINE ask == [name |-> "minimize"]
           step == FirstStep(plan, held)
<1>2. Begin(ask, plan, "Whole", step, 0, held)
  BY <1>1
<1>3. Kempt(held)
  BY DEF TidyInv
<1>4. ShapedFor(held, held, plan, "Whole", step, 0, FALSE) /\ step \in {"done", "prune", "sweep"}
  <2> DEFINE scope == "Whole"
  <2>1. scope # "BelowRoot"
    OBVIOUS
  <2> HIDE DEF scope
  <2>2. /\ ShapedFor(held, held, plan, scope, FirstStep(plan, held), 0, FALSE)
        /\ FirstStep(plan, held) \in {"done", "prune", "sweep"}
    BY <1>3, <2>1, FirstStepTidy
  <2> QED  BY <2>2 DEF scope
<1> HIDE DEF ask, step
<1> QED  BY <1>2, <1>3, <1>4, BeginTidy

\* Negate.
LEMMA NegateTidy == IInv /\ Promised /\ TidyInv /\ Negate => TidyInv'
<1> SUFFICES ASSUME IInv, Promised, TidyInv, Negate PROVE TidyInv'
  OBVIOUS
<1> DEFINE made == Complement(held)
           d    == made.result
           old  == made.old
           ask  == [name |-> "negate"]
           scope == "BelowRoot"
<1>1. PICK plan \in Plans :
        Begin(ask, plan, scope, IF Certifies(held, plan) THEN "complement" ELSE FirstStep(plan, d), old, d)
  BY DEF Negate
<1>2. /\ Kempt(d)
      /\ old = 0 => Best(d)
      /\ old # 0 => HasUnnamed(d) \subseteq Children(Root)
  BY ComplementKempt DEF IInv, Promised, TidyInv
<1>3. Complement(held).result = d /\ Complement(held).old = old
  OBVIOUS
<1> HIDE DEF made, d, old, ask, scope
<1>4. HasUnnamed(d) \subseteq Children(Root)
  BY <1>2 DEF Best, Trim
<1> DEFINE step == IF Certifies(held, plan) THEN "complement" ELSE FirstStep(plan, d)
<1>5. Begin(ask, plan, scope, step, old, d)
  BY <1>1
<1>6. ShapedFor(d, held, plan, scope, step, old, FALSE) /\ step \in {"done", "prune", "sweep", "complement"}
  <2>1. CASE Certifies(held, plan)
    <3>1. held.certified /\ step = "complement"
      BY <2>1 DEF Certifies
    <3> HIDE DEF step
    <3>2. ShapedFor(d, held, plan, scope, step, old, FALSE)
      BY <1>3, <3>1 DEF ShapedFor, Pruned
    <3> QED  BY <3>1, <3>2
  <2>2. CASE ~Certifies(held, plan)
    <3>1. step = FirstStep(plan, d)
      BY <2>2
    <3>2. ShapedFor(d, held, plan, scope, FirstStep(plan, d), old, FALSE) /\ FirstStep(plan, d) \in {"done", "prune", "sweep"}
      BY <1>2, <1>4, FirstStepTidy
    <3> HIDE DEF step
    <3> QED  BY <3>1, <3>2
  <2> QED  BY <2>1, <2>2
<1> HIDE DEF step
<1> QED  BY <1>2, <1>5, <1>6, BeginTidy

\* ConditionOn.
LEMMA ConditionTidy == IInv /\ TidyInv /\ ConditionOn => TidyInv'
<1> SUFFICES ASSUME IInv, TidyInv, ConditionOn PROVE TidyInv'
  OBVIOUS
<1>1. PICK c \in Leaf, value \in BOOLEAN :
        LET cut == Condition(held, c, value)
            ask == [name |-> "condition", var |-> c, value |-> value]
        IN  IF held.out = Zero THEN Begin(ask, "none", "none", "done", 0, held)
            ELSE Begin(ask, "Full", "Whole", FirstStep("Full", cut), 0, cut)
  BY DEF ConditionOn
<1> DEFINE cut == Condition(held, c, value)
           ask == [name |-> "condition", var |-> c, value |-> value]
           plan == "Full"
           scope == "Whole"
           step == FirstStep(plan, cut)
<1>2. \/ Begin(ask, "none", "none", "done", 0, held)
      \/ Begin(ask, plan, scope, step, 0, cut)
  BY <1>1
<1>3. Kempt(cut) /\ Kempt(held)
  BY ConditionKempt DEF IInv, TidyInv
<1>4. scope # "BelowRoot"
  OBVIOUS
<1> HIDE DEF cut, ask, plan, scope
<1>5. ShapedFor(cut, held, plan, scope, step, 0, FALSE) /\ step \in {"done", "prune", "sweep"}
  BY <1>3, <1>4, FirstStepTidy
<1> HIDE DEF step
<1>6. CASE Begin(ask, "none", "none", "done", 0, held)
  BY <1>3, <1>6, BeginTidy, NoPlanTidy
<1>7. CASE Begin(ask, plan, scope, step, 0, cut)
  BY <1>3, <1>5, <1>7, BeginTidy
<1> QED  BY <1>2, <1>6, <1>7

\* A sweep that stops gives its parents back.
LEMMA GivenBackKempt ==
  ASSUME IInv, TidyInv, At("sweeping")
  PROVE  Kempt(GivenBack(work))
<1> DEFINE x == work.contract \cup Sweeps.pending \cup (IF Sweeps.at = 0 THEN {} ELSE {Sweeps.at})
           left == [work EXCEPT !.contract = x]
<1>1. call # Idle /\ call.step = "sweeping" /\ Sound(work)
  BY DEF At, IInv
<1>2. TidyCall(work, held, call)
  BY <1>1 DEF TidyInv
<1>3. SweepTidy(work.levels, call.sweep) /\ FoldedOff(work, work.leaves) /\ Listed(work) /\ Certain(work)
  BY <1>1, <1>2 DEF TidyCall, TidyFor, TwinsTidy, LeavesTidy
<1>4. GivenBack(work) = left
  BY DEF GivenBack
<1>5. \A t \in Internal : t \notin x => t \notin call.sweep.pending /\ t # call.sweep.at
  <2>1. 0 \notin Internal
    BY InternalIs
  <2> QED  BY <2>1 DEF Sweeps
<1> HIDE DEF x
<1>6. /\ left.levels = work.levels /\ left.out = work.out /\ left.contract = x /\ left.leaves = work.leaves
      /\ left.loose = work.loose /\ left.certified = work.certified
  BY <1>1, Relisted
<1> HIDE DEF left
<1>7. FoldedOff(left, left.leaves) /\ Listed(left) /\ Certain(left)
  BY <1>3, <1>6, RelistedTidy, SameLevelsTidy
<1>8. FreeOff(left, left.contract)
  BY <1>3, <1>5, <1>6 DEF SweepTidy, FreeOff
<1>9. Kempt(left)
  BY <1>7, <1>8 DEF Kempt
<1> QED  BY <1>4, <1>9

\* SweepStopped and ContractRefused.
LEMMA SweepRefusalsTidy == IInv /\ TidyInv /\ (SweepStopped \/ ContractRefused) => TidyInv'
<1> SUFFICES ASSUME IInv, TidyInv, SweepStopped \/ ContractRefused PROVE TidyInv'
  OBVIOUS
<1>1. At("sweeping") /\ RefuseWith(GivenBack(work))
  BY DEF SweepStopped, ContractRefused, Searching
<1>2. Kempt(GivenBack(work))
  BY <1>1, GivenBackKempt
<1> QED  BY <1>1, <1>2, TidyRefused

\* SweepStart: the parents that could hold twins are pending, and searched whole.
LEMMA SweepStartTidy == IInv /\ TidyInv /\ SweepStart => TidyInv'
<1> SUFFICES ASSUME IInv, TidyInv, SweepStart PROVE TidyInv'
  OBVIOUS
<1> DEFINE none == {}
           zero == 0
           yes  == TRUE
           no   == FALSE
           ch   == [t \in Leaf \cup Internal |-> {}]
           made == [work EXCEPT !.contract = none]
           step == IF work.contract = {} THEN "swept" ELSE "sweeping"
           p    == {q \in work.contract : MultiPair(work.levels, q)}
           w    == work.contract
           s0   == Working(none, none, ch, zero, yes, no)
           s1   == [s0 EXCEPT !.pending = p]
           s    == [s1 EXCEPT !.whole = w]
           c1   == [call EXCEPT !.step = step]
<1>1. /\ call # Idle /\ call.step = "sweep" /\ held' = held /\ work' = made /\ Sound(work)
  BY DEF SweepStart, Stay, At, IInv
<1>2. call' = [c1 EXCEPT !.sweep = s]
  BY DEF SweepStart, NotSweeping, Working
<1>3. TidyCall(work, held, call)
  BY <1>1 DEF TidyInv
<1>4. /\ FreeOff(work, w) /\ FoldedOff(work, work.leaves) /\ Listed(work) /\ Certain(work)
      /\ call.rewrote => Best(work)
      /\ call.plan # "Contract" => Trim(work)
  BY <1>1, <1>3 DEF TidyCall, TidyFor, TwinsTidy, LeavesTidy, ShapedFor, TidyAgain, Pruned
<1>5. step \in {"swept", "sweeping"} /\ (step = "swept" => w = {})
  OBVIOUS
<1>6. zero = 0 /\ yes /\ ~no /\ p \subseteq w
  OBVIOUS
<1>7. \A t \in Internal : t \notin p => FreeAt(work.levels[t], t)
  <2>1. InRange(work.levels)
    BY <1>1, SoundIs
  <2> QED  BY <1>4, <2>1, SingleFree DEF FreeOff
<1>p. 0 \notin p
  <2>1. p \subseteq Internal
    BY <1>1, SoundIs
  <2> QED  BY <2>1, InternalIs
<1> HIDE DEF none, zero, yes, no, ch, step, p, w
<1>8. s1 = Working(p, none, ch, zero, yes, no)
  BY WorkingWith
<1> HIDE DEF s0, s1
<1>9. s = Working(p, w, ch, zero, yes, no)
  BY <1>8, WorkingWith
<1> HIDE DEF s
<1>10. s.pending = p /\ s.whole = w /\ s.at = zero /\ s.left = yes /\ s.listed = no
  BY <1>9, WorkingIs
<1>11. /\ made.levels = work.levels /\ made.out = work.out /\ made.leaves = work.leaves
       /\ made.loose = work.loose /\ made.certified = work.certified
  BY <1>1, Relisted
<1> HIDE DEF made
<1>12. SweepTidy(made.levels, s)
  <2>1. s.at = 0 /\ s.pending \ s.whole = {}
    BY <1>6, <1>10
  <2>2. s.at \notin s.pending
    BY <1>6, <1>10, <1>p
  <2> QED  BY <1>7, <1>10, <1>11, <2>1, <2>2 DEF SweepTidy
<1>13. FoldedOff(made, made.leaves) /\ Listed(made) /\ Certain(made) /\ FreeOff(made, w)
       /\ (call.rewrote => Best(made)) /\ (call.plan # "Contract" => Trim(made))
  BY <1>4, <1>11, RelistedTidy, SameLevelsTidy
<1>14. TidyFor(made, held, call.plan, call.scope, step, call.old, call.rewrote, call.leaves, s)
  <2>1. TwinsTidy(made, step, s)
    BY <1>5, <1>12, <1>13 DEF TwinsTidy
  <2>2. LeavesTidy(made, step, call.leaves) /\ TidyAgain(made, step, call.rewrote)
    BY <1>5, <1>13 DEF LeavesTidy, TidyAgain
  <2>3. ShapedFor(made, held, call.plan, call.scope, step, call.old, call.rewrote)
    BY <1>5, <1>13 DEF ShapedFor, Pruned
  <2> QED  BY <1>13, <2>1, <2>2, <2>3 DEF TidyFor
<1>15. HasFields(c1, call.plan, call.scope, step, call.old, call.rewrote, call.leaves, call.sweep)
  BY <1>1, OwnFields, FieldsMoved
<1> HIDE DEF c1
<1>16. HasFields(call', call.plan, call.scope, step, call.old, call.rewrote, call.leaves, s)
  BY <1>2, <1>15, FieldsMoved
<1> QED  BY <1>1, <1>14, <1>16, TidyNext

\* SweepEnd: nothing is pending, so nothing is owed.
LEMMA SweepEndTidy == IInv /\ TidyInv /\ SweepEnd => TidyInv'
<1> SUFFICES ASSUME IInv, TidyInv, SweepEnd PROVE TidyInv'
  OBVIOUS
<1> DEFINE none == {}
           made == [work EXCEPT !.contract = none]
           step == "swept"
           c1   == [call EXCEPT !.step = step]
<1>1. /\ call # Idle /\ call.step = "sweeping" /\ held' = held /\ work' = made /\ Sound(work)
      /\ call.sweep.at = 0 /\ call.sweep.pending = {}
  BY DEF SweepEnd, Stay, At, IInv, Sweeps
<1>2. call' = [c1 EXCEPT !.sweep = NotSweeping]
  BY DEF SweepEnd
<1>3. TidyCall(work, held, call)
  BY <1>1 DEF TidyInv
<1>4. /\ SweepTidy(work.levels, call.sweep) /\ FoldedOff(work, work.leaves) /\ Listed(work) /\ Certain(work)
      /\ call.rewrote => Best(work)
      /\ call.plan # "Contract" => Trim(work)
  BY <1>1, <1>3 DEF TidyCall, TidyFor, TwinsTidy, LeavesTidy, ShapedFor, TidyAgain, Pruned
<1>5. FreeOff(work, {})
  <2>1. 0 \notin Internal
    BY InternalIs
  <2> QED  BY <1>1, <1>4, <2>1 DEF SweepTidy, FreeOff
<1>6. step = "swept"
  OBVIOUS
<1> HIDE DEF none, step
<1>7. /\ made.levels = work.levels /\ made.out = work.out /\ made.leaves = work.leaves
      /\ made.loose = work.loose /\ made.certified = work.certified
  BY <1>1, Relisted
<1> HIDE DEF made
<1>8. FreeOff(made, {}) /\ FoldedOff(made, made.leaves) /\ Listed(made) /\ Certain(made)
      /\ (call.rewrote => Best(made)) /\ (call.plan # "Contract" => Trim(made))
  BY <1>4, <1>5, <1>7, RelistedTidy, SameLevelsTidy
<1>9. TidyFor(made, held, call.plan, call.scope, step, call.old, call.rewrote, call.leaves, NotSweeping)
  <2>1. TwinsTidy(made, step, NotSweeping) /\ LeavesTidy(made, step, call.leaves) /\ TidyAgain(made, step, call.rewrote)
    BY <1>6, <1>8 DEF TwinsTidy, LeavesTidy, TidyAgain
  <2>2. ShapedFor(made, held, call.plan, call.scope, step, call.old, call.rewrote)
    BY <1>6, <1>8 DEF ShapedFor, Pruned
  <2> QED  BY <1>8, <2>1, <2>2 DEF TidyFor
<1>10. HasFields(c1, call.plan, call.scope, step, call.old, call.rewrote, call.leaves, call.sweep)
  BY <1>1, OwnFields, FieldsMoved
<1> HIDE DEF c1
<1>11. HasFields(call', call.plan, call.scope, step, call.old, call.rewrote, call.leaves, NotSweeping)
  BY <1>2, <1>10, FieldsMoved
<1> QED  BY <1>1, <1>9, <1>11, TidyNext

\* PopParent: one without a pair to merge over owes nothing.
LEMMA PopParentTidy == IInv /\ TidyInv /\ PopParent => TidyInv'
<1> SUFFICES ASSUME IInv, TidyInv, PopParent PROVE TidyInv'
  OBVIOUS
<1> DEFINE S == call.sweep
           p == CHOOSE p \in S.pending : \A q \in S.pending : q <= p
           rest == S.pending \ {p}
           at == IF MultiPair(work.levels, p) THEN p ELSE 0
           yes == TRUE
<1>1. /\ call # Idle /\ call.step = "sweeping" /\ held' = held /\ work' = work /\ Sound(work) /\ Ready(work, call)
      /\ S.at = 0 /\ S.pending # {}
  BY DEF PopParent, Stay, At, IInv, Sweeps
<1>2. PICK dear \in {TRUE} \cup {~NoDearer(p)} :
        call' = [call EXCEPT !.sweep = Popped(S, p, at, dear)]
  <2>1. PICK dear \in {TRUE} \cup {~NoDearer(p)} :
          call' = [call EXCEPT !.sweep = [Sweeps EXCEPT !.pending = @ \ {p}, !.at = IF MultiPair(work.levels, p) THEN p ELSE 0,
                                                   !.left = TRUE, !.listed = p \notin Sweeps.whole /\ dear]]
    BY DEF PopParent, Sweeps
  <2> QED  BY <2>1 DEF Sweeps, Popped
<1>3. TidyCall(work, held, call)
  BY <1>1 DEF TidyInv
<1>4. S.pending \subseteq Internal /\ S = Working(S.pending, S.whole, S.changed, S.at, S.left, S.listed)
  BY <1>1 DEF Ready, CallTyped, SweepTyped
<1>5. SweepTidy(work.levels, S)
  BY <1>1, <1>3 DEF TidyCall, TidyFor, TwinsTidy
<1>6. p \in S.pending
  <2>1. S.pending \subseteq Nat /\ Root \in Nat /\ \A q \in S.pending : q <= Root
    BY <1>4, RootIs, InternalIs
  <2>2. \E m \in S.pending : \A q \in S.pending : q <= m
    BY <1>1, <2>1, GreatestNumber
  <2> QED  BY <2>2
<1> HIDE DEF p
<1>7. (at = p /\ MultiPair(work.levels, p)) \/ (at = 0 /\ ~MultiPair(work.levels, p))
  OBVIOUS
<1> DEFINE s == Popped(S, p, at, dear)
           li == PoppedListed(S, p, dear)
<1>8. call' = [call EXCEPT !.sweep = s]
  BY <1>2
<1> HIDE DEF at
<1>9. s = Working(rest, S.whole, S.changed, at, yes, li)
  <2> HIDE DEF S, li
  <2>1. Popped(S, p, at, dear) = Working(S.pending \ {p}, S.whole, S.changed, at, TRUE, PoppedListed(S, p, dear))
    BY <1>4, PoppedIs
  <2> QED  BY <2>1 DEF li
<1>10. li => p \notin S.whole
  BY DEF PoppedListed
<1>11. yes
  OBVIOUS
<1> HIDE DEF s, li, yes
<1>12. s.pending = rest /\ s.whole = S.whole /\ s.changed = S.changed /\ s.at = at /\ s.left = yes /\ s.listed = li
  BY <1>9, WorkingIs
<1>13. SweepTidy(work.levels, s)
  <2> HIDE DEF S
  <2>1. ASSUME NEW t \in Internal, t \notin s.pending, t # s.at PROVE FreeAt(work.levels[t], t)
    <3>1. CASE t \notin S.pending
      <4>1. t # S.at
        BY <1>1, InternalIs
      <4> QED  BY <1>5, <3>1, <4>1 DEF SweepTidy
    <3>2. CASE t = p
      <4>1. ~MultiPair(work.levels, p)
        BY <1>7, <1>12, <2>1, <3>2
      <4>2. InRange(work.levels)
        BY <1>1, SoundIs
      <4> QED  BY <3>2, <4>1, <4>2, SingleFree
    <3> QED  BY <1>12, <2>1, <3>1, <3>2
  <2>2. s.left
    BY <1>11, <1>12
  <2>3. \A t \in s.pending \ s.whole : MarkedAt(work.levels[t], t, s.changed[t])
    BY <1>5, <1>12 DEF SweepTidy
  <2>4. s.at # 0 /\ s.listed => MarkedAt(work.levels[s.at], s.at, s.changed[s.at])
    <3>1. ASSUME s.at # 0, s.listed PROVE p \in S.pending \ S.whole /\ s.at = p
      BY <1>6, <1>7, <1>10, <1>12, <3>1
    <3> QED  BY <1>5, <1>12, <3>1 DEF SweepTidy
  <2>5. s.at \notin s.pending
    <3>1. 0 \notin S.pending
      BY <1>4, InternalIs
    <3> QED  BY <1>7, <1>12, <3>1
  <2> QED  BY <2>1, <2>2, <2>3, <2>4, <2>5 DEF SweepTidy
<1> DEFINE step == "sweeping"
<1>14. step = "sweeping"
  OBVIOUS
<1> HIDE DEF step
<1>15. TidyFor(work, held, call.plan, call.scope, step, call.old, call.rewrote, call.leaves, s)
  BY <1>1, <1>3, <1>13, <1>14 DEF TidyCall, TidyFor, TwinsTidy
<1>16. HasFields(call', call.plan, call.scope, step, call.old, call.rewrote, call.leaves, s)
  <2>1. HasFields(call, call.plan, call.scope, step, call.old, call.rewrote, call.leaves, call.sweep)
    BY <1>1, <1>14, OwnFields
  <2> QED  BY <1>8, <2>1, FieldsMoved
<1> QED  BY <1>1, <1>15, <1>16, TidyNext

\* What a search leaves of the working set, whatever it found.
SearchedOne(s, c, new) ==
  /\ new.at = (IF Side(c) = 1 THEN s.at ELSE 0)
  /\ ~new.left
  /\ new.listed => s.listed
  /\ s.whole \subseteq new.whole
  /\ \A t \in Internal : t # c => new.changed[t] = s.changed[t]

\* The child of the parent at hand that is searched next.
LEMMA ChildAt ==
  ASSUME NEW p \in Internal, NEW c \in Children(p)
  PROVE  /\ c # p /\ (c = Left[p] <=> Side(c) = 1) /\ (c = Right[p] <=> Side(c) = 2) /\ Side(c) \in {1, 2}
         /\ Side(Left[p]) = 1 /\ Side(Right[p]) = 2
         /\ p # 0 /\ c # Root /\ Parent[c] = p
<1>1. Left[p] # Right[p] /\ Children(p) = {Left[p], Right[p]} /\ Left[p] # p /\ Right[p] # p /\ p # 0
  BY InternalIs DEF Children
<1>2. Parent[Left[p]] = p /\ Parent[Right[p]] = p /\ Left[p] # Root /\ Right[p] # Root
  BY <1>1, ParentOf
<1>3. Side(Left[p]) = 1 /\ Side(Right[p]) = 2
  BY <1>1, <1>2 DEF Side
<1> QED  BY <1>1, <1>2, <1>3

\* A search that merges nothing.
LEMMA QuietTidy ==
  ASSUME NEW levels, NEW s, SweepTidy(levels, s), s.at \in Internal, s.pending \subseteq Internal,
         NEW c \in Children(s.at), c = Left[s.at] <=> s.left, c \notin Leaf => Free(levels[s.at], Side(c)),
         NEW new, SearchedOne(s, c, new), new.pending = s.pending, \A t \in Internal : new.changed[t] = s.changed[t]
  PROVE  SweepTidy(levels, new)
<1> DEFINE p == s.at
<1>1. /\ c # p /\ (c = Left[p] <=> Side(c) = 1) /\ (c = Right[p] <=> Side(c) = 2) /\ Side(c) \in {1, 2}
      /\ p # 0 /\ Side(Left[p]) = 1 /\ Side(Right[p]) = 2
  BY ChildAt
<1>2. 0 \notin Internal
  BY InternalIs
<1>3. new.at = (IF Side(c) = 1 THEN p ELSE 0) /\ ~new.left /\ (new.listed => s.listed) /\ s.whole \subseteq new.whole
  BY DEF SearchedOne
<1>4. ASSUME Side(c) = 2 PROVE FreeAt(levels[p], p)
  <2>1. ~s.left /\ c = Right[p]
    BY <1>1, <1>4
  <2>2. Left[p] \notin Leaf => Free(levels[p], 1)
    BY <1>1, <2>1 DEF SweepTidy
  <2>3. Right[p] \notin Leaf => Free(levels[p], 2)
    BY <1>4, <2>1
  <2> QED  BY <1>1, <2>2, <2>3 DEF FreeAt, Children
<1>5. ASSUME NEW t \in Internal, t \notin new.pending, t # new.at PROVE FreeAt(levels[t], t)
  <2>1. CASE t = p
    <3>1. Side(c) = 2
      BY <1>1, <1>3, <1>5, <2>1
    <3> QED  BY <1>4, <2>1, <3>1
  <2>2. CASE t # p
    BY <1>5, <2>2 DEF SweepTidy
  <2> QED  BY <2>1, <2>2
<1>6. new.at # 0 /\ Left[new.at] \notin Leaf => Free(levels[new.at], 1)
  BY <1>1, <1>3
<1>7. \A t \in new.pending \ new.whole : MarkedAt(levels[t], t, new.changed[t])
  BY <1>3 DEF SweepTidy
<1>8. new.at # 0 /\ new.listed => MarkedAt(levels[new.at], new.at, new.changed[new.at])
  BY <1>1, <1>3 DEF SweepTidy
<1>9. new.at \notin new.pending
  BY <1>2, <1>3 DEF SweepTidy
<1> QED  BY <1>3, <1>5, <1>6, <1>7, <1>8, <1>9 DEF SweepTidy

\* A level without twins has them marked anywhere.
LEMMA FreeMarked ==
  ASSUME NEW level
  PROVE  /\ \A s, rows : Free(level, s) => Marked(level, s, rows)
         /\ \A t, rows : FreeAt(level, t) => MarkedAt(level, t, rows)
BY DEF Free, FreeAt, Marked, MarkedAt

\* A search that merges.
LEMMA MergeTidy ==
  ASSUME NEW levels, NEW s, SweepTidy(levels, s), s.at \in Internal, s.pending \subseteq Internal,
         NEW c \in Children(s.at), c = Left[s.at] <=> s.left, \A q \in s.pending : q < s.at,
         NEW among, NEW dropped, Merges(levels, c, among, dropped), Among(levels[s.at], Side(c), among),
         NEW next, next = MergedLevels(levels, c, among, dropped), InRange(next),
         s.changed[c] = {},
         NEW new, SearchedOne(s, c, new), dropped # {} => c \in new.whole,
         new.pending = IF MultiPair(next, c) THEN s.pending \cup {c} ELSE s.pending,
         new.changed[c] = Noted(Keeper(levels, c, among), dropped, {})
  PROVE  SweepTidy(next, new)
<1> DEFINE p == s.at
           side == Side(c)
<1>1. /\ c # p /\ (c = Left[p] <=> side = 1) /\ (c = Right[p] <=> side = 2) /\ side \in {1, 2}
      /\ p # 0 /\ Side(Left[p]) = 1 /\ Side(Right[p]) = 2 /\ Parent[c] = p
  BY ChildAt
<1>2. 0 \notin Internal /\ c \in Internal /\ InRange(levels)
  BY InternalIs DEF Merges
<1>3. new.at = (IF side = 1 THEN p ELSE 0) /\ ~new.left /\ (new.listed => s.listed) /\ s.whole \subseteq new.whole
  BY DEF SearchedOne
<1>4. \A t \in Internal \ {c, p} : next[t] = levels[t]
  <2>1. MergedAs(levels, next, c, Keeper(levels, c, among), dropped)
    BY MergedSound DEF Merges
  <2> QED  BY <1>1, <2>1 DEF MergedAs
<1>5. /\ Free(next[p], side)
      /\ Free(levels[p], 3 - side) => Free(next[p], 3 - side)
      /\ \A rows : Marked(levels[p], 3 - side, rows) => Marked(next[p], 3 - side, rows)
  BY <1>1, MergedFree
<1>s. /\ side = 1 => 3 - side = 2
      /\ side = 2 => 3 - side = 1
  OBVIOUS
<1> HIDE DEF side
<1>6. ASSUME side = 2 PROVE FreeAt(next[p], p)
  <2>1. ~s.left /\ c = Right[p]
    BY <1>1, <1>6
  <2>2. Left[p] \notin Leaf => Free(levels[p], 1)
    BY <1>1, <2>1 DEF SweepTidy
  <2>3. Left[p] \notin Leaf => Free(next[p], 1)
    BY <1>5, <1>6, <1>s, <2>2
  <2>4. Free(next[p], 2)
    BY <1>5, <1>6
  <2> QED  BY <1>1, <2>3, <2>4 DEF FreeAt, Children
<1>7. p \notin new.pending /\ p \notin s.pending
  <2>1. p \notin s.pending
    BY DEF SweepTidy
  <2> QED  BY <1>1, <2>1
<1>8. ASSUME NEW t \in Internal, t \notin new.pending, t # new.at PROVE FreeAt(next[t], t)
  <2>1. CASE t = p
    <3>1. side = 2
      BY <1>1, <1>3, <1>8, <2>1
    <3> QED  BY <1>6, <2>1, <3>1
  <2>2. CASE t = c
    <3>1. ~MultiPair(next, c)
      BY <1>8, <2>2
    <3> QED  BY <1>2, <2>2, <3>1, SingleFree
  <2>3. CASE t # p /\ t # c
    <3>1. t \notin s.pending
      BY <1>8
    <3>2. FreeAt(levels[t], t)
      BY <2>3, <3>1 DEF SweepTidy
    <3> QED  BY <1>4, <2>3, <3>2
  <2> QED  BY <2>1, <2>2, <2>3
<1>9. new.at # 0 /\ Left[new.at] \notin Leaf => Free(next[new.at], 1)
  BY <1>1, <1>3, <1>5
<1>10. ASSUME NEW t \in new.pending \ new.whole PROVE MarkedAt(next[t], t, new.changed[t])
  <2>1. CASE t = c
    <3>1. dropped = {}
      BY <1>10, <2>1
    <3>2. MarkedAt(levels[c], c, {})
      <4>1. CASE c \in s.pending
        <5>1. c \in s.pending \ s.whole
          BY <1>3, <1>10, <2>1, <4>1
        <5> QED  BY <5>1 DEF SweepTidy
      <4>2. CASE c \notin s.pending
        <5>1. FreeAt(levels[c], c)
          BY <1>1, <1>2, <4>2 DEF SweepTidy
        <5> QED  BY <5>1, FreeMarked
      <4> QED  BY <4>1, <4>2
    <3>3. Merges(levels, c, among, {}) /\ next = MergedLevels(levels, c, among, {})
      BY <3>1
    <3>4. ASSUME NEW e \in Children(c), e \notin Leaf
          PROVE  Marked(next[c], Side(e), Noted(Keeper(levels, c, among), {}, {}))
      <4> DEFINE none == {}
                 r == Side(e)
      <4>1. Marked(levels[c], r, none)
        BY <3>2, <3>4 DEF MarkedAt
      <4> HIDE DEF r, none
      <4>2. Marked(MergedLevels(levels, c, among, {})[c], r, Noted(Keeper(levels, c, among), {}, none))
        BY <3>3, <4>1, MergedMarked
      <4> QED  BY <3>3, <4>2 DEF r, none
    <3>5. MarkedAt(next[c], c, Noted(Keeper(levels, c, among), {}, {}))
      BY <3>4 DEF MarkedAt
    <3> QED  BY <2>1, <3>1, <3>5
  <2>2. CASE t # c
    <3>1. t \in s.pending \ s.whole /\ t # p /\ t \in Internal
      BY <1>3, <1>7, <1>10, <2>2
    <3>2. MarkedAt(levels[t], t, s.changed[t])
      BY <3>1 DEF SweepTidy
    <3>3. new.changed[t] = s.changed[t] /\ next[t] = levels[t]
      BY <1>4, <2>2, <3>1 DEF SearchedOne
    <3> QED  BY <3>2, <3>3
  <2> QED  BY <2>1, <2>2
<1>11. ASSUME new.at # 0, new.listed PROVE MarkedAt(next[p], p, new.changed[p]) /\ new.at = p
  <2>1. new.at = p /\ s.listed /\ side = 1
    BY <1>1, <1>3, <1>11
  <2>2. MarkedAt(levels[p], p, s.changed[p])
    BY <1>1, <2>1 DEF SweepTidy
  <2>3. new.changed[p] = s.changed[p]
    BY <1>1 DEF SearchedOne
  <2>4. Left[p] \notin Leaf => Marked(next[p], 1, s.changed[p])
    BY <1>5, <2>1, FreeMarked
  <2>5. Right[p] \notin Leaf => Marked(next[p], 2, s.changed[p])
    <3>1. ASSUME Right[p] \notin Leaf PROVE Marked(levels[p], 2, s.changed[p])
      BY <1>1, <2>2, <3>1 DEF MarkedAt, Children
    <3> QED  BY <1>5, <1>s, <2>1, <3>1
  <2>6. MarkedAt(next[p], p, s.changed[p])
    BY <1>1, <2>4, <2>5 DEF MarkedAt, Children
  <2> QED  BY <2>1, <2>3, <2>6
<1>12. new.at \notin new.pending
  <2>1. new.pending \subseteq Internal
    BY <1>2
  <2> QED  BY <1>2, <1>3, <1>7, <2>1
<1>13. new.at # 0 /\ new.listed => MarkedAt(next[new.at], new.at, new.changed[new.at])
  BY <1>11
<1> QED  BY <1>3, <1>8, <1>9, <1>10, <1>12, <1>13 DEF SweepTidy

\* What one search leaves of the working set, merging or not.
SearchNotesFull(S, c, fires, multi, notes, dropped, s) ==
  /\ SearchedOne(S, c, s)
  /\ s.pending = (IF fires /\ multi THEN S.pending \cup {c} ELSE S.pending)
  /\ fires /\ c \in Internal => s.changed[c] = notes
  /\ ~fires => s.changed = S.changed
  /\ dropped # {} => c \in s.whole

\* The call after one search.
LEMMA SearchFields ==
  ASSUME IInv, held' = held, At("sweeping"), Sweeps.at # 0,
         NEW c \in Children(Sweeps.at), c = Left[Sweeps.at] <=> Sweeps.left,
         NEW finding, finding \in FindingsAt(c), Contracts(c, finding)
  PROVE  \E s : /\ HasFields(call', call.plan, call.scope, call.step, call.old, call.rewrote, call.leaves, s)
                /\ SearchNotesFull(call.sweep, c, Fires(work, c, Reach(c), finding), MultiPair(work'.levels, c),
                                   Noted(Keeper(work.levels, c, Reach(c)), finding.dropped, {}), finding.dropped, s)
                /\ c \in Internal => call.sweep.changed[c] = {}
<1> DEFINE S      == call.sweep
           among  == Reach(c)
           keeper == Keeper(work.levels, c, among)
           fires  == Fires(work, c, among, finding)
           groups == {i \in DOMAIN keeper : keeper[i] = i /\ \E j \in DOMAIN keeper : j # i /\ keeper[j] = i}
           notes  == {Moved(keeper, finding.dropped, i) : i \in S.changed[c] \cup groups}
           at     == IF Side(c) = 1 THEN S.at ELSE 0
           multi  == MultiPair(work'.levels, c)
           pending == IF fires /\ multi THEN S.pending \cup {c} ELSE S.pending
           changed == IF fires THEN [S.changed EXCEPT ![c] = notes] ELSE S.changed
           whole   == IF finding.dropped # {} THEN S.whole \cup {c} ELSE S.whole
           s       == After(S, c, at, pending, changed, whole)
<1>1. /\ Sound(work) /\ Ready(work, call) /\ call.step = "sweeping" /\ call # Idle
  BY DEF IInv, At
<1>2. S.pending \subseteq Internal /\ Sweeping(work, S)
      /\ S = Working(S.pending, S.whole, S.changed, S.at, S.left, S.listed)
  BY <1>1 DEF Ready, AsTheStep, CallTyped, SweepTyped
<1>3. call' = [call EXCEPT !.sweep = s]
  BY DEF Contracts, Sweeps, After, StillListed
<1>4. S.at # 0 /\ S.at \in Internal /\ c \in Children(S.at)
  BY <1>2 DEF Sweeping, Sweeps
<1>5. c \in Vtree \ {Root} /\ Parent[c] = S.at /\ (c = Left[S.at] <=> S.left)
  BY <1>4, ParentOf DEF Sweeps
<1>6. ASSUME c \in Internal PROVE S.changed[c] = {}
  BY <1>2, <1>4, <1>5, <1>6, InternalIs DEF Sweeping, Children
<1>7. ASSUME c \in Internal PROVE notes = Noted(keeper, finding.dropped, {})
  <2>1. S.changed[c] \cup groups = {} \cup groups
    BY <1>6, <1>7
  <2> QED  BY <2>1 DEF Noted
<1> HIDE DEF fires, groups, notes, keeper, among, multi
<1>8. /\ \A t \in Internal : t # c => changed[t] = S.changed[t]
      /\ fires /\ c \in Internal => changed[c] = notes
      /\ ~fires => changed = S.changed
  <2>1. S.changed = [t \in Leaf \cup Internal |-> S.changed[t]]
    BY <1>2 DEF Sweeping
  <2> DEFINE old == S.changed
             new == [old EXCEPT ![c] = notes]
  <2>2. DOMAIN old = Leaf \cup Internal
    BY <2>1
  <2> HIDE DEF old
  <2>3. /\ \A t \in Internal : t # c => new[t] = old[t]
        /\ c \in Internal => new[c] = notes
    BY <2>2
  <2> HIDE DEF new
  <2>4. changed = IF fires THEN new ELSE old
    BY DEF new, old
  <2> HIDE DEF changed
  <2> QED  BY <2>3, <2>4 DEF old
<1> DEFINE no == FALSE
           li == StillListed(S, c)
<1>9. s = Working(pending, whole, changed, at, no, li)
  <2> HIDE DEF S, at, pending, changed, whole
  <2>1. S = Working(S.pending, S.whole, S.changed, S.at, S.left, S.listed)
    BY <1>2
  <2>2. Formed(S)
    BY <2>1 DEF Formed
  <2>3. AfterFits(S, c, at, pending, changed, whole)
    BY <2>2, AfterIs
  <2> QED  BY <2>3 DEF AfterFits
<1>10. ~no /\ (li => S.listed)
  BY DEF StillListed
<1>11. S.whole \subseteq whole /\ (finding.dropped # {} => c \in whole)
  OBVIOUS
<1> HIDE DEF s, no, li, changed, whole
<1>12. s.pending = pending /\ s.whole = whole /\ s.changed = changed /\ s.at = at /\ s.left = no /\ s.listed = li
  BY <1>9, WorkingIs
<1>13. SearchedOne(S, c, s)
  <2>1. s.at = (IF Side(c) = 1 THEN S.at ELSE 0)
    BY <1>12
  <2> HIDE DEF S, at, pending
  <2> QED  BY <1>8, <1>10, <1>11, <1>12, <2>1 DEF SearchedOne
<1>14. SearchNotesFull(S, c, fires, multi, notes, finding.dropped, s)
  <2> HIDE DEF S, at
  <2> QED  BY <1>8, <1>11, <1>12, <1>13 DEF SearchNotesFull
<1>15. SearchNotesFull(S, c, fires, multi, Noted(keeper, finding.dropped, {}), finding.dropped, s)
  <2> HIDE DEF S
  <2>1. CASE c \in Internal
    BY <1>7, <1>14, <2>1
  <2>2. CASE c \notin Internal
    BY <1>14, <2>2 DEF SearchNotesFull
  <2> QED  BY <2>1, <2>2
<1>16. HasFields(call, call.plan, call.scope, call.step, call.old, call.rewrote, call.leaves, call.sweep)
  BY <1>1, OwnFields
<1>17. HasFields(call', call.plan, call.scope, call.step, call.old, call.rewrote, call.leaves, s)
  BY <1>3, <1>16, FieldsMoved
<1> QED  BY <1>6, <1>15, <1>17 DEF fires, keeper, among, multi

\* What a search of one child leaves of the diagram.
SearchedDiagram(c, finding) ==
  IF Searched(work, c) THEN ContractChild(work, c, Reach(c), finding) ELSE work

\* The search at hand sees every twin below its parent, and what it reports is so.
LEMMA SearchSees ==
  ASSUME IInv, At("sweeping"), Sweeps.at # 0, SweepTidy(work.levels, Sweeps),
         NEW c \in Children(Sweeps.at), c \notin Leaf, NEW finding, finding \in FindingsAt(c)
  PROVE  /\ c \in Internal /\ c # Root /\ Parent[c] = Sweeps.at /\ Sweeps.at \in Internal
         /\ InRange(work.levels) /\ Deterministic(work.levels)
         /\ Reach(c) \in SUBSET DOMAIN work.levels[c]
         /\ Among(work.levels[Sweeps.at], Side(c), Reach(c))
         /\ Reports(work, c, finding)
         /\ Merges(work.levels, c, Reach(c), finding.dropped)
<1> DEFINE p == Sweeps.at
<1>1. Sound(work) /\ Sweeping(work, Sweeps)
  BY DEF IInv, At, Ready, AsTheStep, Sweeps
<1>2. InRange(work.levels) /\ Deterministic(work.levels)
  BY <1>1, SoundIs
<1>3. p \in Internal
  BY <1>1 DEF Sweeping
<1>4. c \in Internal /\ c # Root /\ Parent[c] = p
  BY <1>3, ParentOf, InternalIs DEF Vtree
<1>5. Reach(c) \in SUBSET DOMAIN work.levels[c]
  BY <1>1, <1>4, ReachIs
<1>6. Among(work.levels[p], Side(c), Reach(c))
  <2>1. CASE Sweeps.listed
    <3>1. MarkedAt(work.levels[p], p, Sweeps.changed[p])
      BY <2>1 DEF SweepTidy
    <3> DEFINE rows == Sweeps.changed[p]
    <3>2. Reach(c) = NamedFrom(work.levels, c, rows)
      BY <1>4, <2>1 DEF Reach
    <3> HIDE DEF rows
    <3>3. Marked(work.levels[p], Side(c), rows)
      BY <3>1 DEF MarkedAt, rows
    <3> QED  BY <1>2, <1>3, <3>2, <3>3, MarkedNames
  <2>2. CASE ~Sweeps.listed
    <3>1. Reach(c) = DOMAIN work.levels[c]
      BY <2>2 DEF Reach
    <3> QED  BY <1>2, <1>3, <3>1, MarkedNames
  <2> QED  BY <2>1, <2>2
<1>7. Reports(work, c, finding)
  <2>1. finding \in Findings(work, c) \cup ListedFindings
    BY DEF FindingsAt
  <2> QED  BY <1>2, <1>4, <2>1, FindingReports
<1>8. Merges(work.levels, c, Reach(c), finding.dropped)
  BY <1>2, <1>4, <1>5, <1>7 DEF Merges, Reports
<1> QED  BY <1>2, <1>3, <1>4, <1>5, <1>6, <1>7, <1>8

\* The nodes a search of one child leaves.
LEMMA SearchedNodes ==
  ASSUME NEW d, Sound(d), NEW c \in Internal, c # Root, NEW among, NEW finding
  PROVE  ContractChild(d, c, among, finding).levels
           = IF Firing(d, c, among, finding) THEN MergedLevels(d.levels, c, among, finding.dropped) ELSE d.levels
<1> DEFINE dropped == finding.dropped
           tight   == finding.tight
           fires   == Firing(d, c, among, finding)
           new     == MergedLevels(d.levels, c, among, dropped)
           made    == ContractChild(d, c, among, finding)
<1>1. Contracted(d, c, dropped, tight, fires, new, made)
  BY ContractChildIs
<1> HIDE DEF dropped, tight, fires, new, made
<1>2. made.levels = IF fires THEN new ELSE d.levels
  BY <1>1 DEF Contracted
<1> QED  BY <1>2 DEF dropped, fires, new, made

\* Twins after one search.
LEMMA SearchSweepTidy ==
  ASSUME IInv, At("sweeping"), Sweeps.at # 0, SweepTidy(work.levels, Sweeps),
         NEW c \in Children(Sweeps.at), c = Left[Sweeps.at] <=> Sweeps.left,
         NEW finding, finding \in FindingsAt(c),
         NEW made, made = SearchedDiagram(c, finding),
         c \in Internal => Sweeps.changed[c] = {},
         NEW s, SearchNotesFull(Sweeps, c, Fires(work, c, Reach(c), finding), MultiPair(made.levels, c),
                                Noted(Keeper(work.levels, c, Reach(c)), finding.dropped, {}), finding.dropped, s)
  PROVE  SweepTidy(made.levels, s)
<1> DEFINE p == Sweeps.at
           fires == Fires(work, c, Reach(c), finding)
<1>1. Sound(work) /\ Sweeping(work, Sweeps) /\ Sweeps.pending \subseteq Internal
  BY DEF IInv, At, Ready, AsTheStep, CallTyped, SweepTyped, Sweeps
<1>2. p \in Internal /\ \A q \in Sweeps.pending : q < p
  BY <1>1 DEF Sweeping
<1>3. InRange(work.levels)
  BY <1>1, SoundIs
<1>4. SearchedOne(Sweeps, c, s)
  BY DEF SearchNotesFull
<1>5. c \in Children(p) /\ Parent[c] = p /\ (c \in Leaf \/ c \in Internal)
  BY <1>2, ParentOf DEF Vtree
<1>6. CASE ~fires
  <2>1. s.pending = Sweeps.pending /\ \A t \in Internal : s.changed[t] = Sweeps.changed[t]
    BY <1>6 DEF SearchNotesFull
  <2>2. made.levels = work.levels
    <3>1. CASE ~Searched(work, c)
      BY <3>1 DEF SearchedDiagram
    <3>2. CASE Searched(work, c)
      <4>1. c \in Internal /\ c # Root
        BY <1>2, <1>5, <3>2, ParentOf DEF Searched
      <4>2. ~Firing(work, c, Reach(c), finding)
        BY <1>6, <3>2 DEF Firing, Fires
      <4>3. made = ContractChild(work, c, Reach(c), finding)
        BY <3>2 DEF SearchedDiagram
      <4> QED  BY <1>1, <4>1, <4>2, <4>3, SearchedNodes
    <3> QED  BY <3>1, <3>2
  <2>3. ASSUME c \notin Leaf PROVE Free(work.levels[p], Side(c))
    <3>0. Among(work.levels[p], Side(c), Reach(c)) /\ Reach(c) \in SUBSET DOMAIN work.levels[c]
      BY <2>3, SearchSees
    <3>1. CASE ~(Len(work.levels[c]) > 1)
      BY <1>2, <1>3, <2>3, <3>1, ShortFree
    <3>2. CASE ~MultiPair(work.levels, p)
      <4>1. FreeAt(work.levels[p], p)
        BY <1>2, <1>3, <3>2, SingleFree
      <4> QED  BY <2>3, <4>1 DEF FreeAt
    <3>3. CASE Searched(work, c)
      <4>1. ~HasTwins(work.levels, c, Reach(c))
        BY <1>6, <3>3 DEF Fires
      <4> QED  BY <1>2, <1>3, <2>3, <3>0, <4>1, SearchedFree
    <3> QED  BY <1>5, <2>3, <3>1, <3>2, <3>3 DEF Searched
  <2>4. SweepTidy(work.levels, s)
    BY <1>1, <1>2, <1>4, <2>1, <2>3, QuietTidy
  <2> QED  BY <2>2, <2>4
<1>7. CASE fires
  <2>1. Searched(work, c) /\ c \notin Leaf /\ c \in Internal /\ c # Root /\ Firing(work, c, Reach(c), finding)
    BY <1>2, <1>5, <1>7, ParentOf DEF Fires, Firing, Searched
  <2> DEFINE among == Reach(c)
             dropped == finding.dropped
             next == MergedLevels(work.levels, c, among, dropped)
  <2>2. Merges(work.levels, c, among, dropped) /\ Among(work.levels[p], Side(c), among)
        /\ among \in SUBSET DOMAIN work.levels[c] /\ Reports(work, c, finding)
    BY <2>1, SearchSees
  <2>3. made = ContractChild(work, c, among, finding)
    BY <2>1 DEF SearchedDiagram
  <2>4. made.levels = next
    BY <1>1, <2>1, <2>3, SearchedNodes
  <2>5. InRange(next)
    <3>1. finding.dropped \in SUBSET Unnamed(work.levels, c)
      BY <2>2 DEF Reports
    <3> HIDE DEF among
    <3>2. Sound(ContractChild(work, c, among, finding))
      BY <1>1, <2>1, <2>2, <3>1, ContractChildKeeps
    <3> HIDE DEF next
    <3> QED  BY <2>3, <2>4, <3>2, SoundIs
  <2>6. /\ dropped # {} => c \in s.whole
        /\ s.pending = IF MultiPair(next, c) THEN Sweeps.pending \cup {c} ELSE Sweeps.pending
        /\ s.changed[c] = Noted(Keeper(work.levels, c, among), dropped, {})
    BY <1>7, <2>1, <2>4 DEF SearchNotesFull
  <2>7. Sweeps.changed[c] = {}
    BY <2>1
  <2>8. next = MergedLevels(work.levels, c, among, dropped)
    OBVIOUS
  <2> HIDE DEF among, dropped, next
  <2>9. SweepTidy(next, s)
    BY <1>1, <1>2, <1>4, <2>2, <2>5, <2>6, <2>7, <2>8, MergeTidy
  <2> QED  BY <2>4, <2>9
<1> QED  BY <1>6, <1>7

\* A search of one child of a tidy diagram, whatever it merges.
LEMMA SearchedTidy ==
  ASSUME NEW d, Sound(d), NEW c \in Internal, c # Root, NEW among, among \in SUBSET DOMAIN d.levels[c],
         NEW finding, Reports(d, c, finding),
         Listed(d), Certain(d), FoldedOff(d, d.leaves),
         NEW made, made = ContractChild(d, c, among, finding)
  PROVE  /\ Listed(made) /\ Certain(made) /\ FoldedOff(made, made.leaves)
         /\ Trim(d) => Trim(made)
         /\ Best(d) => Best(made)
<1> DEFINE dropped == finding.dropped
           tight   == finding.tight
           fires   == Firing(d, c, among, finding)
           new     == MergedLevels(d.levels, c, among, dropped)
<1>1. /\ Listed(made) /\ (Trim(d) => Trim(made))
      /\ \A t \in Internal \ {c, Parent[c]} : made.levels[t] = d.levels[t]
      /\ Trim(d) /\ FreeOff(d, {}) => ~fires
  BY ChildKeeps
<1>2. Contracted(d, c, dropped, tight, fires, new, made)
  BY ContractChildIs
<1> HIDE DEF dropped, tight, fires, new
<1>3. /\ ~fires => made.levels = d.levels /\ made.leaves = d.leaves
      /\ fires => made.leaves = d.leaves \cup {c, Parent[c]} /\ ~made.certified
      /\ made.out = d.out /\ (made.certified => d.certified)
  BY <1>2 DEF Contracted
<1>4. Best(d) => Best(made)
  <2>1. ASSUME Best(d) PROVE Best(made)
    <3>1. ~fires
      BY <1>1, <2>1 DEF Best
    <3> QED  BY <1>3, <2>1, <3>1, SameLevelsTidy
  <2> QED  BY <2>1
<1>5. Certain(made)
  BY <1>3, <1>4 DEF Certain
<1>6. FoldedOff(made, made.leaves)
  <2>1. CASE fires
    BY <1>1, <1>3, <2>1 DEF FoldedOff
  <2>2. CASE ~fires
    BY <1>3, <2>2 DEF FoldedOff
  <2> QED  BY <2>1, <2>2
<1> QED  BY <1>1, <1>4, <1>5, <1>6

\* Searching one child of the parent at hand keeps the diagrams tidy.
LEMMA ContractsTidy ==
  ASSUME IInv, TidyInv, held' = held, At("sweeping"), Sweeps.at # 0,
         NEW c \in Children(Sweeps.at), c = Left[Sweeps.at] <=> Sweeps.left,
         NEW finding, finding \in FindingsAt(c), Contracts(c, finding)
  PROVE  TidyInv'
<1> DEFINE made == SearchedDiagram(c, finding)
           fires == Fires(work, c, Reach(c), finding)
           notes == Noted(Keeper(work.levels, c, Reach(c)), finding.dropped, {})
<1>1. /\ Sound(work) /\ call.step = "sweeping" /\ call # Idle /\ Sweeping(work, Sweeps)
  BY DEF IInv, At, Ready, AsTheStep, Sweeps
<1>2. TidyCall(work, held, call)
  BY <1>1 DEF TidyInv
<1>3. /\ SweepTidy(work.levels, Sweeps) /\ FoldedOff(work, work.leaves) /\ Listed(work) /\ Certain(work)
      /\ call.rewrote => Best(work)
      /\ Pruned(call.plan, call.step) => Trim(work)
  BY <1>1, <1>2 DEF TidyCall, TidyFor, TwinsTidy, LeavesTidy, ShapedFor, TidyAgain, Sweeps
<1>4. work' = made
  BY DEF Contracts, SearchedDiagram
<1>5. c \in Vtree \ {Root} /\ (c \in Leaf \/ c \in Internal)
  <2>1. Sweeps.at \in Internal
    BY <1>1 DEF Sweeping
  <2> QED  BY <2>1, ParentOf DEF Vtree
<1>6. PICK s : /\ HasFields(call', call.plan, call.scope, call.step, call.old, call.rewrote, call.leaves, s)
               /\ SearchNotesFull(Sweeps, c, fires, MultiPair(work'.levels, c), notes, finding.dropped, s)
               /\ c \in Internal => Sweeps.changed[c] = {}
  BY SearchFields DEF Sweeps
<1>7. SearchNotesFull(Sweeps, c, fires, MultiPair(made.levels, c), notes, finding.dropped, s)
  BY <1>4, <1>6
<1>8. SweepTidy(made.levels, s)
  <2> HIDE DEF made
  <2>1. made = SearchedDiagram(c, finding)
    BY DEF made
  <2> QED  BY <1>3, <1>6, <1>7, <2>1, SearchSweepTidy
<1>9. /\ Listed(made) /\ Certain(made) /\ FoldedOff(made, made.leaves)
      /\ Trim(work) => Trim(made)
      /\ Best(work) => Best(made)
  <2>1. CASE ~Searched(work, c)
    BY <1>3, <2>1 DEF SearchedDiagram
  <2>2. CASE Searched(work, c)
    <3>1. c \notin Leaf /\ c \in Internal /\ c # Root
      BY <1>5, <2>2 DEF Searched
    <3>2. Reach(c) \in SUBSET DOMAIN work.levels[c] /\ Reports(work, c, finding)
      BY <1>3, <3>1, SearchSees
    <3>3. made = ContractChild(work, c, Reach(c), finding)
      BY <2>2 DEF SearchedDiagram
    <3> HIDE DEF made
    <3> DEFINE among == Reach(c)
    <3> HIDE DEF among
    <3>4. among \in SUBSET DOMAIN work.levels[c] /\ made = ContractChild(work, c, among, finding)
      BY <3>2, <3>3 DEF among
    <3> QED  BY <1>1, <1>3, <3>1, <3>2, <3>4, SearchedTidy
  <2> QED  BY <2>1, <2>2
<1> HIDE DEF made
<1>10. TidyFor(made, held, call.plan, call.scope, call.step, call.old, call.rewrote, call.leaves, s)
  <2>1. TwinsTidy(made, call.step, s) /\ LeavesTidy(made, call.step, call.leaves) /\ TidyAgain(made, call.step, call.rewrote)
    BY <1>1, <1>3, <1>8, <1>9 DEF TwinsTidy, LeavesTidy, TidyAgain
  <2>2. ShapedFor(made, held, call.plan, call.scope, call.step, call.old, call.rewrote)
    BY <1>1, <1>3, <1>9 DEF ShapedFor
  <2> QED  BY <1>9, <2>1, <2>2 DEF TidyFor
<1> QED  BY <1>4, <1>6, <1>10, TidyNext

\* ContractLeft.
LEMMA ContractLeftTidy == IInv /\ TidyInv /\ ContractLeft => TidyInv'
<1> SUFFICES ASSUME IInv, TidyInv, ContractLeft PROVE TidyInv'
  OBVIOUS
<1> DEFINE c == Left[Sweeps.at]
<1>1. /\ At("sweeping") /\ Sweeps.at # 0 /\ (Sweeps.left <=> TRUE) /\ held' = held
  BY DEF ContractLeft, Searching, Stay
<1>2. PICK finding : finding \in FindingsAt(c) /\ Contracts(c, finding)
  BY DEF ContractLeft
<1>3. c \in Children(Sweeps.at) /\ (c = Left[Sweeps.at] <=> Sweeps.left)
  BY <1>1 DEF Children
<1> HIDE DEF c
<1> QED  BY <1>1, <1>2, <1>3, ContractsTidy

\* ContractRight.
LEMMA ContractRightTidy == IInv /\ TidyInv /\ ContractRight => TidyInv'
<1> SUFFICES ASSUME IInv, TidyInv, ContractRight PROVE TidyInv'
  OBVIOUS
<1> DEFINE c == Right[Sweeps.at]
<1>1. /\ At("sweeping") /\ Sweeps.at # 0 /\ Sweeps.left = (2 = 1) /\ held' = held
  BY DEF ContractRight, Searching, Stay
<1>2. PICK finding : finding \in FindingsAt(c) /\ Contracts(c, finding)
  BY DEF ContractRight
<1>3. Sweeps.at \in Internal
  BY <1>1 DEF IInv, At, Ready, AsTheStep, Sweeping, Sweeps
<1>4. c \in Children(Sweeps.at) /\ (c = Left[Sweeps.at] <=> Sweeps.left)
  <2>1. c # Left[Sweeps.at]
    BY <1>3, InternalIs
  <2>2. ~Sweeps.left
    <3>1. (2 = 1) = FALSE
      OBVIOUS
    <3>2. Sweeps.left = FALSE
      BY <1>1, <3>1, Zenon
    <3> QED  BY <3>2
  <2> QED  BY <2>1, <2>2 DEF Children
<1> HIDE DEF c
<1> QED  BY <1>1, <1>2, <1>4, ContractsTidy

\* Every step keeps the diagrams tidy.
LEMMA NextTidy == IInv /\ Promised /\ TidyInv /\ [Next]_vars => TidyInv'
<1> SUFFICES ASSUME IInv, Promised, TidyInv, [Next]_vars PROVE TidyInv'
  OBVIOUS
<1>1. CASE Load
  BY <1>1, LoadTidy
<1>2. CASE And
  BY <1>2, AndTidy
<1>3. CASE Minimize
  BY <1>3, MinimizeTidy
<1>4. CASE Negate
  BY <1>4, NegateTidy
<1>5. CASE ConditionOn
  BY <1>5, ConditionTidy
<1>6. CASE Return
  BY <1>6, ReturnTidy
<1>7. CASE PrunePass
  BY <1>7, PrunePassTidy
<1>8. CASE CertifyComplement
  BY <1>8, CertifyComplementTidy
<1>9. CASE SweepStart
  BY <1>9, SweepStartTidy
<1>10. CASE PopParent
  BY <1>10, PopParentTidy
<1>11. CASE ContractLeft
  BY <1>11, ContractLeftTidy
<1>12. CASE ContractRight
  BY <1>12, ContractRightTidy
<1>13. CASE SweepEnd
  BY <1>13, SweepEndTidy
<1>14. CASE AfterSweep
  BY <1>14, AfterSweepTidy
<1>15. CASE LeavesStart
  BY <1>15, LeavesStartTidy
<1>16. CASE LeafLevel
  BY <1>16, LeafLevelTidy
<1>17. CASE LeavesEnd
  BY <1>17, LeavesEndTidy
<1>18. CASE Finish
  BY <1>18, FinishTidy
<1>19. CASE PruneRefused \/ SweepRefused
  BY <1>19, EarlyRefusedTidy
<1>20. CASE SweepStopped \/ ContractRefused
  BY <1>20, SweepRefusalsTidy
<1>21. CASE LeafRefused
  BY <1>21, LeafRefusedTidy
<1>22. CASE UNCHANGED vars
  BY <1>22 DEF vars, TidyInv, TidyCall
<1> QED  BY <1>1, <1>2, <1>3, <1>4, <1>5, <1>6, <1>7, <1>8, <1>9, <1>10, <1>11, <1>12, <1>13, <1>14, <1>15,
            <1>16, <1>17, <1>18, <1>19, <1>20, <1>21, <1>22 DEF Next, Steps, Refusals

\* What a caller hands in is tidy.
LEMMA InitTidy == Init => TidyInv
BY OperandKempt DEF Init, TidyInv

\* The diagrams are tidy, and the promised ones, throughout.
LEMMA TidyThroughout == Spec => [](IInv /\ Promised /\ TidyInv)
<1>1. Init => Promised /\ TidyInv
  BY InitShows, InitTidy
<1>2. IInv /\ Promised /\ TidyInv /\ [Next]_vars => Promised' /\ TidyInv'
  BY StepShows, NextTidy
<1> QED  BY <1>1, <1>2, Invariance, PTL DEF Spec

\* What a tidy diagram is at any step of a call.
LEMMA TidyIs ==
  ASSUME IInv, TidyInv, NEW d \in {held, work}
  PROVE  /\ Sound(d) /\ Listed(d) /\ Certain(d)
         /\ \/ Kempt(d)
            \/ d = work /\ call # Idle /\ TidyCall(work, held, call)
BY DEF IInv, TidyInv, TidyCall, TidyFor, Kempt

(***************************************************************************)
(* A level that could have twins below it, or both polarities of a leaf    *)
(* to fold, is on a worklist or in the hands of the pass that took it: at  *)
(* any moment of a sweep or of the leaf pass, and after any refusal        *)
(* (reduce/contract/sweep.rs, restore_pending_dirty).                      *)
(***************************************************************************)
THEOREM OffListsAtFixpoint == Spec => []OffListIsFixpoint
<1>1. IInv /\ TidyInv => OffListIsFixpoint
  <2> SUFFICES ASSUME IInv, TidyInv, NEW d \in {held, work}, NEW t \in Internal
               PROVE  LET taken == d = work /\ call # Idle
                      IN  /\ t \notin d.contract \cup (IF taken THEN Sweeps.pending \cup {Sweeps.at} ELSE {})
                                => TwinFreeAt(d.levels, t)
                          /\ t \notin d.leaves \cup (IF taken THEN call.leaves ELSE {}) => LeafTwinFreeAt(d.levels, t)
    BY DEF OffListIsFixpoint
  <2>1. /\ TwinFreeAt(d.levels, t) <=> FreeAt(d.levels[t], t)
        /\ LeafTwinFreeAt(d.levels, t) <=> FoldedAt(d.levels[t], t)
    BY TidyIs, CanonicalIs
  <2>2. CASE Kempt(d)
    BY <2>1, <2>2 DEF Kempt, FreeOff, FoldedOff
  <2>3. CASE d = work /\ call # Idle /\ TidyCall(work, held, call)
    <3>1. TwinsTidy(work, call.step, call.sweep) /\ LeavesTidy(work, call.step, call.leaves)
      BY <2>3 DEF TidyCall, TidyFor
    <3>2. ASSUME t \notin work.contract, t \notin Sweeps.pending, t # Sweeps.at PROVE FreeAt(work.levels[t], t)
      BY <3>1, <3>2 DEF TwinsTidy, SweepTidy, FreeOff, Sweeps
    <3>3. ASSUME t \notin work.leaves, t \notin call.leaves PROVE FoldedAt(work.levels[t], t)
      BY <3>1, <3>3 DEF LeavesTidy, FoldedOff
    <3> QED  BY <2>1, <2>3, <3>2, <3>3
  <2> QED  BY <2>2, <2>3, TidyIs
<1> QED  BY <1>1, TidyThroughout, PTL

(***************************************************************************)
(* A diagram that knows which of its levels hold nodes no pair names knows *)
(* all of them, so a prune that starts there misses none                   *)
(* (diagram/builder.rs, debug_assert_loose_listed).                        *)
(***************************************************************************)
THEOREM LooseLevelsListed == Spec => []LooseIsListed
<1>1. IInv /\ TidyInv => LooseIsListed
  BY TidyIs DEF LooseIsListed, Listed
<1> QED  BY <1>1, TidyThroughout, PTL

(***************************************************************************)
(* What carries the certificate of a full reduction is canonical: no twins *)
(* and no polarities to fold at any level, and every node reached from the *)
(* output (Levels::certify).                                               *)
(***************************************************************************)
THEOREM CertifiedAreCanonical == Spec => []CertifiedIsCanonical
<1>1. IInv /\ TidyInv => CertifiedIsCanonical
  <2> SUFFICES ASSUME IInv, TidyInv, NEW d \in {held, work}, d.certified PROVE Canonical(d)
    BY DEF CertifiedIsCanonical
  <2>1. Sound(d) /\ Best(d)
    BY TidyIs DEF Certain
  <2> QED  BY <2>1, CanonicalIs
<1> QED  BY <1>1, TidyThroughout, PTL

(***************************************************************************)
(* A full reduction ends with one node for every residual class of the     *)
(* function and no other, from whatever worklists operations and refusals  *)
(* left (Tdd::minimize).                                                   *)
(***************************************************************************)
THEOREM FullReductionsAreMinimal == Spec => []FullIsMinimal
<1>1. IInv /\ Promised /\ TidyInv => FullIsMinimal
  <2> SUFFICES ASSUME IInv, Promised, TidyInv, call # Idle, call.step = "done", call.plan = "Full"
               PROVE  OneNodeAClass(work)
    BY DEF FullIsMinimal, At
  <2>1. Sound(work)
    BY DEF IInv
  <2>2. Best(work)
    BY DEF TidyInv, TidyCall, TidyFor, ShapedFor
  <2>3. NodesLive(work.levels)
    BY DEF Promised, Answers, Fit
  <2> DEFINE F == Fn(work)
  <2>4. F \subseteq Assignments
    BY <2>1, FnHolds DEF Assignments
  <2>5. \A t \in Internal : Classed(F, work.levels, t)
    BY <2>1, <2>2, <2>3, AllClassed
  <2>6. InRange(work.levels)
    BY <2>1, SoundIs
  <2> HIDE DEF F
  <2>7. \A t \in Internal : Len(work.levels[t]) = Cardinality(Residuals(F, t))
    BY <2>4, <2>5, <2>6, AsManyClasses
  <2> QED  BY <2>7 DEF OneNodeAClass, F
<1> QED  BY <1>1, TidyThroughout, PTL
===============================================================================
