-------------------------- MODULE QueryCache_proofs --------------------------
(***************************************************************************)
(* QueryCache's marks are exact and its answers current, for every vtree,  *)
(* every diagram and any sequence of observations, refusals and panics;    *)
(* a cache answers as ObservedQuery promises: the pins are the caller's,   *)
(* a table's rows are its assignments in order, and an answer is the one a *)
(* fresh pass would give.  Also: an incremental refresh folds ancestors    *)
(* only, and a frontier walk keeps no column past its use.                 *)
(***************************************************************************)
EXTENDS QueryCache, FiniteSetTheorems, FunctionTheorems, WellFoundedInduction, SequenceTheorems, TLAPS

Current(n)  == cols[n] = Abstract!Fresh(query, value, n)
Done(n)     == Parent[n] = NoNode \/ dirty[Parent[n]]
FirstLeaves == {changed[i] : i \in 1 .. walk.leaves}

\* An evaluated cache: only leaves are marked, and every column above none of
\* them is current; a frontier cache marks nothing and keeps its output.
Evaluated ==
  evaluated =>
    /\ Elements(changed) \subseteq Leaf
    /\ retention = "All" => \A n \in Node : Below[n] \cap Elements(changed) = {} => Current(n)
    /\ retention = "Frontier" => changed = <<>> /\ (output # NoNode => Current(output))

\* add_ancestors: the columns above no changed leaf are current, and every
\* level listed has its parent listed, but for the leaves still to come and
\* the top of the path being climbed.
Closing ==
  pc = "close" =>
    /\ retention = "All" /\ ~evaluated
    /\ walk.leaf \in 1 .. walk.leaves /\ walk.leaves <= Len(changed)
    /\ walk.cur \in Elements(changed)
    /\ ~walk.full
    /\ \A n \in Node : Below[n] \cap FirstLeaves = {} => Current(n)
    /\ \A i \in 1 .. Len(changed) :
         \/ Done(changed[i])
         \/ changed[i] = walk.cur
         \/ i \in walk.leaf + 1 .. walk.leaves

\* The walk: what it has passed is current, but for released columns.
Folding ==
  pc = "fold" =>
    /\ ~evaluated
    /\ ~walk.full => retention = "All"
    /\ \A n \in Node \ todo :
         (retention = "All" \/ n = output \/ Parent[n] = NoNode \/ Parent[n] \in todo) => Current(n)

Finishing == pc = "finish" /\ output # NoNode => evaluated /\ changed = <<>>

IInv == /\ TypeOK
        /\ DirtyIsListed
        /\ Evaluated
        /\ Closing
        /\ Folding
        /\ Finishing
------------------------------------------------------------------------------
LEMMA TreeFacts ==
  /\ Leaf \subseteq Node /\ Node \subseteq Nat
  /\ NoNode \notin Node
  /\ \A n \in Node : Parent[n] \in Internal \cup {NoNode}
  /\ \A n \in Internal : n \in Node /\ n \notin Leaf /\ Left[n] \in Node /\ Right[n] \in Node
  /\ \A n \in Internal : Parent[Left[n]] = n /\ Parent[Right[n]] = n
  /\ \A n \in Node : Parent[n] # NoNode => n = Left[Parent[n]] \/ n = Right[Parent[n]]
BY TreeAssumption DEF Internal, NoNode

\* A level is below itself, and what is below a structural level is below one
\* of its children.
LEMMA BelowCases ==
  ASSUME NEW n \in Node
  PROVE  /\ n \in Leaf \cup Marginal => Below[n] = {n}
         /\ n \notin Leaf \cup Marginal => /\ n \in Internal
                                           /\ Below[n] = {n} \cup Below[Left[n]] \cup Below[Right[n]]
         /\ n \in Below[n]
BY BelowAssumption DEF Internal

\* Folding a level over current children makes its column current.
LEMMA FoldIsFresh ==
  ASSUME NEW n \in Node,
         n \notin Leaf \cup Marginal => Current(Left[n]) /\ Current(Right[n])
  PROVE  Fold(n) = Abstract!Fresh(query, value, n)
<1>1. CASE n \in Leaf \cup Marginal
  BY <1>1, BelowCases DEF Fold, Abstract!Fresh, Seen
<1>2. CASE n \notin Leaf \cup Marginal
  <2>1. Below[n] = {n} \cup Below[Left[n]] \cup Below[Right[n]]
    BY <1>2, BelowCases
  <2> QED  BY <1>2, <2>1 DEF Fold, Abstract!Fresh, Seen, Current
<1> QED  BY <1>1, <1>2

\* Levels listed together with their parents include every level above one of
\* them.
LEMMA AncestorsListed ==
  ASSUME NEW C, C \subseteq Node,
         \A c \in C : Parent[c] = NoNode \/ Parent[c] \in C,
         NEW n \in Node, NEW m \in C, m \in Below[n]
  PROVE  n \in C
<1> DEFINE Bad == {k \in Node : m \in Below[k] /\ k \notin C}
           R   == OpToRel(<, Nat)
<1>1. SUFFICES ASSUME n \notin C PROVE FALSE
  OBVIOUS
<1>2. PICK k \in Bad : \A j \in Bad : ~(Pos[j] < Pos[k])
  <2> DEFINE P == {Pos[j] : j \in Bad}
  <2>1. P \subseteq Nat /\ P # {}
    BY <1>1, OrderAssumption
  <2>2. PICK p \in P : \A q \in P : ~(<<q, p>> \in R)
    <3> HIDE DEF P, R
    <3>1. IsWellFoundedOn(R, Nat)
      BY NatLessThanWellFounded DEF R
    <3> QED  BY <2>1, <3>1, WFMin
  <2>3. PICK k \in Bad : p = Pos[k]
    OBVIOUS
  <2>4. ASSUME NEW j \in Bad PROVE ~(Pos[j] < Pos[k])
    BY <2>1, <2>2, <2>3 DEF OpToRel
  <2> QED  BY <2>4
<1>3. k # m /\ k \in Node /\ m \in Below[k] /\ k \notin C
  BY <1>2
<1>4. k \in Internal /\ (m \in Below[Left[k]] \/ m \in Below[Right[k]])
  BY <1>3, BelowCases
<1>5. PICK c \in {Left[k], Right[k]} : m \in Below[c]
  BY <1>4
<1>6. c \in Node /\ Parent[c] = k /\ k # NoNode
  BY <1>3, <1>4, <1>5, TreeFacts
<1>7. Pos[c] < Pos[k]
  BY <1>6, OrderAssumption
<1>8. c \in C
  BY <1>2, <1>5, <1>6, <1>7
<1> QED  BY <1>3, <1>6, <1>8

\* Clearing the list clears every mark.
LEMMA ClearedMarks ==
  ASSUME TypeOK, DirtyIsListed
  PROVE  Undirty = [n \in Node |-> FALSE]
BY DEF TypeOK, DirtyIsListed, Undirty
------------------------------------------------------------------------------
(* Types. *)

LEMMA RowPinsTyped ==
  ASSUME NEW listed \in Seq(Leaf), NEW row
  PROVE  /\ Abstract!RowPins(listed, row) \in Seq(LeafPin)
         /\ Len(Abstract!RowPins(listed, row)) = Len(listed)
BY DEF Abstract!RowPins, LeafPin, Observation, Abstract!Observation

LEMMA TablePinsTyped ==
  ASSUME table.listed \in Seq(Leaf), NEW row
  PROVE  TablePins(row) \in Seq(LeafPin)
<1> DEFINE n     == Len(table.listed)
           bits  == {t \in 1 .. n : row % 2^(t - 1) = 0}
           width == Cardinality(bits)
           all   == Abstract!RowPins(table.listed, row)
<1>1. n \in Nat
  OBVIOUS
<1>2. IsFiniteSet(1 .. n) /\ Cardinality(1 .. n) = n
  <2> HIDE DEF n
  <2>1. 1 \in Int /\ n \in Int
    BY <1>1
  <2>2. /\ IsFiniteSet(1 .. n)
        /\ Cardinality(1 .. n) = IF 1 > n THEN 0 ELSE n - 1 + 1
    BY <2>1, FS_Interval
  <2> QED  BY <1>1, <2>2
<1>3. width \in Nat /\ width <= n
  <2>1. bits \subseteq 1 .. n
    OBVIOUS
  <2> HIDE DEF n, bits
  <2> QED  BY <1>1, <1>2, <2>1, FS_Subset, FS_CardinalityType
<1>4. all \in Seq(LeafPin) /\ Len(all) = n
  BY RowPinsTyped
<1>5. SubSeq(all, 1, width) \in Seq(LeafPin)
  <2> HIDE DEF all, width, n
  <2>1. \A i \in 1 .. width : all[i] \in LeafPin
    BY <1>1, <1>3, <1>4
  <2> QED  BY <1>3, <2>1, SubSeqProperties
<1> QED  BY <1>5 DEF TablePins

LEMMA TypesInit == Init => TypeOK /\ DirtyIsListed
<1> SUFFICES ASSUME Init PROVE TypeOK /\ DirtyIsListed
  OBVIOUS
<1>1. /\ value \in [Leaf -> Observation] /\ dirty \in [Node -> BOOLEAN]
      /\ cols \in [Node -> SUBSET Reading]
  BY DEF Init, Observation, Abstract!Observation
<1>2. /\ retention \in {"All", "Frontier"} /\ output \in Node \cup {NoNode}
      /\ query \in 1 .. MaxQuery
  BY CreationAssumption, BoundAssumption DEF Init
<1>3. walk \in Walking
  BY DEF Init, NoWalk, Walking
<1>4. table \in Tabling
  BY DEF Init, NoTable, Tabling
<1>5. /\ changed = <<>> /\ changed \in Seq(Node) /\ queue \in Seq(LeafPin)
  BY DEF Init
<1>7. evaluated \in BOOLEAN /\ pc \in Steps /\ todo \subseteq Node
  BY DEF Init, Steps
<1>6. DirtyIsListed
  BY <1>5 DEF Init, DirtyIsListed, Elements
<1> QED  BY <1>1, <1>2, <1>3, <1>4, <1>5, <1>6, <1>7 DEF TypeOK

\* The pins a call sets are pins of leaves.
LEMMA CallQueueTyped ==
  ASSUME NEW batch \in Batches, Abstract!Valid(batch)
  PROVE  batch \in Seq(LeafPin)
<1>1. PICK n \in 0 .. MaxBatch : batch \in [1 .. n -> Abstract!Pin]
  BY DEF Batches, Abstract!Batches
<1>2. n \in Nat /\ Len(batch) = n
  BY <1>1, BoundAssumption
<1>3. \A i \in 1 .. n : batch[i] \in LeafPin
  BY <1>1, <1>2, BoundAssumption DEF Abstract!Valid, Abstract!Pin, Pinnable, LeafPin
<1> QED  BY <1>1, <1>2, <1>3

LEMMA ListingTyped ==
  ASSUME NEW listed \in Listings
  PROVE  listed \in Seq(Leaf)
BY BoundAssumption DEF Listings

\* What a column can hold.
LEMMA ReadingsTyped ==
  ASSUME TypeOK
  PROVE  /\ \A n \in Node : Fold(n) \in SUBSET Reading
         /\ Torn \in SUBSET Reading
         /\ {<<query, NoNode, "free">>} \in SUBSET Reading
<1>1. /\ 0 \in 0 .. MaxQuery /\ query \in 0 .. MaxQuery /\ "free" \in Observation
      /\ NoNode \in Node \cup {NoNode}
  BY BoundAssumption DEF TypeOK, Observation, Abstract!Observation
<1>2. Torn \in SUBSET Reading /\ {<<query, NoNode, "free">>} \in SUBSET Reading
  BY <1>1 DEF Torn, Reading
<1>3. ASSUME NEW n \in Node PROVE Fold(n) \in SUBSET Reading
  <2>1. <<query, n, Seen(n)>> \in Reading
    BY <1>1 DEF Reading, Seen, Abstract!Seen, TypeOK
  <2>2. n \notin Leaf \cup Marginal => cols[Left[n]] \subseteq Reading /\ cols[Right[n]] \subseteq Reading
    BY BelowCases, TreeFacts DEF TypeOK
  <2> QED  BY <2>1, <2>2 DEF Fold
<1> QED  BY <1>2, <1>3

\* Every step keeps the types.
LEMMA TypesNext == IInv /\ [Next]_vars => TypeOK'
<1> SUFFICES ASSUME IInv, [Next]_vars PROVE TypeOK'
  OBVIOUS
<1> USE DEF IInv
<1>90. ASSUME UNCHANGED <<fixed, observations, query, cols, todo, walk>>,
              pc' \in Steps, queue' \in Seq(LeafPin), table' \in Tabling
       PROVE  TypeOK'
  BY <1>90 DEF TypeOK, fixed, observations
<1>91. Undirty \in [Node -> BOOLEAN]
  BY ClearedMarks
<1>92. NoWalk \in Walking /\ NoTable \in Tabling
  BY DEF NoWalk, Walking, NoTable, Tabling
<1>93. <<>> \in Seq(Node) /\ \A n \in Node : Append(changed, n) \in Seq(Node)
  BY DEF TypeOK
<1>1. ASSUME NEW batch \in Batches, ApplyPins(batch) PROVE TypeOK'
  BY <1>90, <1>1, CallQueueTyped DEF TypeOK, ApplyPins, Rejects, Returns, Enters, Steps, observations
<1>2. CASE ClearPins
  <2> DEFINE pinned == {l \in Leaf : value[l] # "free"}
  <2>1. PICK k \in Nat : \E s \in [1 .. k -> pinned] :
          queue' = [i \in DOMAIN s |-> [leaf |-> s[i], value |-> "free"]]
    <3>1. Cardinality(pinned) \in Nat
      BY TreeAssumption, FS_Subset, FS_CardinalityType
    <3> QED  BY <1>2, <3>1 DEF ClearPins
  <2>2. queue' \in Seq(LeafPin)
    BY <2>1 DEF LeafPin, Observation, Abstract!Observation
  <2> QED  BY <1>2, <1>90, <2>2 DEF TypeOK, ClearPins, Enters, Steps, observations
<1>3. CASE ReplaceQuery
  <2>1. value' = value /\ dirty' = Undirty /\ changed' = <<>> /\ evaluated' = FALSE /\ pc' = "idle"
        /\ UNCHANGED <<fixed, cols, queue, walk, todo, table>>
    BY <1>3 DEF ReplaceQuery, Invalidate, ClearChanged, Enters
  <2>2. query' \in 1 .. MaxQuery
    BY <1>3, BoundAssumption DEF ReplaceQuery, TypeOK
  <2> QED  BY <1>91, <1>93, <2>1, <2>2 DEF TypeOK, fixed, Steps
<1>4. CASE BeginRead
  BY <1>90, <1>4 DEF TypeOK, BeginRead, Enters, Steps, observations
<1>5. ASSUME NEW listed \in Listings, CountTable(listed) PROVE TypeOK'
  <2>1. CASE Rejects
    BY <1>90, <2>1 DEF TypeOK, Rejects, Returns, Steps, observations
  <2>2. CASE ~Rejects
    <3> DEFINE before == [i \in 1 .. Len(listed) |-> [leaf |-> listed[i], value |-> value[listed[i]]]]
    <3>1. listed \in Seq(Leaf)
      BY ListingTyped
    <3>2. before \in Seq(LeafPin)
      BY <3>1 DEF TypeOK, LeafPin
    <3>3. /\ table' = [on |-> TRUE, listed |-> listed, rows |-> <<>>, failed |-> FALSE, before |-> before]
          /\ queue' = Abstract!RowPins(listed, 0)
          /\ pc' = "pin" /\ UNCHANGED <<fixed, observations, query, cols, walk, todo>>
      BY <1>5, <2>2 DEF CountTable, Enters
    <3> HIDE DEF before
    <3>4. table' \in Tabling
      BY <3>1, <3>2, <3>3 DEF Tabling
    <3> QED  BY <1>90, <3>1, <3>3, <3>4, RowPinsTyped DEF Steps
  <2> QED  BY <2>1, <2>2
<1>6. CASE TableRefused
  BY <1>90, <1>6 DEF TypeOK, TableRefused, Returns, Steps
<1>7. CASE ApplyPin
  <2>1. queue # <<>> /\ queue \in Seq(LeafPin) /\ queue' = Tail(queue)
    BY <1>7 DEF ApplyPin, TypeOK
  <2>2. queue' \in Seq(LeafPin)
    BY <2>1
  <2>3. queue[1] \in LeafPin
    BY <2>1
  <2>4. queue[1].leaf \in Leaf /\ queue[1].leaf \in Node /\ queue[1].value \in Observation
    BY <2>3, TreeFacts DEF LeafPin
  <2>5. value' \in [Leaf -> Observation]
    BY <1>7, <2>4 DEF ApplyPin, SetLeafPin, TypeOK
  <2>6. dirty' \in [Node -> BOOLEAN] /\ changed' \in Seq(Node) /\ evaluated' \in BOOLEAN
    <3>1. evaluated' \in BOOLEAN
      BY <1>7 DEF ApplyPin, SetLeafPin, TypeOK
    <3>2. dirty' \in [Node -> BOOLEAN]
      BY <1>7, <1>91, <2>4 DEF ApplyPin, SetLeafPin, TypeOK, ClearChanged
    <3>3. changed' \in {changed, <<>>, Append(changed, queue[1].leaf)}
      BY <1>7 DEF ApplyPin, SetLeafPin, ClearChanged
    <3>4. changed' \in Seq(Node)
      BY <1>93, <2>4, <3>3 DEF TypeOK
    <3> QED  BY <3>1, <3>2, <3>4
  <2>7. UNCHANGED <<fixed, query, cols, pc, walk, todo, table>>
    BY <1>7 DEF ApplyPin
  <2> QED  BY <2>2, <2>5, <2>6, <2>7 DEF TypeOK, fixed
<1>8. CASE PinsApplied
  <2>1. queue' = queue /\ (UNCHANGED table \/ table' = NoTable)
    BY <1>8 DEF PinsApplied
  <2>2. table' \in Tabling
    BY <1>92, <2>1 DEF TypeOK
  <2> QED  BY <1>90, <1>8, <2>1, <2>2 DEF TypeOK, PinsApplied, Returns, Steps
<1>9. ASSUME ReadRefused
      PROVE  pc' \in Steps /\ queue' \in Seq(LeafPin) /\ table' \in Tabling
  <2>1. table' \in Tabling
    BY <1>9 DEF ReadRefused, TypeOK, Tabling
  <2>2. table.before \in Seq(LeafPin)
    BY DEF TypeOK, Tabling
  <2> QED  BY <1>9, <2>1, <2>2 DEF ReadRefused, Returns, TypeOK, Steps
<1>10. CASE EnterRefused
  BY <1>90, <1>9, <1>10 DEF EnterRefused
<1>11. CASE NothingToRefresh
  BY <1>90, <1>11 DEF NothingToRefresh, TypeOK, Steps
<1>12. CASE StartIncremental
  <2>1. Len(changed) \in Nat /\ changed[1] \in Node
    BY <1>12 DEF StartIncremental, MustRefresh, TypeOK
  <2>2. /\ walk' = [leaf |-> 1, cur |-> changed[1], leaves |-> Len(changed), full |-> FALSE]
        /\ evaluated' = FALSE /\ pc' = "close"
        /\ UNCHANGED <<fixed, value, dirty, changed, query, cols, queue, todo, table>>
    BY <1>12 DEF StartIncremental
  <2>3. walk' \in Walking
    BY <2>1, <2>2 DEF Walking
  <2> QED  BY <2>2, <2>3 DEF TypeOK, fixed, Steps
<1>13. CASE StartFull
  <2>1. walk' \in Walking
    BY <1>13 DEF StartFull, NoWalk, Walking
  <2>2. cols' \in [Node -> SUBSET Reading]
    BY <1>13 DEF StartFull, TypeOK
  <2> QED  BY <1>13, <2>1, <2>2 DEF StartFull, TypeOK, fixed, Steps
<1>14. CASE MarkAncestor
  <2>1. Parent[walk.cur] \in Node /\ Parent[walk.cur] # NoNode
    BY <1>14, TreeFacts DEF MarkAncestor, PathMarked, Closing, TypeOK, Elements
  <2>2. walk' \in Walking
    BY <1>14, <2>1 DEF MarkAncestor, TypeOK, Walking
  <2>3. changed' \in Seq(Node) /\ dirty' \in [Node -> BOOLEAN]
    BY <1>14, <2>1 DEF MarkAncestor, TypeOK
  <2> QED  BY <1>14, <2>2, <2>3 DEF MarkAncestor, TypeOK, fixed
<1>15. CASE NextLeaf
  <2>1. Elements(changed) \subseteq Node
    BY DEF TypeOK, Elements
  <2>2. CASE walk.leaf < walk.leaves
    <3>1. changed[walk.leaf + 1] \in Node
      BY <1>15, <2>2 DEF NextLeaf, Closing, TypeOK, Walking
    <3>2. walk' \in Walking
      <4>1. walk' = [walk EXCEPT !.leaf = walk.leaf + 1, !.cur = changed[walk.leaf + 1]]
        BY <1>15, <2>2 DEF NextLeaf, TypeOK, Walking
      <4>2. walk \in Walking /\ walk.leaf + 1 \in Nat
        BY DEF TypeOK, Walking
      <4> QED  BY <3>1, <4>1, <4>2 DEF Walking
    <3>3. UNCHANGED <<pc, todo>>
      BY <1>15, <2>2 DEF NextLeaf, TypeOK, Walking
    <3> QED  BY <1>15, <3>2, <3>3 DEF NextLeaf, TypeOK, fixed, observations
  <2>3. CASE walk.leaf = walk.leaves
    <3>1. pc' = "fold" /\ todo' = Elements(changed) /\ walk' = walk
      BY <1>15, <2>3 DEF NextLeaf, TypeOK, Walking
    <3> QED  BY <1>15, <2>1, <3>1 DEF NextLeaf, TypeOK, fixed, observations, Steps
  <2> QED  BY <1>15, <2>2, <2>3 DEF NextLeaf
<1>16. ASSUME NEW n \in Node, FoldLevel(n) PROVE TypeOK'
  <2>1. cols' \in [Node -> SUBSET Reading]
    BY <1>16, ReadingsTyped DEF FoldLevel, TypeOK
  <2> QED  BY <1>16, <2>1 DEF FoldLevel, TypeOK, fixed, observations
<1>17. CASE Refreshed
  BY <1>17, <1>91, <1>92 DEF Refreshed, ClearChanged, TypeOK, fixed, Steps
<1>18. CASE FinishRead
  <2> DEFINE answer == IF output = NoNode THEN {<<query, NoNode, "free">>} ELSE cols[output]
  <2>1. answer \in SUBSET Reading
    BY ReadingsTyped DEF TypeOK
  <2>2. ReadReturns(answer)
    BY <1>18 DEF FinishRead
  <2> HIDE DEF answer
  <2>3. table' \in Tabling
    <3>1. table \in Tabling /\ Append(table.rows, answer) \in Seq(SUBSET Reading)
      BY <2>1 DEF TypeOK, Tabling
    <3>2. table' = table \/ table' = [table EXCEPT !.rows = Append(table.rows, answer)]
      BY <2>2 DEF ReadReturns
    <3> QED  BY <3>1, <3>2 DEF Tabling
  <2>4. table.listed \in Seq(Leaf) /\ table.before \in Seq(LeafPin)
    BY DEF TypeOK, Tabling
  <2>5. pc' \in Steps /\ queue' \in Seq(LeafPin)
    BY <2>2, <2>4, TablePinsTyped DEF ReadReturns, Returns, TypeOK, Steps
  <2> QED  BY <1>90, <1>18, <2>3, <2>5 DEF FinishRead
<1>19. ASSUME MayTear PROVE cols' \in [Node -> SUBSET Reading]
  BY <1>19, ReadingsTyped DEF MayTear, TypeOK
<1>20. CASE RefuseRead
  <2>1. /\ changed' = <<>> /\ dirty' = Undirty /\ evaluated' = FALSE
        /\ walk' = NoWalk /\ todo' = {} /\ UNCHANGED <<fixed, value, query>>
    BY <1>20 DEF RefuseRead, Invalidate, ClearChanged
  <2>2. MayTear /\ ReadRefused
    BY <1>20 DEF RefuseRead
  <2> QED  BY <1>9, <1>19, <1>91, <1>92, <1>93, <2>1, <2>2 DEF TypeOK, fixed
<1>21. CASE Unwind
  BY <1>92, <1>19, <1>21 DEF Unwind, TypeOK, fixed, observations, Returns, Steps
<1>22. CASE UNCHANGED vars
  BY <1>90, <1>22 DEF vars, TypeOK
<1> QED  BY <1>1, <1>2, <1>3, <1>4, <1>5, <1>6, <1>7, <1>8, <1>10, <1>11, <1>12, <1>13, <1>14, <1>15,
            <1>16, <1>17, <1>18, <1>20, <1>21, <1>22 DEF Next, Call, Continue
------------------------------------------------------------------------------
(* The inductive invariant. *)

LEMMA IInvInit == Init => IInv
<1> SUFFICES ASSUME Init PROVE IInv
  OBVIOUS
<1>1. TypeOK /\ DirtyIsListed
  BY TypesInit
<1>2. Evaluated /\ Closing /\ Folding /\ Finishing
  BY DEF Init, Evaluated, Closing, Folding, Finishing
<1> QED  BY <1>1, <1>2 DEF IInv

\* A pin of a leaf that a level does not read, or no change at all, leaves the
\* level's fresh value as it is.
LEMMA FreshKept ==
  ASSUME TypeOK, NEW leaf \in Leaf, NEW val, NEW n \in Node,
         leaf \notin Below[n] \/ value[leaf] = val
  PROVE  Abstract!Fresh(query, [value EXCEPT ![leaf] = val], n) = Abstract!Fresh(query, value, n)
<1> DEFINE new == [value EXCEPT ![leaf] = val]
<1>1. \A m \in Below[n] : Abstract!Seen(new, m) = Abstract!Seen(value, m)
  BY DEF Abstract!Seen, TypeOK
<1>2. Abstract!Fresh(query, new, n) = Abstract!Fresh(query, value, n)
  <2> HIDE DEF new
  <2> QED  BY <1>1 DEF Abstract!Fresh
<1> QED  BY <1>2

\* Marking one more level keeps marks and list in step.
LEMMA MarkListed ==
  ASSUME TypeOK, DirtyIsListed, NEW n \in Node, ~dirty[n],
         changed' = Append(changed, n), dirty' = [dirty EXCEPT ![n] = TRUE]
  PROVE  /\ DirtyIsListed'
         /\ Elements(changed)' = Elements(changed) \cup {n}
<1>1. /\ changed \in Seq(Node) /\ Len(changed) \in Nat
      /\ Len(changed') = Len(changed) + 1
      /\ \A i \in 1 .. Len(changed) : changed'[i] = changed[i]
      /\ changed'[Len(changed) + 1] = n
  BY DEF TypeOK
<1>2. Elements(changed)' = Elements(changed) \cup {n}
  BY <1>1 DEF Elements
<1>3. \A m \in Node : dirty'[m] <=> m \in Elements(changed)'
  BY <1>2 DEF TypeOK, DirtyIsListed
<1>4. \A i \in 1 .. Len(changed) : changed[i] # n
  BY DEF DirtyIsListed, Elements
<1>5. \A i, j \in 1 .. Len(changed') : changed'[i] = changed'[j] => i = j
  BY <1>1, <1>4 DEF DirtyIsListed
<1> QED  BY <1>2, <1>3, <1>5 DEF DirtyIsListed

\* Between calls and between the steps that touch nothing cached.
LEMMA QuietStep ==
  ASSUME IInv, TypeOK', UNCHANGED <<fixed, observations, query, cols>>,
         pc' \in {"idle", "pin", "read"}
  PROVE  IInv'
BY DEF IInv, DirtyIsListed, Elements, Evaluated, Closing, Folding, Finishing, Current, Abstract!Fresh,
       Abstract!Seen, fixed, observations

\* An invalidated cache satisfies everything.
LEMMA InvalidStep ==
  ASSUME IInv, TypeOK', changed' = <<>>, dirty' = Undirty, evaluated' = FALSE,
         pc' \in {"idle", "pin", "read"}
  PROVE  IInv'
<1>1. dirty' = [n \in Node |-> FALSE]
  BY ClearedMarks DEF IInv
<1>2. DirtyIsListed'
  BY <1>1 DEF DirtyIsListed, Elements
<1>3. Evaluated' /\ Closing' /\ Folding' /\ Finishing'
  BY DEF Evaluated, Closing, Folding, Finishing
<1> QED  BY <1>2, <1>3 DEF IInv

\* Observing a leaf.
LEMMA PinStep == IInv /\ TypeOK' /\ ApplyPin => IInv'
<1> SUFFICES ASSUME IInv, TypeOK', ApplyPin PROVE IInv'
  OBVIOUS
<1> DEFINE leaf == queue[1].leaf
           val  == queue[1].value
<1>1. leaf \in Leaf /\ leaf \in Node
  <2>1. queue \in Seq(LeafPin) /\ queue # <<>>
    BY DEF ApplyPin, IInv, TypeOK
  <2>2. queue[1] \in LeafPin
    BY <2>1
  <2> QED  BY <2>2, TreeFacts DEF LeafPin
<1>2. /\ SetLeafPin(leaf, val) /\ value' = [value EXCEPT ![leaf] = val]
      /\ UNCHANGED <<fixed, query, cols>> /\ pc' = "pin"
  BY DEF ApplyPin, SetLeafPin
<1> HIDE DEF leaf, val
<1>3. Closing' /\ Folding' /\ Finishing'
  BY <1>2 DEF Closing, Folding, Finishing
<1>4. ASSUME value[leaf] = val, UNCHANGED <<dirty, changed, evaluated>> PROVE IInv'
  <2>1. value' = value
    BY <1>1, <1>2, <1>4 DEF IInv, TypeOK
  <2> QED  BY <1>2, <1>4, <2>1, QuietStep DEF observations
<1>5. CASE retention = "Frontier"
  <2>1. UNCHANGED <<dirty, changed>> /\ evaluated' = (evaluated /\ value[leaf] = val)
    BY <1>2, <1>5 DEF SetLeafPin
  <2>2. CASE evaluated'
    BY <1>4, <2>1, <2>2 DEF IInv, TypeOK
  <2>3. CASE ~evaluated'
    BY <1>3, <2>1, <2>3 DEF IInv, DirtyIsListed, Elements, Evaluated
  <2> QED  BY <2>2, <2>3
<1>6. CASE retention = "All" /\ ~evaluated
  BY <1>2, <1>6, InvalidStep DEF SetLeafPin, ClearChanged, IInv, TypeOK
<1>7. CASE retention = "All" /\ evaluated
  <2>1. CASE value[leaf] = val
    BY <1>2, <1>4, <1>7, <2>1 DEF SetLeafPin
  <2>2. ASSUME value[leaf] # val
        PROVE  /\ DirtyIsListed'
               /\ Elements(changed)' = Elements(changed) \cup {leaf}
               /\ evaluated' /\ retention' = "All"
    <3>0. evaluated' /\ retention' = "All"
      BY <1>2, <1>7 DEF SetLeafPin, fixed
    <3>1. CASE dirty[leaf]
      <4>1. UNCHANGED <<dirty, changed>>
        BY <1>2, <1>7, <3>1 DEF SetLeafPin
      <4> QED  BY <1>1, <3>0, <3>1, <4>1 DEF IInv, DirtyIsListed, Elements
    <3>2. CASE ~dirty[leaf]
      <4>1. changed' = Append(changed, leaf) /\ dirty' = [dirty EXCEPT ![leaf] = TRUE]
        BY <1>2, <1>7, <2>2, <3>2 DEF SetLeafPin
      <4> QED  BY <1>1, <3>0, <3>2, <4>1, MarkListed DEF IInv
    <3> QED  BY <3>1, <3>2
  <2>3. CASE value[leaf] # val
    <3>1. ASSUME NEW n \in Node, Below[n] \cap Elements(changed)' = {} PROVE Current(n)'
      <4>1. leaf \notin Below[n] /\ Below[n] \cap Elements(changed) = {}
        BY <2>2, <2>3, <3>1
      <4>2. Current(n)
        BY <1>7, <4>1 DEF IInv, Evaluated
      <4> QED  BY <1>1, <1>2, <4>1, <4>2, FreshKept DEF Current, IInv
    <3>2. Evaluated'
      BY <1>1, <1>7, <2>2, <2>3, <3>1 DEF Evaluated, IInv
    <3> QED  BY <1>3, <2>2, <2>3, <3>2 DEF IInv
  <2> QED  BY <2>1, <2>3
<1> QED  BY <1>5, <1>6, <1>7 DEF IInv, TypeOK
------------------------------------------------------------------------------
(* A read. *)

\* Nothing is pending: the answer is the one already there.
LEMMA NothingStep == IInv /\ TypeOK' /\ NothingToRefresh => IInv'
<1> SUFFICES ASSUME IInv, TypeOK', NothingToRefresh PROVE IInv'
  OBVIOUS
<1>1. UNCHANGED <<fixed, observations, query, cols>> /\ pc' = "finish"
      /\ (output = NoNode \/ (evaluated /\ changed = <<>>))
  BY DEF NothingToRefresh
<1>2. DirtyIsListed' /\ Evaluated'
  BY <1>1 DEF IInv, DirtyIsListed, Elements, Evaluated, Current, Abstract!Fresh, Abstract!Seen,
              fixed, observations
<1>3. Closing' /\ Folding' /\ Finishing'
  BY <1>1 DEF Closing, Folding, Finishing, fixed, observations
<1> QED  BY <1>2, <1>3 DEF IInv

\* The climb starts with every marked leaf still to come but the first.
LEMMA StartIncrementalStep == IInv /\ TypeOK' /\ StartIncremental => IInv'
<1> SUFFICES ASSUME IInv, TypeOK', StartIncremental PROVE IInv'
  OBVIOUS
<1>1. /\ walk' = [leaf |-> 1, cur |-> changed[1], leaves |-> Len(changed), full |-> FALSE]
      /\ evaluated /\ retention = "All" /\ ~evaluated' /\ pc' = "close"
      /\ UNCHANGED <<fixed, value, dirty, changed, query, cols>>
  BY DEF StartIncremental
<1>2. changed \in Seq(Node) /\ changed # <<>> /\ Len(changed) \in Nat /\ Len(changed) >= 1
  BY <1>1 DEF StartIncremental, MustRefresh, IInv, TypeOK
<1>3. DirtyIsListed' /\ Evaluated' /\ Folding' /\ Finishing'
  BY <1>1 DEF IInv, DirtyIsListed, Elements, Evaluated, Folding, Finishing
<1>4. FirstLeaves' = Elements(changed)
  BY <1>1 DEF FirstLeaves, Elements
<1>5. ASSUME NEW n \in Node, Below[n] \cap FirstLeaves' = {} PROVE Current(n)'
  <2>1. Current(n)
    BY <1>1, <1>4, <1>5 DEF IInv, Evaluated
  <2> QED  BY <1>1, <2>1 DEF Current, Abstract!Fresh, Abstract!Seen
<1>6. \A i \in 1 .. Len(changed) : i = 1 \/ i \in 2 .. Len(changed)
  BY <1>2
<1>7. changed[1] \in Elements(changed)
  BY <1>2 DEF Elements
<1>8. Closing'
  <2>1. /\ retention' = "All" /\ ~evaluated' /\ ~walk.full'
        /\ walk.leaf' = 1 /\ walk.leaves' = Len(changed) /\ walk.cur' = changed[1]
        /\ changed' = changed
    BY <1>1 DEF fixed
  <2> QED  BY <1>2, <1>5, <1>6, <1>7, <2>1 DEF Closing, Elements
<1> QED  BY <1>3, <1>8 DEF IInv

\* A full pass has every level to come.
LEMMA StartFullStep == IInv /\ TypeOK' /\ StartFull => IInv'
<1> SUFFICES ASSUME IInv, TypeOK', StartFull PROVE IInv'
  OBVIOUS
<1>1. /\ ~evaluated' /\ pc' = "fold" /\ todo' = Node /\ walk'.full
      /\ UNCHANGED <<fixed, value, dirty, changed, query>>
  BY DEF StartFull, NoWalk
<1>2. DirtyIsListed' /\ Evaluated' /\ Closing' /\ Folding' /\ Finishing'
  BY <1>1 DEF IInv, DirtyIsListed, Elements, Evaluated, Closing, Folding, Finishing
<1> QED  BY <1>2 DEF IInv

\* One level more of the path is listed, and its own parent is next.
LEMMA MarkAncestorStep == IInv /\ TypeOK' /\ MarkAncestor => IInv'
<1> SUFFICES ASSUME IInv, TypeOK', MarkAncestor PROVE IInv'
  OBVIOUS
<1> DEFINE parent == Parent[walk.cur]
           len    == Len(changed)
<1>1. /\ pc = "close" /\ pc' = "close" /\ parent # NoNode /\ ~dirty[parent]
      /\ changed' = Append(changed, parent) /\ dirty' = [dirty EXCEPT ![parent] = TRUE]
      /\ walk' = [walk EXCEPT !.cur = parent]
      /\ UNCHANGED <<fixed, value, evaluated, query, cols>>
  BY DEF MarkAncestor, PathMarked
<1>2. walk.cur \in Node /\ parent \in Node
  BY <1>1, TreeFacts DEF IInv, Closing, Elements, TypeOK
<1>3. DirtyIsListed' /\ Elements(changed)' = Elements(changed) \cup {parent}
  BY <1>1, <1>2, MarkListed DEF IInv
<1>4. /\ len \in Nat /\ Len(changed') = len + 1
      /\ \A i \in 1 .. len : changed'[i] = changed[i]
      /\ changed'[len + 1] = parent
  BY <1>1, <1>2 DEF IInv, TypeOK
<1>5. /\ walk'.leaf = walk.leaf /\ walk'.leaves = walk.leaves /\ walk'.full = walk.full
      /\ walk'.cur = parent
      /\ walk.leaf \in Nat /\ walk.leaves \in Nat
  BY <1>1 DEF IInv, TypeOK, Walking
<1> HIDE DEF parent, len
<1>6. /\ retention = "All" /\ ~evaluated /\ walk.leaf \in 1 .. walk.leaves /\ walk.leaves <= len
      /\ ~walk.full
      /\ \A n \in Node : Below[n] \cap FirstLeaves = {} => Current(n)
      /\ \A i \in 1 .. len : Done(changed[i]) \/ changed[i] = walk.cur \/ i \in walk.leaf + 1 .. walk.leaves
  BY <1>1 DEF IInv, Closing, len
<1>7. FirstLeaves' = FirstLeaves
  BY <1>4, <1>5, <1>6 DEF FirstLeaves
<1>8. \A n \in Node : Current(n)' <=> Current(n)
  BY <1>1 DEF Current, Abstract!Fresh, Abstract!Seen
<1>9. ASSUME NEW i \in 1 .. Len(changed')
      PROVE  Done(changed[i])' \/ changed'[i] = parent \/ i \in walk.leaf + 1 .. walk.leaves
  <2>1. CASE i = len + 1
    BY <1>4, <2>1
  <2>2. CASE i \in 1 .. len
    <3>1. changed'[i] = changed[i] /\ changed[i] \in Node
      BY <1>4, <2>2 DEF IInv, TypeOK, len
    <3>2. CASE Done(changed[i])
      BY <1>1, <1>2, <3>1, <3>2, TreeFacts DEF Done, IInv, TypeOK
    <3>3. CASE changed[i] = walk.cur
      BY <1>1, <1>2, <3>1, <3>3 DEF Done, IInv, TypeOK, parent
    <3> QED  BY <1>6, <2>2, <3>2, <3>3
  <2> QED  BY <1>4, <1>9, <2>1, <2>2
<1>10. Closing'
  <2>1. /\ retention' = "All" /\ ~evaluated'
        /\ walk'.leaf \in 1 .. walk'.leaves /\ walk'.leaves <= Len(changed')
        /\ walk'.cur \in Elements(changed)' /\ ~walk'.full
    BY <1>1, <1>3, <1>4, <1>5, <1>6 DEF fixed
  <2>2. \A n \in Node : Below[n] \cap FirstLeaves' = {} => Current(n)'
    BY <1>6, <1>7, <1>8
  <2>3. \A i \in 1 .. Len(changed') :
          Done(changed[i])' \/ changed'[i] = walk'.cur \/ i \in walk'.leaf + 1 .. walk'.leaves
    BY <1>5, <1>9
  <2> QED  BY <2>1, <2>2, <2>3 DEF Closing
<1>11. Evaluated' /\ Folding' /\ Finishing'
  BY <1>1, <1>6 DEF Evaluated, Folding, Finishing
<1> QED  BY <1>3, <1>10, <1>11 DEF IInv

\* The climb is over: the next leaf's begins, or the listed levels, which now
\* hold every ancestor of a marked leaf, are all that is left to fold.
LEMMA NextLeafStep == IInv /\ TypeOK' /\ NextLeaf => IInv'
<1> SUFFICES ASSUME IInv, TypeOK', NextLeaf PROVE IInv'
  OBVIOUS
<1>1. /\ pc = "close" /\ PathMarked
      /\ UNCHANGED <<fixed, value, dirty, changed, evaluated, query, cols>>
  BY DEF NextLeaf, observations
<1>2. /\ retention = "All" /\ ~evaluated /\ walk.leaf \in 1 .. walk.leaves /\ walk.leaves <= Len(changed)
      /\ ~walk.full
      /\ \A n \in Node : Below[n] \cap FirstLeaves = {} => Current(n)
      /\ \A i \in 1 .. Len(changed) :
           Done(changed[i]) \/ changed[i] = walk.cur \/ i \in walk.leaf + 1 .. walk.leaves
  BY <1>1 DEF IInv, Closing
<1>3. /\ walk.leaf \in Nat /\ walk.leaves \in Nat /\ Len(changed) \in Nat /\ walk \in Walking
      /\ \A i \in 1 .. Len(changed) : changed[i] \in Node
  BY DEF IInv, TypeOK, Walking
<1>4. Done(walk.cur)
  BY <1>1 DEF PathMarked, Done
<1>5. \A i \in 1 .. Len(changed) : Done(changed[i]) \/ i \in walk.leaf + 1 .. walk.leaves
  BY <1>2, <1>4
<1>6. \A n \in Node : Current(n)' <=> Current(n)
  BY <1>1 DEF Current, Abstract!Fresh, Abstract!Seen
<1>7. DirtyIsListed' /\ Evaluated'
  BY <1>1, <1>2 DEF IInv, DirtyIsListed, Elements, Evaluated
<1>8. CASE walk.leaf < walk.leaves
  <2>1. /\ walk' = [walk EXCEPT !.leaf = walk.leaf + 1, !.cur = changed[walk.leaf + 1]]
        /\ pc' = "close"
    BY <1>1, <1>3, <1>8 DEF NextLeaf
  <2>2. /\ walk'.leaf = walk.leaf + 1 /\ walk'.cur = changed[walk.leaf + 1]
        /\ walk'.leaves = walk.leaves /\ walk'.full = walk.full
    BY <1>3, <2>1 DEF Walking
  <2>3. FirstLeaves' = FirstLeaves
    BY <1>1, <2>2 DEF FirstLeaves
  <2>4. walk.leaf + 1 \in 1 .. Len(changed)
    BY <1>2, <1>3, <1>8
  <2>5. ASSUME NEW i \in 1 .. Len(changed)
        PROVE  Done(changed[i])' \/ changed[i] = walk'.cur \/ i \in walk'.leaf + 1 .. walk'.leaves
    <3>1. Done(changed[i]) => Done(changed[i])'
      BY <1>1 DEF Done
    <3>2. i \in walk.leaf + 1 .. walk.leaves => i = walk.leaf + 1 \/ i \in walk.leaf + 2 .. walk.leaves
      BY <1>3
    <3> QED  BY <1>3, <1>5, <2>2, <3>1, <3>2
  <2>6. Closing'
    <3>1. walk'.leaf \in 1 .. walk'.leaves /\ walk'.leaves <= Len(changed')
      BY <1>1, <1>2, <1>3, <1>8, <2>2
    <3>2. walk'.cur \in Elements(changed)'
      BY <1>1, <2>2, <2>4 DEF Elements
    <3> QED  BY <1>1, <1>2, <1>6, <2>2, <2>3, <2>5, <3>1, <3>2 DEF Closing, fixed
  <2>7. Folding' /\ Finishing'
    BY <2>1 DEF Folding, Finishing
  <2> QED  BY <1>7, <2>6, <2>7 DEF IInv
<1>9. CASE walk.leaf = walk.leaves
  <2>1. pc' = "fold" /\ todo' = Elements(changed) /\ walk' = walk
    BY <1>1, <1>3, <1>9 DEF NextLeaf
  <2>2. \A c \in Elements(changed) : Parent[c] = NoNode \/ Parent[c] \in Elements(changed)
    <3>1. \A i \in 1 .. Len(changed) : Done(changed[i])
      BY <1>3, <1>5, <1>9
    <3>2. \A n \in Node : dirty[n] => n \in Elements(changed)
      BY DEF IInv, DirtyIsListed
    <3>3. ASSUME NEW c \in Elements(changed) PROVE Parent[c] = NoNode \/ Parent[c] \in Elements(changed)
      <4>1. PICK i \in 1 .. Len(changed) : c = changed[i]
        BY <3>3 DEF Elements
      <4>2. c \in Node /\ (Parent[c] = NoNode \/ dirty[Parent[c]])
        BY <1>3, <3>1, <4>1 DEF Done
      <4>3. Parent[c] = NoNode \/ Parent[c] \in Node
        BY <4>2, TreeFacts
      <4> QED  BY <3>2, <4>2, <4>3
    <3> QED  BY <3>3
  <2>3. Elements(changed) \subseteq Node /\ FirstLeaves \subseteq Elements(changed)
    BY <1>2, <1>3 DEF Elements, FirstLeaves
  <2>4. ASSUME NEW n \in Node \ todo' PROVE Current(n)'
    <3>1. ASSUME NEW m \in Elements(changed), m \in Below[n] PROVE FALSE
      <4>1. n \in Elements(changed)
        <5> DEFINE C == Elements(changed)
        <5>1. C \subseteq Node /\ (\A c \in C : Parent[c] = NoNode \/ Parent[c] \in C)
          BY <2>2, <2>3
        <5> HIDE DEF C
        <5>2. m \in C /\ n \in Node
          BY <2>4, <3>1 DEF C
        <5>3. n \in C
          BY <3>1, <5>1, <5>2, AncestorsListed
        <5> QED  BY <5>3 DEF C
      <4> QED  BY <2>1, <2>4, <4>1
    <3>2. Below[n] \cap FirstLeaves = {}
      BY <2>3, <3>1
    <3> QED  BY <1>2, <1>6, <2>4, <3>2
  <2>5. Folding'
    BY <1>1, <1>2, <2>1, <2>4 DEF Folding, fixed
  <2>6. Closing' /\ Finishing'
    BY <2>1 DEF Closing, Finishing
  <2> QED  BY <1>7, <2>5, <2>6 DEF IInv
<1> QED  BY <1>8, <1>9 DEF NextLeaf
\* A level is folded once both its children are current: they come before it,
\* and a released column's parent is folded already.
LEMMA FoldLevelStep ==
  ASSUME IInv, TypeOK', NEW n \in Node, FoldLevel(n)
  PROVE  IInv'
<1>1. /\ pc = "fold" /\ pc' = "fold" /\ IsNext(n) /\ n \in todo
      /\ cols' = [m \in Node |-> IF m = n THEN Fold(n) ELSE IF m \in Released(n) THEN {} ELSE cols[m]]
      /\ todo' = todo \ {n}
      /\ UNCHANGED <<fixed, observations, query, walk>>
  BY DEF FoldLevel, IsNext
<1>2. /\ ~evaluated /\ (~walk.full => retention = "All")
      /\ \A k \in Node \ todo :
           (retention = "All" \/ k = output \/ Parent[k] = NoNode \/ Parent[k] \in todo) => Current(k)
  BY <1>1 DEF IInv, Folding
<1>3. DirtyIsListed' /\ Evaluated' /\ Closing' /\ Finishing'
  BY <1>1, <1>2 DEF IInv, DirtyIsListed, Elements, Evaluated, Closing, Finishing, observations
<1>4. ASSUME n \notin Leaf \cup Marginal PROVE Current(Left[n]) /\ Current(Right[n])
  <2>1. n \in Internal
    BY <1>4 DEF Internal
  <2>2. ASSUME NEW k \in {Left[n], Right[n]} PROVE Current(k)
    <3>1. k \in Node /\ Parent[k] = n /\ n # NoNode
      BY <2>1, TreeFacts
    <3>2. Pos[k] < Pos[n] /\ Post[k] < Post[n]
      BY <3>1, OrderAssumption
    <3>3. /\ Pos[k] \in Nat /\ Pos[n] \in Nat /\ Post[k] \in Nat /\ Post[n] \in Nat
      BY <3>1, OrderAssumption
    <3>4. k \notin todo
      BY <1>1, <3>2, <3>3 DEF IsNext
    <3> QED  BY <1>1, <1>2, <3>1, <3>4
  <2> QED  BY <2>2
<1>5. Fold(n) = Abstract!Fresh(query, value, n)
  BY <1>4, FoldIsFresh
<1>6. ASSUME NEW k \in Node \ todo',
             retention = "All" \/ k = output \/ Parent[k] = NoNode \/ Parent[k] \in todo'
      PROVE  cols'[k] = Abstract!Fresh(query, value, k)
  <2>1. CASE k = n
    BY <1>1, <1>5, <2>1
  <2>2. CASE k # n
    <3>1. k \in Node \ todo
      BY <1>1, <1>6, <2>2
    <3>2. Current(k)
      BY <1>1, <1>2, <1>6, <3>1
    <3>3. k \notin Released(n)
      <4>1. SUFFICES ASSUME k \in Released(n) PROVE FALSE
        OBVIOUS
      <4>2. retention = "Frontier" /\ n \in Internal /\ k \in {Left[n], Right[n]} /\ k # output
        BY <4>1 DEF Released
      <4>3. Parent[k] = n /\ n # NoNode
        BY <4>2, TreeFacts
      <4> QED  BY <1>1, <1>6, <4>2, <4>3
    <3>4. cols'[k] = cols[k]
      BY <1>1, <2>2, <3>3
    <3> QED  BY <3>2, <3>4 DEF Current
  <2> QED  BY <2>1, <2>2
<1>7. Folding'
  <2>1. /\ ~evaluated' /\ (~walk'.full => retention' = "All") /\ retention' = retention
        /\ output' = output /\ query' = query /\ value' = value
    BY <1>1, <1>2 DEF fixed, observations
  <2>2. ASSUME NEW k \in Node \ todo',
               retention' = "All" \/ k = output' \/ Parent[k] = NoNode \/ Parent[k] \in todo'
        PROVE  Current(k)'
    <3>1. cols'[k] = Abstract!Fresh(query, value, k)
      BY <1>6, <2>1, <2>2
    <3> QED  BY <2>1, <3>1 DEF Current, Abstract!Fresh, Abstract!Seen
  <2> QED  BY <2>1, <2>2 DEF Folding
<1> QED  BY <1>3, <1>7 DEF IInv

\* The walk is over: every column kept is current, and nothing is marked.
LEMMA RefreshedStep == IInv /\ TypeOK' /\ Refreshed => IInv'
<1> SUFFICES ASSUME IInv, TypeOK', Refreshed PROVE IInv'
  OBVIOUS
<1>1. /\ pc = "fold" /\ todo = {} /\ changed' = <<>> /\ dirty' = Undirty /\ evaluated' /\ pc' = "finish"
      /\ UNCHANGED <<fixed, value, query, cols>>
  BY DEF Refreshed, ClearChanged
<1>2. dirty' = [n \in Node |-> FALSE]
  BY <1>1, ClearedMarks DEF IInv
<1>3. DirtyIsListed'
  BY <1>1, <1>2 DEF DirtyIsListed, Elements
<1>4. \A n \in Node : retention = "All" \/ n = output => Current(n)
  BY <1>1 DEF IInv, Folding
<1>5. \A n \in Node : Current(n)' <=> Current(n)
  BY <1>1 DEF Current, Abstract!Fresh, Abstract!Seen
<1>6. Evaluated'
  <2>1. output # NoNode => output \in Node
    BY DEF IInv, TypeOK
  <2>2. Elements(changed)' = {}
    BY <1>1 DEF Elements
  <2>3. retention' = retention /\ output' = output
    BY <1>1 DEF fixed
  <2>4. retention' = "All" => \A n \in Node : Current(n)'
    BY <1>4, <1>5, <2>3
  <2>5. output' # NoNode => Current(output)'
    BY <1>1, <1>4, <2>1, <2>3 DEF Current, Abstract!Fresh, Abstract!Seen
  <2> QED  BY <1>1, <2>2, <2>4, <2>5 DEF Evaluated
<1>7. Closing' /\ Folding' /\ Finishing'
  BY <1>1 DEF Closing, Folding, Finishing
<1> QED  BY <1>3, <1>6, <1>7 DEF IInv

\* A panic leaves the marks as they stand.  Outside the walk it leaves the
\* columns too; inside, the cache has said since the start that it is not
\* evaluated.
LEMMA UnwindStep == IInv /\ TypeOK' /\ Unwind => IInv'
<1> SUFFICES ASSUME IInv, TypeOK', Unwind PROVE IInv'
  OBVIOUS
<1>1. /\ MayTear /\ pc' = "idle" /\ todo' = {} /\ UNCHANGED <<fixed, observations, query>>
  BY DEF Unwind, Returns
<1>2. CASE UNCHANGED cols
  BY <1>1, <1>2, QuietStep
<1>3. CASE pc = "fold"
  <2>1. ~evaluated
    BY <1>3 DEF IInv, Folding
  <2> QED  BY <1>1, <2>1 DEF IInv, DirtyIsListed, Elements, Evaluated, Closing, Folding, Finishing, observations
<1> QED  BY <1>1, <1>2, <1>3 DEF MayTear

LEMMA IInvNext == IInv /\ [Next]_vars => IInv'
<1> SUFFICES ASSUME IInv, [Next]_vars PROVE IInv'
  OBVIOUS
<1>0. TypeOK'
  BY TypesNext
<1>1. ASSUME NEW batch \in Batches, ApplyPins(batch) PROVE IInv'
  BY <1>0, <1>1, QuietStep DEF ApplyPins, Rejects, Returns, Enters
<1>2. CASE ClearPins
  BY <1>0, <1>2, QuietStep DEF ClearPins, Enters
<1>3. CASE ReplaceQuery
  BY <1>0, <1>3, InvalidStep DEF ReplaceQuery, Invalidate, ClearChanged, Enters
<1>4. CASE BeginRead
  BY <1>0, <1>4, QuietStep DEF BeginRead, Enters
<1>5. ASSUME NEW listed \in Listings, CountTable(listed) PROVE IInv'
  BY <1>0, <1>5, QuietStep DEF CountTable, Rejects, Returns, Enters
<1>6. CASE TableRefused
  BY <1>0, <1>6, QuietStep DEF TableRefused, Returns
<1>7. CASE ApplyPin
  BY <1>0, <1>7, PinStep
<1>8. CASE PinsApplied
  BY <1>0, <1>8, QuietStep DEF PinsApplied, Returns
<1>9. ReadRefused => pc' \in {"idle", "pin", "read"}
  BY DEF ReadRefused, Returns
<1>10. CASE EnterRefused
  BY <1>0, <1>9, <1>10, QuietStep DEF EnterRefused
<1>11. CASE NothingToRefresh
  BY <1>0, <1>11, NothingStep
<1>12. CASE StartIncremental
  BY <1>0, <1>12, StartIncrementalStep
<1>13. CASE StartFull
  BY <1>0, <1>13, StartFullStep
<1>14. CASE MarkAncestor
  BY <1>0, <1>14, MarkAncestorStep
<1>15. CASE NextLeaf
  BY <1>0, <1>15, NextLeafStep
<1>16. ASSUME NEW n \in Node, FoldLevel(n) PROVE IInv'
  BY <1>0, <1>16, FoldLevelStep
<1>17. CASE Refreshed
  BY <1>0, <1>17, RefreshedStep
<1>18. CASE FinishRead
  BY <1>0, <1>18, QuietStep DEF FinishRead, ReadReturns, Returns
<1>20. CASE RefuseRead
  BY <1>0, <1>9, <1>20, InvalidStep DEF RefuseRead, Invalidate, ClearChanged
<1>21. CASE Unwind
  BY <1>0, <1>21, UnwindStep
<1>22. CASE UNCHANGED vars
  <2>1. /\ UNCHANGED <<retention, output, value, dirty, changed, evaluated, query, cols>>
        /\ UNCHANGED <<pc, queue, walk, todo, table>>
    BY <1>22 DEF vars, fixed, observations
  <2>2. \A n \in Node : Current(n)' <=> Current(n)
    BY <2>1 DEF Current, Abstract!Fresh, Abstract!Seen
  <2>3. Elements(changed)' = Elements(changed) /\ FirstLeaves' = FirstLeaves
    BY <2>1 DEF Elements, FirstLeaves
  <2>4. DirtyIsListed' /\ Finishing'
    BY <2>1, <2>3 DEF IInv, DirtyIsListed, Finishing
  <2>5. Evaluated'
    <3>1. output # NoNode => output \in Node
      BY DEF IInv, TypeOK
    <3> QED  BY <2>1, <2>2, <2>3, <3>1 DEF IInv, Evaluated, Current, Abstract!Fresh, Abstract!Seen
  <2>6. Closing'
    <3>1. \A i \in 1 .. Len(changed) : Done(changed[i])' <=> Done(changed[i])
      BY <2>1 DEF Done
    <3>2. CASE pc = "close"
      BY <2>1, <2>2, <2>3, <3>1, <3>2 DEF IInv, Closing
    <3> QED  BY <2>1, <3>2 DEF Closing
  <2>7. Folding'
    BY <2>1, <2>2 DEF IInv, Folding
  <2> QED  BY <1>0, <2>4, <2>5, <2>6, <2>7 DEF IInv
<1> QED  BY <1>1, <1>2, <1>3, <1>4, <1>5, <1>6, <1>7, <1>8, <1>10, <1>11, <1>12, <1>13, <1>14, <1>15,
            <1>16, <1>17, <1>18, <1>20, <1>21, <1>22 DEF Next, Call, Continue

LEMMA Inductive == Spec => []IInv
BY IInvInit, IInvNext, PTL DEF Spec
------------------------------------------------------------------------------
(* The theorems. *)

\* Columns, marks, worklists and a table's locals keep their types.
THEOREM TypeCorrect == Spec => []TypeOK
<1>1. IInv => TypeOK
  BY DEF IInv
<1> QED  BY <1>1, Inductive, PTL

\* The dirty bits are exactly membership in `changed`, each level once, for
\* every vtree and through every refusal and panic.
THEOREM MarksExact == Spec => []DirtyIsListed
<1>1. IInv => DirtyIsListed
  BY DEF IInv
<1> QED  BY <1>1, Inductive, PTL

\* Every column above no marked leaf is current while the cache is evaluated.
THEOREM UnmarkedCurrent == Spec => []UnmarkedAreCurrent
<1>1. IInv => UnmarkedAreCurrent
  BY DEF IInv, Evaluated, UnmarkedAreCurrent, Current
<1> QED  BY <1>1, Inductive, PTL

\* The column a read answers from holds what a fresh pass would compute.
THEOREM AnswerCurrent == Spec => []AnswerIsCurrent
<1>1. ASSUME IInv, pc = "finish", output # NoNode PROVE Current(output)
  <2>1. evaluated /\ changed = <<>> /\ output \in Node /\ retention \in {"All", "Frontier"}
    BY <1>1 DEF IInv, Finishing, TypeOK
  <2>2. Elements(changed) = {}
    BY <2>1 DEF Elements
  <2> QED  BY <1>1, <2>1, <2>2 DEF IInv, Evaluated
<1>2. IInv => AnswerIsCurrent
  BY <1>1 DEF AnswerIsCurrent, Current
<1> QED  BY <1>2, Inductive, PTL

-------------------------------------------------------------------------------
(* Pins, tables and the answers read through them. *)

\* The powers of two count subsets.
LEMMA PowerOfTwo ==
  ASSUME NEW n \in Nat
  PROVE  /\ 2^0 = 1
         /\ 2^n \in Nat \ {0}
         /\ 2^(n + 1) = 2 * 2^n
<1> DEFINE S == 1 .. n
           T == 1 .. n + 1
           With == {s \cup {n + 1} : s \in SUBSET S}
           f == [s \in SUBSET S |-> s \cup {n + 1}]
<1>1. IsFiniteSet(S) /\ Cardinality(S) = n /\ IsFiniteSet(T) /\ Cardinality(T) = n + 1
  <2>1. \A m \in Nat : IsFiniteSet(1 .. m) /\ Cardinality(1 .. m) = m
    <3>1. ASSUME NEW m \in Nat PROVE IsFiniteSet(1 .. m) /\ Cardinality(1 .. m) = m
      <4>1. IsFiniteSet(1 .. m) /\ Cardinality(1 .. m) = IF 1 > m THEN 0 ELSE m - 1 + 1
        BY FS_Interval
      <4> QED  BY <4>1
    <3> QED  BY <3>1
  <2> QED  BY <2>1
<1>2. /\ IsFiniteSet(SUBSET S) /\ Cardinality(SUBSET S) = 2^n
      /\ IsFiniteSet(SUBSET T) /\ Cardinality(SUBSET T) = 2^(n + 1)
  <2> HIDE DEF S, T
  <2> QED  BY <1>1, FS_SUBSET
<1>3. \A s \in SUBSET S : n + 1 \notin s
  OBVIOUS
<1>4. f \in Bijection(SUBSET S, With)
  <2>1. f \in [SUBSET S -> With]
    OBVIOUS
  <2>2. \A a, b \in SUBSET S : f[a] = f[b] => a = b
    <3>1. ASSUME NEW a \in SUBSET S, NEW b \in SUBSET S, f[a] = f[b] PROVE a = b
      <4>1. a \cup {n + 1} = b \cup {n + 1}
        BY <3>1
      <4>2. n + 1 \notin a /\ n + 1 \notin b
        BY <1>3
      <4> HIDE DEF S
      <4> QED  BY <4>1, <4>2
    <3> QED  BY <3>1
  <2>3. \A w \in With : \E s \in SUBSET S : f[s] = w
    OBVIOUS
  <2> HIDE DEF f, S, With
  <2> QED  BY <2>1, <2>2, <2>3, Fun_IsBij
<1>5. IsFiniteSet(With) /\ Cardinality(With) = 2^n
  <2>1. ExistsBijection(SUBSET S, With)
    BY <1>4 DEF ExistsBijection
  <2> HIDE DEF S, With
  <2> QED  BY <1>2, <2>1, FS_Bijection
<1>6. SUBSET T = (SUBSET S) \cup With
  <2>1. T = S \cup {n + 1}
    OBVIOUS
  <2>2. ASSUME NEW u \in SUBSET T PROVE u \in (SUBSET S) \cup With
    <3>1. CASE n + 1 \notin u
      BY <2>1, <3>1
    <3>2. CASE n + 1 \in u
      <4>1. u \ {n + 1} \in SUBSET S /\ u = (u \ {n + 1}) \cup {n + 1}
        <5> HIDE DEF S, T
        <5> QED  BY <2>1, <3>2
      <4> QED  BY <4>1
    <3> QED  BY <3>1, <3>2
  <2>3. (SUBSET S) \cup With \subseteq SUBSET T
    <3> HIDE DEF S, T
    <3> QED  BY <2>1
  <2> HIDE DEF S, T, With
  <2> QED  BY <2>2, <2>3
<1>7. (SUBSET S) \cap With = {}
  BY <1>3
<1>8. Cardinality({}) = 0
  BY FS_EmptySet
<1>9. 2^(n + 1) = 2^n + 2^n - 0
  <2> HIDE DEF S, T, With
  <2>1. Cardinality((SUBSET S) \cup With) = Cardinality(SUBSET S) + Cardinality(With) - Cardinality((SUBSET S) \cap With)
    BY <1>2, <1>5, FS_Union
  <2> QED  BY <1>2, <1>5, <1>6, <1>7, <1>8, <2>1
<1>10. 2^n \in Nat
  <2> HIDE DEF S
  <2> QED  BY <1>2, FS_CardinalityType
<1>11. 2^n # 0
  <2>1. {} \in SUBSET S
    OBVIOUS
  <2> HIDE DEF S
  <2>2. SUBSET S # {} 
    BY <2>1
  <2> QED  BY <1>2, <2>2, FS_EmptySet
<1>12. 2^0 = 1
  OBVIOUS
<1>13. 2^(n + 1) = 2 * 2^n
  <2> DEFINE p == 2^n
             q == 2^(n + 1)
  <2>1. p \in Nat /\ q = p + p - 0
    BY <1>9, <1>10
  <2> HIDE DEF p, q
  <2>2. q = 2 * p
    BY <2>1
  <2> QED  BY <2>2 DEF p, q
<1> QED  BY <1>10, <1>11, <1>12, <1>13

\* Bits above the ones an increment carries through stay.
LEMMA Carry ==
  \A r, p \in Nat \ {0} : r % p # 0 => r \div p = (r - 1) \div p
<1> SUFFICES ASSUME NEW r \in Nat \ {0}, NEW p \in Nat \ {0}, r % p # 0
             PROVE  r \div p = (r - 1) \div p
  OBVIOUS
<1>1. r = p * (r \div p) + (r % p) /\ r % p \in 0 .. p - 1
  OBVIOUS
<1>2. r - 1 = p * (r \div p) + ((r % p) - 1)
  BY <1>1
<1> QED  BY <1>1, <1>2

LEMMA HalfDivides ==
  \A r, p \in Nat \ {0} : r % (2 * p) = 0 => r % p = 0
<1> SUFFICES ASSUME NEW r \in Nat \ {0}, NEW p \in Nat \ {0}, r % (2 * p) = 0
             PROVE  r % p = 0
  OBVIOUS
<1>1. PICK k \in Nat : k = r \div (2 * p)
  OBVIOUS
<1>2. 2 * p \in Nat \ {0}
  OBVIOUS
<1>3. \A d \in Nat \ {0} : r = d * (r \div d) + (r % d)
  OBVIOUS
<1>4. r = (2 * p) * k
  BY <1>1, <1>2, <1>3
<1>5. r = p * (2 * k)
  BY <1>4
<1>6. \A q \in Nat : (p * q) % p = 0
  OBVIOUS
<1> QED  BY <1>5, <1>6


LEMMA LeastNumber ==
  ASSUME NEW s, s \subseteq Nat, s # {}
  PROVE  \E m \in s : \A k \in s : m <= k
<1>1. PICK m \in s : \A k \in s : ~(<<k, m>> \in OpToRel(<, Nat))
  BY NatLessThanWellFounded, WFMin
<1>2. ASSUME NEW k \in s, k < m PROVE <<k, m>> \in OpToRel(<, Nat)
  BY <1>2 DEF OpToRel
<1>3. \A k \in s : ~(k < m)
  BY <1>1, <1>2
<1>4. \A k \in s : k \in Nat
  OBVIOUS
<1>5. \A k \in s : m <= k
  BY <1>3, <1>4
<1> QED  BY <1>5

\* A power of two that divides is one of the first `width`: the pins a table
\* does not set keep their bit.
LEMMA BitsKept ==
  ASSUME NEW n \in Nat, NEW r \in Nat \ {0}, NEW i \in 1 .. n,
         i > Cardinality({t \in 1 .. n : r % 2^(t - 1) = 0})
  PROVE  Abstract!Bit(r, i - 1) = Abstract!Bit(r - 1, i - 1)
<1> DEFINE bits == {t \in 1 .. n : r % 2^(t - 1) = 0}
<1>1. 2^(i - 1) \in Nat \ {0}
  BY PowerOfTwo
<1>2. r % 2^(i - 1) # 0
  <2>1. SUFFICES ASSUME i \in bits PROVE FALSE
    OBVIOUS
  <2>2. ASSUME NEW t \in 1 .. i PROVE t \in bits
    <3>1. SUFFICES ASSUME t \notin bits PROVE FALSE
      OBVIOUS
    <3> DEFINE gaps == {d \in 0 .. i - 1 : i - d \notin bits}
    <3>2. gaps \subseteq Nat /\ i - t \in gaps
      BY <3>1
    <3>3. PICK d \in gaps : \A e \in gaps : d <= e
      <4> HIDE DEF gaps
      <4> QED  BY <3>2, LeastNumber
    <3>4. d \in 0 .. i - 1 /\ i - d \notin bits /\ d - 1 \notin gaps
      <4> HIDE DEF bits
      <4> QED  BY <3>3
    <3>5. d # 0
      BY <2>1, <3>4
    <3>6. d - 1 \in 0 .. i - 1 /\ i - (d - 1) \in bits
      <4>1. d - 1 \in 0 .. i - 1
        BY <3>4, <3>5
      <4> HIDE DEF bits
      <4> QED  BY <3>4, <4>1
    <3>7. i - d \in 1 .. n /\ i - d - 1 \in Nat /\ i - (d - 1) - 1 = (i - d - 1) + 1
      BY <3>4, <3>5
    <3>8. 2^(i - (d - 1) - 1) = 2 * 2^(i - d - 1) /\ 2^(i - d - 1) \in Nat \ {0}
      BY <3>7, PowerOfTwo
    <3>9. r % (2 * 2^(i - d - 1)) = 0
      BY <3>6, <3>8
    <3>10. r % 2^(i - d - 1) = 0
      BY <3>8, <3>9, HalfDivides
    <3> QED  BY <3>4, <3>7, <3>10
  <2>3. 1 .. i \subseteq bits /\ bits \subseteq 1 .. n
    BY <2>2
  <2>4. \A m \in Nat : IsFiniteSet(1 .. m) /\ Cardinality(1 .. m) = m
    <3>1. ASSUME NEW m \in Nat PROVE IsFiniteSet(1 .. m) /\ Cardinality(1 .. m) = m
      <4>1. IsFiniteSet(1 .. m) /\ Cardinality(1 .. m) = IF 1 > m THEN 0 ELSE m - 1 + 1
        BY FS_Interval
      <4> QED  BY <4>1
    <3> QED  BY <3>1
  <2>5. Cardinality(1 .. i) <= Cardinality(bits) /\ Cardinality(bits) \in Nat
    <3> HIDE DEF bits
    <3>1. IsFiniteSet(bits)
      BY <2>3, <2>4, FS_Subset
    <3> QED  BY <2>3, <3>1, FS_Subset, FS_CardinalityType
  <2>6. i <= Cardinality(bits)
    <3> HIDE DEF bits
    <3> QED  BY <2>4, <2>5
  <2> QED  BY <2>5, <2>6
<1>3. r \div 2^(i - 1) = (r - 1) \div 2^(i - 1)
  BY <1>1, <1>2, Carry
<1> QED  BY <1>3 DEF Abstract!Bit
------------------------------------------------------------------------------
(* Batches of pins. *)

Last(batch, l, i) == /\ i \in 1 .. Len(batch) /\ batch[i].leaf = l
                     /\ \A j \in i + 1 .. Len(batch) : batch[j].leaf # l
Over(pins, batch) == Abstract!Override(pins, batch)

\* A leaf the batch names has a last place in it.
LEMMA LastExists ==
  ASSUME NEW batch \in Seq(LeafPin), NEW l, NEW k \in 1 .. Len(batch), batch[k].leaf = l
  PROVE  \E i \in 1 .. Len(batch) : Last(batch, l, i)
<1> DEFINE n == Len(batch)
           back == {d \in 0 .. n - 1 : batch[n - d].leaf = l}
<1>1. n \in Nat
  OBVIOUS
<1>2. n - k \in 0 .. n - 1 /\ n - (n - k) = k
  BY <1>1
<1>3. PICK d \in back : \A e \in back : d <= e
  <2>1. n - k \in back /\ back \subseteq Nat
    BY <1>2
  <2> HIDE DEF back
  <2> QED  BY <2>1, LeastNumber
<1>4. n - d \in 1 .. n /\ batch[n - d].leaf = l
  BY <1>1, <1>3
<1>5. ASSUME NEW j \in n - d + 1 .. n, batch[j].leaf = l PROVE FALSE
  <2>1. n - j \in 0 .. d - 1 /\ n - (n - j) = j
    BY <1>1, <1>5
  <2>2. n - j \in back /\ ~(d <= n - j)
    BY <1>1, <1>3, <1>5, <2>1
  <2> QED  BY <1>3, <2>2
<1> QED  BY <1>4, <1>5 DEF Last

\* The last value of a leaf wins, and a leaf not named keeps its own.
LEMMA OverrideAt ==
  ASSUME NEW pins, NEW batch \in Seq(LeafPin), NEW l \in Leaf
  PROVE  /\ (\A j \in 1 .. Len(batch) : batch[j].leaf # l) => Over(pins, batch)[l] = pins[l]
         /\ \A i \in 1 .. Len(batch) : Last(batch, l, i) => Over(pins, batch)[l] = batch[i].value
<1> DEFINE at == {i \in 1 .. Len(batch) : batch[i].leaf = l}
           last == CHOOSE i \in at : \A j \in at : j <= i
<1>1. Over(pins, batch)[l] = IF at = {} THEN pins[l] ELSE batch[last].value
  BY DEF Over, Abstract!Override
<1>2. ASSUME NEW i \in 1 .. Len(batch), Last(batch, l, i) PROVE at # {} /\ last = i
  <2>1. i \in at /\ \A j \in at : j <= i
    BY <1>2 DEF Last
  <2>2. last \in at /\ \A j \in at : j <= last
    BY <2>1
  <2>3. last \in Nat /\ i \in Nat /\ last <= i /\ i <= last
    BY <2>1, <2>2
  <2> HIDE DEF last, at
  <2> QED  BY <2>1, <2>3
<1> QED  BY <1>1, <1>2

LEMMA OverrideTyped ==
  ASSUME NEW pins \in [Leaf -> Observation], NEW batch \in Seq(LeafPin)
  PROVE  Over(pins, batch) \in [Leaf -> Observation]
<1>1. ASSUME NEW l \in Leaf PROVE Over(pins, batch)[l] \in Observation
  <2>1. CASE \A j \in 1 .. Len(batch) : batch[j].leaf # l
    BY <2>1, OverrideAt
  <2>2. CASE \E j \in 1 .. Len(batch) : batch[j].leaf = l
    <3>1. PICK i \in 1 .. Len(batch) : Last(batch, l, i)
      BY <2>2, LastExists
    <3>2. batch[i] \in LeafPin
      OBVIOUS
    <3>3. Over(pins, batch)[l] = batch[i].value
      BY <3>1, OverrideAt
    <3> QED  BY <3>2, <3>3 DEF LeafPin
  <2> QED  BY <2>1, <2>2
<1>2. DOMAIN Over(pins, batch) = Leaf /\ Over(pins, batch) = [l \in Leaf |-> Over(pins, batch)[l]]
  BY DEF Over, Abstract!Override
<1> QED  BY <1>1, <1>2

\* Two ways to set pins agree when every leaf ends the same.
LEMMA OverrideIs ==
  ASSUME NEW pins, NEW batch \in Seq(LeafPin), NEW f, f = [l \in Leaf |-> f[l]],
         \A l \in Leaf : \/ (\A j \in 1 .. Len(batch) : batch[j].leaf # l) /\ f[l] = pins[l]
                         \/ \E i \in 1 .. Len(batch) : Last(batch, l, i) /\ f[l] = batch[i].value
  PROVE  Over(pins, batch) = f
<1>1. \A l \in Leaf : Over(pins, batch)[l] = f[l]
  BY OverrideAt
<1>2. Over(pins, batch) = [l \in Leaf |-> Over(pins, batch)[l]]
  BY DEF Over, Abstract!Override
<1> QED  BY <1>1, <1>2

LEMMA OverrideNothing ==
  ASSUME NEW pins \in [Leaf -> Observation]
  PROVE  Over(pins, <<>>) = pins
<1> DEFINE none == <<>>
<1>1. none \in Seq(LeafPin) /\ \A l \in Leaf : \A j \in 1 .. Len(none) : none[j].leaf # l
  OBVIOUS
<1>2. pins = [l \in Leaf |-> pins[l]]
  OBVIOUS
<1> HIDE DEF none
<1>3. Over(pins, none) = pins
  BY <1>1, <1>2, OverrideIs
<1> QED  BY <1>3 DEF none

\* Applying the first pin of a batch leaves the rest of it to apply.
LEMMA OverridePeels ==
  ASSUME NEW pins \in [Leaf -> Observation], NEW batch \in Seq(LeafPin), batch # <<>>
  PROVE  Over([pins EXCEPT ![batch[1].leaf] = batch[1].value], Tail(batch)) = Over(pins, batch)
<1> DEFINE rest == Tail(batch)
           new  == [pins EXCEPT ![batch[1].leaf] = batch[1].value]
<1>1. /\ rest \in Seq(LeafPin) /\ Len(batch) \in Nat /\ Len(batch) >= 1 /\ Len(rest) = Len(batch) - 1
      /\ \A j \in 1 .. Len(rest) : rest[j] = batch[j + 1]
  OBVIOUS
<1>2. batch[1].leaf \in Leaf
  <2>1. batch[1] \in LeafPin
    BY <1>1
  <2> QED  BY <2>1 DEF LeafPin
<1>3. \A l \in Leaf : new[l] = IF l = batch[1].leaf THEN batch[1].value ELSE pins[l]
  OBVIOUS
<1> HIDE DEF rest, new
<1>4. Over(pins, batch) = [l \in Leaf |-> Over(pins, batch)[l]]
  BY DEF Over, Abstract!Override
<1>5. ASSUME NEW l \in Leaf
      PROVE  \/ (\A j \in 1 .. Len(rest) : rest[j].leaf # l) /\ Over(pins, batch)[l] = new[l]
             \/ \E i \in 1 .. Len(rest) : Last(rest, l, i) /\ Over(pins, batch)[l] = rest[i].value
  <2>1. CASE \A j \in 1 .. Len(batch) : batch[j].leaf # l
    <3>1. \A j \in 1 .. Len(rest) : rest[j].leaf # l
      BY <1>1, <2>1
    <3>2. l # batch[1].leaf
      BY <1>1, <2>1
    <3> QED  BY <1>3, <2>1, <3>1, <3>2, OverrideAt
  <2>2. CASE \E j \in 1 .. Len(batch) : batch[j].leaf = l
    <3>1. PICK i \in 1 .. Len(batch) : Last(batch, l, i)
      BY <2>2, LastExists
    <3>2. Over(pins, batch)[l] = batch[i].value /\ batch[i].leaf = l
      BY <3>1, OverrideAt DEF Last
    <3>3. CASE i = 1
      <4>1. ASSUME NEW j \in 1 .. Len(rest) PROVE rest[j].leaf # l
        <5>1. j + 1 \in i + 1 .. Len(batch)
          BY <1>1, <3>3
        <5> QED  BY <1>1, <3>1, <5>1 DEF Last
      <4> QED  BY <1>3, <3>2, <3>3, <4>1
    <3>4. CASE i # 1
      <4>1. i - 1 \in 1 .. Len(rest) /\ rest[i - 1] = batch[i]
        BY <1>1, <3>4
      <4>2. ASSUME NEW j \in i - 1 + 1 .. Len(rest) PROVE rest[j].leaf # l
        <5>1. j + 1 \in i + 1 .. Len(batch) /\ j \in 1 .. Len(rest)
          BY <1>1, <4>1
        <5> QED  BY <1>1, <3>1, <5>1 DEF Last
      <4>3. Last(rest, l, i - 1)
        BY <3>2, <4>1, <4>2 DEF Last
      <4> QED  BY <3>2, <4>1, <4>3
    <3> QED  BY <3>3, <3>4
  <2> QED  BY <2>1, <2>2
<1>6. Over(new, rest) = Over(pins, batch)
  BY <1>1, <1>4, <1>5, OverrideIs
<1> QED  BY <1>6 DEF rest, new


\* Freeing every leaf that is pinned frees them all.
LEMMA FreedPins ==
  ASSUME NEW pins \in [Leaf -> Observation], NEW batch \in Seq(LeafPin),
         \A i \in 1 .. Len(batch) : batch[i].value = "free",
         \A l \in Leaf : pins[l] # "free" => \E j \in 1 .. Len(batch) : batch[j].leaf = l
  PROVE  Over(pins, batch) = [l \in Leaf |-> "free"]
<1> DEFINE free == [l \in Leaf |-> "free"]
<1>1. ASSUME NEW l \in Leaf
      PROVE  \/ (\A j \in 1 .. Len(batch) : batch[j].leaf # l) /\ free[l] = pins[l]
             \/ \E i \in 1 .. Len(batch) : Last(batch, l, i) /\ free[l] = batch[i].value
  <2>1. CASE \A j \in 1 .. Len(batch) : batch[j].leaf # l
    BY <2>1
  <2>2. CASE \E j \in 1 .. Len(batch) : batch[j].leaf = l
    <3>1. PICK i \in 1 .. Len(batch) : Last(batch, l, i)
      BY <2>2, LastExists
    <3> QED  BY <3>1
  <2> QED  BY <2>1, <2>2
<1>2. free = [l \in Leaf |-> free[l]]
  OBVIOUS
<1> HIDE DEF free
<1>3. Over(pins, batch) = free
  BY <1>1, <1>2, OverrideIs
<1> QED  BY <1>3 DEF free

PinnedLeaves(pins) == {l \in Leaf : pins[l] # "free"}
Freeing(s)         == [i \in DOMAIN s |-> [leaf |-> s[i], value |-> "free"]]

\* clear_pins enumerates every pinned leaf, so it leaves nothing pinned.
LEMMA ClearedPins ==
  ASSUME NEW pins \in [Leaf -> Observation],
         NEW s \in [1 .. Cardinality(PinnedLeaves(pins)) -> PinnedLeaves(pins)],
         \A i, j \in DOMAIN s : i < j => s[i] < s[j]
  PROVE  /\ Freeing(s) \in Seq(LeafPin)
         /\ \A i \in 1 .. Len(Freeing(s)) : Freeing(s)[i].leaf \in PinnedLeaves(pins)
         /\ Over(pins, Freeing(s)) = [l \in Leaf |-> "free"]
<1> DEFINE pinned == PinnedLeaves(pins)
           n      == Cardinality(pinned)
           batch  == Freeing(s)
<1>1. IsFiniteSet(pinned) /\ n \in Nat
  <2>1. IsFiniteSet(Leaf)
    BY TreeAssumption, FS_Subset
  <2>2. IsFiniteSet(pinned)
    BY <2>1, FS_Subset DEF PinnedLeaves
  <2> HIDE DEF pinned
  <2> QED  BY <2>2, FS_CardinalityType
<1>2. s \in [1 .. n -> pinned] /\ DOMAIN s = 1 .. n
  OBVIOUS
<1>3. \A i \in 1 .. n : s[i] \in Leaf /\ s[i] \in Nat
  BY <1>2, TreeFacts DEF PinnedLeaves
<1>4. /\ batch \in Seq(LeafPin) /\ Len(batch) = n
      /\ \A i \in 1 .. n : batch[i].leaf = s[i] /\ batch[i].value = "free"
  <2> HIDE DEF n, pinned
  <2>1. "free" \in Observation
    BY DEF Observation, Abstract!Observation
  <2>2. \A i \in 1 .. n : [leaf |-> s[i], value |-> "free"] \in LeafPin
    BY <1>3, <2>1 DEF LeafPin
  <2> QED  BY <1>1, <1>2, <2>2 DEF Freeing
<1>5. s \in Surjection(1 .. n, pinned)
  <2> HIDE DEF n, pinned
  <2>1. \A i, j \in 1 .. n : s[i] = s[j] => i = j
    <3>1. ASSUME NEW i \in 1 .. n, NEW j \in 1 .. n, s[i] = s[j], i # j PROVE FALSE
      <4>1. i < j \/ j < i
        BY <3>1
      <4>2. s[i] < s[j] \/ s[j] < s[i]
        BY <1>2, <4>1
      <4> QED  BY <1>3, <3>1, <4>2
    <3> QED  BY <3>1
  <2>2. s \in Injection(1 .. n, pinned)
    BY <1>2, <2>1, Fun_IsInj
  <2>3. Cardinality(1 .. n) = n
    <3>1. Cardinality(1 .. n) = IF 1 > n THEN 0 ELSE n - 1 + 1
      BY <1>1, FS_Interval
    <3> QED  BY <1>1, <3>1
  <2>4. Cardinality(1 .. n) = Cardinality(pinned)
    BY <2>3 DEF n
  <2> QED  BY <1>1, <2>2, <2>4, FS_Injection
<1>6. \A l \in pinned : \E i \in 1 .. n : s[i] = l
  <2> HIDE DEF n, pinned
  <2> QED  BY <1>5, Fun_SurjectionProperties DEF Surjection
<1>7. ASSUME NEW l \in Leaf, pins[l] # "free" PROVE \E j \in 1 .. Len(batch) : batch[j].leaf = l
  <2>1. l \in pinned
    BY <1>7 DEF PinnedLeaves
  <2> HIDE DEF n, pinned
  <2> QED  BY <1>4, <1>6, <2>1
<1>8. Over(pins, batch) = [l \in Leaf |-> "free"]
  BY <1>4, <1>7, FreedPins
<1>9. \A i \in 1 .. Len(batch) : batch[i].leaf \in pinned
  BY <1>2, <1>4
<1> QED  BY <1>4, <1>8, <1>9
------------------------------------------------------------------------------
(* The rows of a table. *)

Distinct(listed)       == \A i, j \in 1 .. Len(listed) : listed[i] = listed[j] => i = j
Row(pins, listed, r)   == Over(pins, Abstract!RowPins(listed, r))
Restored(pins, listed) == [i \in 1 .. Len(listed) |-> [leaf |-> listed[i], value |-> pins[listed[i]]]]

\* A row sets its variables and leaves the other pins.
LEMMA RowAt ==
  ASSUME NEW pins \in [Leaf -> Observation], NEW listed \in Seq(Leaf), Distinct(listed), NEW r, NEW l \in Leaf
  PROVE  /\ (\A i \in 1 .. Len(listed) : listed[i] # l) => Row(pins, listed, r)[l] = pins[l]
         /\ \A i \in 1 .. Len(listed) :
              listed[i] = l => Row(pins, listed, r)[l] = Abstract!RowPins(listed, r)[i].value
<1> DEFINE batch == Abstract!RowPins(listed, r)
<1>1. batch \in Seq(LeafPin) /\ Len(batch) = Len(listed)
  BY RowPinsTyped
<1>2. \A i \in 1 .. Len(listed) : batch[i].leaf = listed[i]
  BY DEF Abstract!RowPins
<1> HIDE DEF batch
<1>3. ASSUME NEW i \in 1 .. Len(listed), listed[i] = l PROVE Last(batch, l, i)
  BY <1>1, <1>2, <1>3 DEF Last, Distinct
<1>4. /\ (\A i \in 1 .. Len(listed) : listed[i] # l) => Over(pins, batch)[l] = pins[l]
      /\ \A i \in 1 .. Len(listed) : listed[i] = l => Over(pins, batch)[l] = batch[i].value
  BY <1>1, <1>2, <1>3, OverrideAt
<1> QED  BY <1>4 DEF Row, batch

\* Putting back what was read before undoes a row.
LEMMA RowUndone ==
  ASSUME NEW pins \in [Leaf -> Observation], NEW listed \in Seq(Leaf), Distinct(listed), NEW r
  PROVE  /\ Restored(pins, listed) \in Seq(LeafPin)
         /\ Over(Row(pins, listed, r), Restored(pins, listed)) = pins
<1> DEFINE batch == Restored(pins, listed)
<1>1. /\ batch \in Seq(LeafPin) /\ Len(batch) = Len(listed)
      /\ \A i \in 1 .. Len(listed) : batch[i].leaf = listed[i] /\ batch[i].value = pins[listed[i]]
  BY DEF Restored, LeafPin
<1> HIDE DEF batch
<1>2. ASSUME NEW l \in Leaf
      PROVE  \/ (\A j \in 1 .. Len(batch) : batch[j].leaf # l) /\ pins[l] = Row(pins, listed, r)[l]
             \/ \E i \in 1 .. Len(batch) : Last(batch, l, i) /\ pins[l] = batch[i].value
  <2>1. CASE \A i \in 1 .. Len(listed) : listed[i] # l
    BY <1>1, <2>1, RowAt
  <2>2. ASSUME NEW i \in 1 .. Len(listed), listed[i] = l
        PROVE  Last(batch, l, i) /\ pins[l] = batch[i].value
    BY <1>1, <2>2 DEF Last, Distinct
  <2> QED  BY <1>1, <2>1, <2>2
<1>3. pins = [l \in Leaf |-> pins[l]]
  OBVIOUS
<1>4. Over(Row(pins, listed, r), batch) = pins
  BY <1>1, <1>2, <1>3, OverrideIs
<1> QED  BY <1>1, <1>4 DEF batch

\* From one row to the next, setting the bits the increment carries through
\* sets them all.
LEMMA RowFollows ==
  ASSUME NEW pins \in [Leaf -> Observation], table.listed \in Seq(Leaf), Distinct(table.listed),
         NEW r \in Nat \ {0}
  PROVE  /\ TablePins(r) \in Seq(LeafPin)
         /\ \A j \in 1 .. Len(TablePins(r)) : j <= Len(table.listed) /\ TablePins(r)[j].leaf = table.listed[j]
         /\ Over(Row(pins, table.listed, r - 1), TablePins(r)) = Row(pins, table.listed, r)
<1>1. PICK listed \in Seq(Leaf) : listed = table.listed /\ Distinct(listed)
  OBVIOUS
<1> DEFINE n     == Len(listed)
           width == Cardinality({t \in 1 .. n : r % 2^(t - 1) = 0})
           all   == Abstract!RowPins(listed, r)
           batch == SubSeq(all, 1, width)
<1>2. TablePins(r) = batch
  BY <1>1 DEF TablePins
<1>3. n \in Nat /\ width \in Nat /\ width <= n
  <2> DEFINE bits == {t \in 1 .. n : r % 2^(t - 1) = 0}
  <2>1. n \in Nat /\ bits \subseteq 1 .. n
    OBVIOUS
  <2> HIDE DEF n, bits
  <2>2. IsFiniteSet(1 .. n) /\ Cardinality(1 .. n) = IF 1 > n THEN 0 ELSE n - 1 + 1
    BY <2>1, FS_Interval
  <2>3. Cardinality(bits) \in Nat /\ Cardinality(bits) <= n
    <3>1. Cardinality(1 .. n) = n
      BY <2>1, <2>2
    <3> QED  BY <2>1, <2>2, <3>1, FS_Subset, FS_CardinalityType
  <2> QED  BY <2>1, <2>3 DEF bits
<1>4. all \in Seq(LeafPin) /\ Len(all) = n
  BY RowPinsTyped
<1>5. batch \in Seq(LeafPin) /\ Len(batch) = width /\ \A j \in 1 .. width : batch[j] = all[j]
  <2>1. TablePins(r) \in Seq(LeafPin)
    BY TablePinsTyped
  <2>2. batch \in Seq(LeafPin)
    BY <1>2, <2>1
  <2> HIDE DEF all, width, n
  <2>3. Len(batch) = width /\ \A j \in 1 .. width : batch[j] = all[j]
    <3>1. \A j \in 1 .. width : all[j] \in LeafPin
      BY <1>3, <1>4
    <3>2. /\ Len(batch) = IF 1 <= width THEN width - 1 + 1 ELSE 0
          /\ \A j \in 1 .. width - 1 + 1 : batch[j] = all[1 + j - 1]
      BY <1>3, <1>4, <3>1, SubSeqProperties
    <3> QED  BY <1>3, <3>2
  <2> QED  BY <2>2, <2>3
<1>6. \A j \in 1 .. n : all[j].leaf = listed[j]
  BY DEF Abstract!RowPins
<1>7. ASSUME NEW i \in 1 .. n, i > width
      PROVE  all[i].value = Abstract!RowPins(listed, r - 1)[i].value
  <2>1. Abstract!Bit(r, i - 1) = Abstract!Bit(r - 1, i - 1)
    <3>1. n \in Nat
      BY <1>3
    <3> HIDE DEF n
    <3> QED  BY <3>1, <1>7, BitsKept DEF width
  <2> QED  BY <2>1 DEF Abstract!RowPins
<1> DEFINE here  == Row(pins, listed, r - 1)
           there == Row(pins, listed, r)
<1>8. ASSUME NEW l \in Leaf, NEW i \in 1 .. n, listed[i] = l
      PROVE  here[l] = Abstract!RowPins(listed, r - 1)[i].value /\ there[l] = all[i].value
  <2>1. /\ Row(pins, listed, r - 1)[l] = Abstract!RowPins(listed, r - 1)[i].value
        /\ Row(pins, listed, r)[l] = Abstract!RowPins(listed, r)[i].value
    BY <1>1, <1>8, RowAt
  <2> QED  BY <2>1
<1>9. ASSUME NEW l \in Leaf, \A i \in 1 .. n : listed[i] # l
      PROVE  here[l] = there[l]
  BY <1>1, <1>9, RowAt
<1>10. there = [l \in Leaf |-> there[l]]
  BY DEF Row, Over, Abstract!Override
<1>11. \A i, j \in 1 .. n : listed[i] = listed[j] => i = j
  BY <1>1 DEF Distinct
<1> HIDE DEF n, width, all, batch, here, there
<1>12. ASSUME NEW l \in Leaf
       PROVE  \/ (\A j \in 1 .. Len(batch) : batch[j].leaf # l) /\ there[l] = here[l]
              \/ \E i \in 1 .. Len(batch) : Last(batch, l, i) /\ there[l] = batch[i].value
  <2>1. CASE \A i \in 1 .. n : listed[i] # l
    BY <1>3, <1>5, <1>6, <1>9, <2>1
  <2>2. ASSUME NEW i \in 1 .. n, listed[i] = l, i <= width
        PROVE  i \in 1 .. Len(batch) /\ Last(batch, l, i) /\ there[l] = batch[i].value
    <3>1. i \in 1 .. Len(batch) /\ batch[i] = all[i] /\ batch[i].leaf = l
      BY <1>3, <1>5, <1>6, <2>2
    <3>2. ASSUME NEW j \in i + 1 .. Len(batch) PROVE batch[j].leaf # l
      BY <1>3, <1>5, <1>6, <1>11, <2>2
    <3>3. there[l] = all[i].value
      BY <1>8, <2>2
    <3> QED  BY <3>1, <3>2, <3>3 DEF Last
  <2>3. ASSUME NEW i \in 1 .. n, listed[i] = l, i > width
        PROVE  (\A j \in 1 .. Len(batch) : batch[j].leaf # l) /\ there[l] = here[l]
    <3>1. \A j \in 1 .. Len(batch) : batch[j].leaf # l
      BY <1>3, <1>5, <1>6, <1>11, <2>3
    <3> QED  BY <1>7, <1>8, <2>3, <3>1
  <2> QED  BY <1>3, <2>1, <2>2, <2>3
<1>13. Over(here, batch) = there
  <2>1. \A l \in Leaf : \/ (\A j \in 1 .. Len(batch) : batch[j].leaf # l) /\ there[l] = here[l]
                        \/ \E i \in 1 .. Len(batch) : Last(batch, l, i) /\ there[l] = batch[i].value
    BY <1>12
  <2>2. batch \in Seq(LeafPin)
    BY <1>5
  <2> QED  BY <1>10, <2>1, <2>2, OverrideIs
<1>14. \A j \in 1 .. Len(batch) : j <= n /\ batch[j].leaf = listed[j]
  BY <1>3, <1>5, <1>6
<1> QED  BY <1>1, <1>2, <1>5, <1>13, <1>14 DEF here, there, n

------------------------------------------------------------------------------
(* The caller's pins. *)

\* What an answer under these pins is.
AnswerUnder(pins) == Abstract!Answer(query, pins)

\* Only structural leaves are ever pinned.
Pinned == /\ \A l \in Leaf : value[l] # "free" => l \in Pinnable
          /\ \A i \in 1 .. Len(queue) : queue[i].leaf \in Pinnable

\* Outside a table the pins are the caller's once those queued are set.
Single ==
  ~table.on => /\ pc = "pin" => Over(value, queue) = asked
               /\ pc # "pin" => value = asked

\* Inside one they are a row's, or the caller's at the end, once those queued
\* are set; the rows so far are the answers of their assignments.
Tabled ==
  table.on =>
    /\ pc # "idle"
    /\ Tabulable(table.listed)
    /\ table.before = Restored(asked, table.listed)
    /\ Len(table.rows) <= 2^Len(table.listed)
    /\ \A r \in 1 .. Len(table.rows) : table.rows[r] = AnswerUnder(Row(asked, table.listed, r - 1))
    /\ pc # "pin" => ~TableOver /\ value = Row(asked, table.listed, Len(table.rows))
    /\ pc = "pin" /\ ~TableOver => Over(value, queue) = Row(asked, table.listed, Len(table.rows))
    /\ pc = "pin" /\ TableOver => Over(value, queue) = asked

PinsInv == /\ asked \in [Leaf -> Observation]
           /\ Pinned
           /\ Single
           /\ Tabled

LEMMA TabledFacts ==
  ASSUME TypeOK
  PROVE  /\ table.listed \in Seq(Leaf) /\ Len(table.listed) \in Nat /\ Len(table.rows) \in Nat
         /\ 2^Len(table.listed) \in Nat \ {0}
         /\ Tabulable(table.listed) => Distinct(table.listed)
         /\ table.rows \in Seq(SUBSET Reading) /\ table.on \in BOOLEAN /\ table.failed \in BOOLEAN
         /\ value \in [Leaf -> Observation] /\ queue \in Seq(LeafPin)
<1>1. table.listed \in Seq(Leaf) /\ Len(table.listed) \in Nat
  BY DEF TypeOK, Tabling
<1> QED  BY <1>1, PowerOfTwo DEF TypeOK, Tabling, Tabulable, Distinct

LEMMA PinsInit == Init => PinsInv
BY DEF Init, PinsInv, Pinned, Single, Tabled, NoTable, Observation, Abstract!Observation

\* Nothing the caller sees changes inside a read.
LEMMA PinsQuiet ==
  ASSUME PinsInv, pc # "pin", pc' \notin {"pin", "idle"},
         UNCHANGED <<value, query, output, queue, table, asked>>
  PROVE  PinsInv'
BY DEF PinsInv, Pinned, Single, Tabled, TableOver, AnswerUnder, Abstract!Answer, Abstract!Fresh

\* A read that fails hands its caller an error, or puts the pins back.
LEMMA PinsRefused ==
  ASSUME IInv, PinsInv, pc \notin {"pin", "idle"}, ReadRefused,
         UNCHANGED <<value, query, output, asked>>
  PROVE  PinsInv'
<1>0. TypeOK
  BY DEF IInv
<1>1. CASE ~table.on
  BY <1>1 DEF ReadRefused, Returns, PinsInv, Pinned, Single, Tabled
<1>2. CASE table.on
  <2>1. /\ pc' = "pin" /\ queue' = table.before /\ table' = [table EXCEPT !.failed = TRUE]
    BY <1>2 DEF ReadRefused
  <2>2. /\ table'.on /\ table'.failed /\ table'.listed = table.listed /\ table'.before = table.before
        /\ table'.rows = table.rows
    <3>1. table \in Tabling
      BY <1>0 DEF TypeOK
    <3> QED  BY <1>2, <2>1, <3>1 DEF Tabling
  <2>3. /\ Tabulable(table.listed) /\ table.before = Restored(asked, table.listed)
        /\ value = Row(asked, table.listed, Len(table.rows))
    BY <1>2 DEF PinsInv, Tabled
  <2>4. table.before \in Seq(LeafPin) /\ Over(value, table.before) = asked
    BY <1>0, <2>3, TabledFacts, RowUndone DEF PinsInv
  <2>5. TableOver'
    BY <2>2 DEF TableOver
  <2>6. Pinned'
    <3>1. \A i \in 1 .. Len(table.before) : table.before[i].leaf \in Pinnable
      BY <1>0, <2>3, TabledFacts DEF Restored, Tabulable
    <3> QED  BY <2>1, <3>1 DEF PinsInv, Pinned
  <2>7. Tabled'
    <3>1. Over(value, queue)' = asked'
      BY <2>1, <2>4
    <3>2. /\ (table.before = Restored(asked, table.listed))'
          /\ (Tabulable(table.listed))'
          /\ (Len(table.rows) <= 2^Len(table.listed))'
      BY <1>2, <2>2, <2>3 DEF PinsInv, Tabled
    <3>3. (\A r \in 1 .. Len(table.rows) : table.rows[r] = AnswerUnder(Row(asked, table.listed, r - 1)))'
      <4>1. \A p : AnswerUnder(p)' = AnswerUnder(p)
        BY DEF AnswerUnder, Abstract!Answer, Abstract!Fresh
      <4> QED  BY <1>2, <2>2, <4>1 DEF PinsInv, Tabled
    <3> QED  BY <2>1, <2>5, <3>1, <3>2, <3>3 DEF Tabled
  <2>8. Single'
    BY <2>2 DEF Single
  <2> QED  BY <2>6, <2>7, <2>8 DEF PinsInv
<1> QED  BY <1>1, <1>2

\* The answer is the one a fresh pass gives under the pins the diagram has.
LEMMA AnswerRead ==
  ASSUME IInv, pc = "finish"
  PROVE  (IF output = NoNode THEN {<<query, NoNode, "free">>} ELSE cols[output]) = AnswerUnder(value)
<1>1. CASE output = NoNode
  BY <1>1 DEF AnswerUnder, Abstract!Answer, NoNode, Abstract!NoNode
<1>2. CASE output # NoNode
  <2>1. evaluated /\ changed = <<>> /\ output \in Node /\ retention \in {"All", "Frontier"}
    BY <1>2 DEF IInv, Finishing, TypeOK
  <2>2. Elements(changed) = {}
    BY <2>1 DEF Elements
  <2>3. Current(output)
    BY <1>2, <2>1, <2>2 DEF IInv, Evaluated
  <2> QED  BY <1>2, <2>3 DEF Current, AnswerUnder, Abstract!Answer, NoNode, Abstract!NoNode
<1> QED  BY <1>1, <1>2

\* A read that returns adds a row, and the next row's pins, or the caller's,
\* are queued.
LEMMA PinsRead ==
  ASSUME IInv, PinsInv, FinishRead
  PROVE  PinsInv'
<1>0. TypeOK /\ pc = "finish" /\ UNCHANGED <<value, query, output, asked>>
  BY DEF IInv, FinishRead, fixed, observations
<1>1. PICK answer : answer = AnswerUnder(value) /\ ReadReturns(answer)
  BY <1>0, AnswerRead DEF FinishRead
<1>2. CASE ~table.on
  BY <1>0, <1>1, <1>2 DEF ReadReturns, Returns, PinsInv, Pinned, Single, Tabled
<1>3. CASE table.on
  <2> DEFINE row == Len(table.rows) + 1
  <2>1. /\ pc' = "pin" /\ table' = [table EXCEPT !.rows = Append(table.rows, answer)]
        /\ queue' = IF row = 2^Len(table.listed) THEN table.before ELSE TablePins(row)
    BY <1>1, <1>3 DEF ReadReturns
  <2>2. /\ table'.on /\ table'.failed = table.failed /\ table'.listed = table.listed
        /\ table'.before = table.before /\ table'.rows = Append(table.rows, answer)
    <3>1. table \in Tabling
      BY <1>0 DEF TypeOK
    <3> QED  BY <1>3, <2>1, <3>1 DEF Tabling
  <2>3. /\ Tabulable(table.listed) /\ table.before = Restored(asked, table.listed)
        /\ value = Row(asked, table.listed, Len(table.rows))
        /\ Len(table.rows) <= 2^Len(table.listed) /\ ~TableOver
        /\ \A r \in 1 .. Len(table.rows) : table.rows[r] = AnswerUnder(Row(asked, table.listed, r - 1))
    BY <1>0, <1>3 DEF PinsInv, Tabled
  <2>4. /\ table.listed \in Seq(Leaf) /\ Len(table.listed) \in Nat /\ Len(table.rows) \in Nat
        /\ 2^Len(table.listed) \in Nat \ {0} /\ Distinct(table.listed)
        /\ asked \in [Leaf -> Observation] /\ table.rows \in Seq(SUBSET Reading)
    BY <1>0, <2>3, TabledFacts DEF PinsInv
  <2>5. /\ Len(table'.rows) = row /\ row \in Nat \ {0} /\ row - 1 = Len(table.rows)
        /\ \A r \in 1 .. row : table'.rows[r] = IF r = row THEN answer ELSE table.rows[r]
    <3>1. answer \in SUBSET Reading
      BY <1>0, <1>1, AnswerRead, ReadingsTyped DEF IInv, TypeOK
    <3> QED  BY <2>2, <2>4, <3>1
  <2>6. row <= 2^Len(table.listed) /\ (TableOver' <=> row = 2^Len(table.listed))
    <3>1. PICK p \in Nat \ {0} : p = 2^Len(table.listed)
      BY <2>4
    <3>2. Len(table.rows) <= p /\ Len(table.rows) # p /\ ~table.failed
      BY <1>3, <2>3, <3>1 DEF TableOver
    <3> QED  BY <2>2, <2>4, <2>5, <3>1, <3>2 DEF TableOver
  <2>7. Pinned' /\ Over(value, queue)' = IF TableOver' THEN asked ELSE Row(asked, table.listed, row)
    <3>1. CASE row = 2^Len(table.listed)
      <4>1. queue' = table.before
        BY <2>1, <3>1
      <4>2. Over(value, table.before) = asked
        BY <2>3, <2>4, RowUndone
      <4>3. \A i \in 1 .. Len(table.before) : table.before[i].leaf \in Pinnable
        BY <2>3, <2>4 DEF Restored, Tabulable
      <4> QED  BY <1>0, <2>6, <3>1, <4>1, <4>2, <4>3 DEF PinsInv, Pinned
    <3>2. CASE row # 2^Len(table.listed)
      <4>1. queue' = TablePins(row)
        BY <2>1, <3>2
      <4>2. /\ TablePins(row) \in Seq(LeafPin)
            /\ \A j \in 1 .. Len(TablePins(row)) :
                 j <= Len(table.listed) /\ TablePins(row)[j].leaf = table.listed[j]
            /\ Over(Row(asked, table.listed, row - 1), TablePins(row)) = Row(asked, table.listed, row)
        <5> HIDE DEF row
        <5> QED  BY <2>4, <2>5, RowFollows
      <4>3. Over(value, TablePins(row)) = Row(asked, table.listed, row)
        BY <2>3, <2>5, <4>2
      <4>4. \A j \in 1 .. Len(TablePins(row)) : TablePins(row)[j].leaf \in Pinnable
        <5> HIDE DEF row
        <5> QED  BY <2>3, <2>4, <4>2 DEF Tabulable
      <4> HIDE DEF row
      <4> QED  BY <1>0, <2>6, <3>2, <4>1, <4>3, <4>4 DEF PinsInv, Pinned
    <3> QED  BY <3>1, <3>2
  <2>8. \A r \in 1 .. row : table'.rows[r] = AnswerUnder(Row(asked, table.listed, r - 1))
    <3> HIDE DEF row
    <3> QED  BY <1>1, <2>3, <2>5
  <2>9. Tabled'
    <3>1. (Tabulable(table.listed))' /\ (table.before = Restored(asked, table.listed))'
      BY <1>0, <2>2, <2>3
    <3>2. (Len(table.rows) <= 2^Len(table.listed))'
      BY <2>2, <2>5, <2>6
    <3>3. (\A r \in 1 .. Len(table.rows) : table.rows[r] = AnswerUnder(Row(asked, table.listed, r - 1)))'
      <4>1. \A p : AnswerUnder(p)' = AnswerUnder(p)
        BY <1>0 DEF AnswerUnder, Abstract!Answer, Abstract!Fresh
      <4> QED  BY <1>0, <2>2, <2>5, <2>8, <4>1
    <3>4. TableOver' => Over(value, queue)' = asked'
      BY <1>0, <2>7
    <3>5. ~TableOver' => Over(value, queue)' = Row(asked, table.listed, Len(table.rows))'
      BY <1>0, <2>2, <2>5, <2>7
    <3> QED  BY <2>1, <3>1, <3>2, <3>3, <3>4, <3>5 DEF Tabled
  <2>10. Single'
    BY <2>2 DEF Single
  <2> QED  BY <1>0, <2>7, <2>9, <2>10 DEF PinsInv
<1> QED  BY <1>2, <1>3


\* Setting the first queued pin leaves the others to set.
LEMMA PinsApply ==
  ASSUME IInv, PinsInv, ApplyPin
  PROVE  PinsInv'
<1>1. /\ pc = "pin" /\ queue # <<>> /\ queue' = Tail(queue) /\ pc' = "pin"
      /\ value' = [value EXCEPT ![queue[1].leaf] = queue[1].value]
      /\ UNCHANGED <<query, output, table, asked>>
  BY DEF ApplyPin, SetLeafPin, fixed
<1>2. value \in [Leaf -> Observation] /\ queue \in Seq(LeafPin)
  BY DEF IInv, TypeOK
<1>3. Over(value, queue)' = Over(value, queue)
  <2>1. Over(value', queue') = Over(value, queue)
    BY <1>1, <1>2, OverridePeels
  <2> QED  BY <2>1
<1>4. Pinned'
  <2>1. /\ Len(queue) \in Nat /\ Len(queue) >= 1 /\ Len(Tail(queue)) = Len(queue) - 1
        /\ \A j \in 1 .. Len(Tail(queue)) : Tail(queue)[j] = queue[j + 1]
    BY <1>1, <1>2
  <2>2. \A j \in 1 .. Len(Tail(queue)) : Tail(queue)[j].leaf \in Pinnable
    BY <2>1 DEF PinsInv, Pinned
  <2>3. queue[1].leaf \in Pinnable
    BY <2>1 DEF PinsInv, Pinned
  <2>4. \A l \in Leaf : value'[l] # "free" => l \in Pinnable
    BY <1>1, <1>2, <2>3 DEF PinsInv, Pinned
  <2> QED  BY <1>1, <2>2, <2>4 DEF Pinned
<1>5. \A p : AnswerUnder(p)' = AnswerUnder(p)
  BY <1>1 DEF AnswerUnder, Abstract!Answer, Abstract!Fresh
<1>6. Single'
  BY <1>1, <1>3 DEF PinsInv, Single
<1>7. Tabled'
  BY <1>1, <1>3, <1>5 DEF PinsInv, Tabled, TableOver
<1> QED  BY <1>1, <1>4, <1>6, <1>7 DEF PinsInv

\* The pins queued are set: the call returns, or the table reads its row.
LEMMA PinsDone ==
  ASSUME IInv, PinsInv, PinsApplied
  PROVE  PinsInv'
<1>1. pc = "pin" /\ queue = <<>> /\ UNCHANGED <<value, query, output, queue, asked>>
  BY DEF PinsApplied, fixed, observations
<1>2. Over(value, queue) = value
  BY <1>1, OverrideNothing DEF IInv, TypeOK
<1>3. Pinned' /\ asked' \in [Leaf -> Observation]
  BY <1>1 DEF PinsInv, Pinned
<1>4. CASE ~table.on
  <2>1. pc' = "idle" /\ table' = table
    BY <1>4 DEF PinsApplied, TableOver
  <2> QED  BY <1>1, <1>2, <1>3, <1>4, <2>1 DEF PinsInv, Single, Tabled
<1>5. CASE table.on /\ ~TableOver
  <2>1. pc' = "read" /\ table' = table
    BY <1>5 DEF PinsApplied
  <2>2. \A p : AnswerUnder(p)' = AnswerUnder(p)
    BY <1>1 DEF AnswerUnder, Abstract!Answer, Abstract!Fresh
  <2> QED  BY <1>1, <1>2, <1>3, <1>5, <2>1, <2>2 DEF PinsInv, Single, Tabled, TableOver
<1>6. CASE TableOver
  <2>1. pc' = "idle" /\ table' = NoTable
    BY <1>6 DEF PinsApplied, Returns, TableOver
  <2>2. value = asked
    BY <1>1, <1>2, <1>6 DEF PinsInv, Tabled, TableOver
  <2> QED  BY <1>1, <1>3, <2>1, <2>2 DEF PinsInv, Single, Tabled, NoTable
<1> QED  BY <1>4, <1>5, <1>6 DEF TableOver

LEMMA PinsNext == IInv /\ IInv' /\ PinsInv /\ [Next]_vars => PinsInv'
<1> SUFFICES ASSUME IInv, IInv', PinsInv, [Next]_vars PROVE PinsInv'
  OBVIOUS
<1>0. TypeOK
  BY DEF IInv
<1>30. pc = "idle" => ~table.on /\ value = asked
  BY DEF PinsInv, Single, Tabled
<1>31. ASSUME Rejects, pc = "idle" PROVE PinsInv'
  BY <1>30, <1>31 DEF Rejects, Returns, observations, fixed, PinsInv, Pinned, Single, Tabled
<1>1. ASSUME NEW batch \in Batches, ApplyPins(batch) PROVE PinsInv'
  <2>1. CASE Rejects
    BY <1>1, <1>31, <2>1 DEF ApplyPins
  <2>2. CASE ~Rejects
    <3>1. /\ pc = "idle" /\ Abstract!Valid(batch) /\ pc' = "pin" /\ queue' = batch
          /\ asked' = Abstract!Override(asked, batch) /\ UNCHANGED <<value, table>>
      BY <1>1, <2>2 DEF ApplyPins, Enters, observations
    <3>2. batch \in Seq(LeafPin) /\ \A i \in 1 .. Len(batch) : batch[i].leaf \in Pinnable
      BY <3>1, CallQueueTyped DEF Abstract!Valid
    <3>3. asked' = Over(value, queue)' /\ asked' \in [Leaf -> Observation]
      <4>1. Over(asked, batch) \in [Leaf -> Observation]
        BY <3>2, OverrideTyped DEF PinsInv
      <4> QED  BY <1>30, <3>1, <4>1 DEF Over
    <3> QED  BY <1>30, <3>1, <3>2, <3>3 DEF PinsInv, Pinned, Single, Tabled
  <2> QED  BY <2>1, <2>2
<1>2. CASE ClearPins
  <2>1. /\ pc = "idle" /\ pc' = "pin" /\ asked' = [l \in Leaf |-> "free"] /\ UNCHANGED <<value, table>>
    BY <1>2 DEF ClearPins, Enters, observations
  <2>2. PICK s \in [1 .. Cardinality(PinnedLeaves(value)) -> PinnedLeaves(value)] :
          (\A i, j \in DOMAIN s : i < j => s[i] < s[j]) /\ queue' = Freeing(s)
    BY <1>2 DEF ClearPins, PinnedLeaves, Freeing
  <2>3. /\ queue' \in Seq(LeafPin)
        /\ \A i \in 1 .. Len(queue') : queue'[i].leaf \in PinnedLeaves(value)
        /\ Over(value, queue') = [l \in Leaf |-> "free"]
    <3>1. value \in [Leaf -> Observation]
      BY <1>0 DEF TypeOK
    <3> QED  BY <2>2, <3>1, ClearedPins
  <2>4. Pinned'
    BY <2>1, <2>3 DEF PinsInv, Pinned, PinnedLeaves
  <2>5. asked' \in [Leaf -> Observation] /\ Over(value, queue)' = asked'
    BY <2>1, <2>3 DEF Observation, Abstract!Observation
  <2> QED  BY <1>30, <2>1, <2>4, <2>5 DEF PinsInv, Single, Tabled
<1>3. CASE ReplaceQuery
  BY <1>3, <1>30 DEF ReplaceQuery, Invalidate, Enters, fixed, PinsInv, Pinned, Single, Tabled
<1>4. CASE BeginRead
  BY <1>4, <1>30 DEF BeginRead, Enters, fixed, observations, PinsInv, Pinned, Single, Tabled
<1>5. ASSUME NEW listed \in Listings, CountTable(listed) PROVE PinsInv'
  <2>1. CASE Rejects
    BY <1>5, <1>31, <2>1 DEF CountTable
  <2>2. CASE ~Rejects
    <3> DEFINE before == [i \in 1 .. Len(listed) |-> [leaf |-> listed[i], value |-> value[listed[i]]]]
    <3>1. /\ pc = "idle" /\ Tabulable(listed) /\ pc' = "pin"
          /\ table' = [on |-> TRUE, listed |-> listed, rows |-> <<>>, failed |-> FALSE, before |-> before]
          /\ queue' = Abstract!RowPins(listed, 0)
          /\ UNCHANGED <<value, query, output, asked>>
      BY <1>5, <2>2 DEF CountTable, Enters, fixed, observations
    <3>2. listed \in Seq(Leaf) /\ Len(listed) \in Nat
      BY ListingTyped
    <3>3. before = Restored(asked, listed)
      BY <1>30, <3>1 DEF Restored
    <3> HIDE DEF before
    <3>4. /\ table'.on /\ table'.listed = listed /\ table'.rows = <<>> /\ ~table'.failed
          /\ table'.before = before /\ Len(table'.rows) = 0
      BY <3>1
    <3>5. 2^Len(listed) \in Nat \ {0}
      BY <3>2, PowerOfTwo
    <3>6. ~TableOver'
      BY <3>4, <3>5 DEF TableOver
    <3>7. Over(value, queue)' = Row(asked, table.listed, Len(table.rows))'
      BY <1>30, <3>1, <3>4 DEF Row
    <3>8. (Len(table.rows) <= 2^Len(table.listed))'
      BY <3>4, <3>5
    <3>9. Tabled'
      <4>1. (Tabulable(table.listed))' /\ (table.before = Restored(asked, table.listed))'
        BY <3>1, <3>3, <3>4
      <4>2. (\A r \in 1 .. Len(table.rows) : table.rows[r] = AnswerUnder(Row(asked, table.listed, r - 1)))'
        BY <3>4
      <4> QED  BY <3>1, <3>6, <3>7, <3>8, <4>1, <4>2 DEF Tabled
    <3>10. Pinned'
      <4>1. \A i \in 1 .. Len(Abstract!RowPins(listed, 0)) : Abstract!RowPins(listed, 0)[i].leaf \in Pinnable
        BY <3>1, <3>2 DEF Abstract!RowPins, Tabulable
      <4> QED  BY <3>1, <4>1 DEF PinsInv, Pinned
    <3> QED  BY <3>1, <3>4, <3>9, <3>10 DEF PinsInv, Single
  <2> QED  BY <2>1, <2>2
<1>6. CASE TableRefused
  BY <1>6, <1>30 DEF TableRefused, Returns, fixed, observations, PinsInv, Pinned, Single, Tabled
<1>7. CASE ApplyPin
  BY <1>7, PinsApply
<1>8. CASE PinsApplied
  BY <1>8, PinsDone
<1>10. CASE EnterRefused
  BY <1>10, PinsRefused DEF EnterRefused, fixed, observations
<1>11. CASE NothingToRefresh
  BY <1>11, PinsQuiet DEF NothingToRefresh, fixed, observations
<1>12. CASE StartIncremental
  BY <1>12, PinsQuiet DEF StartIncremental, MustRefresh, fixed
<1>13. CASE StartFull
  BY <1>13, PinsQuiet DEF StartFull, MustRefresh, fixed
<1>14. CASE MarkAncestor
  BY <1>14, PinsQuiet DEF MarkAncestor, fixed
<1>15. CASE NextLeaf
  BY <1>15, PinsQuiet DEF NextLeaf, fixed, observations
<1>16. ASSUME NEW n \in Node, FoldLevel(n) PROVE PinsInv'
  BY <1>16, PinsQuiet DEF FoldLevel, fixed, observations
<1>17. CASE Refreshed
  BY <1>17, PinsQuiet DEF Refreshed, fixed
<1>18. CASE FinishRead
  BY <1>18, PinsRead
<1>20. CASE RefuseRead
  BY <1>20, PinsRefused DEF RefuseRead, Invalidate, fixed
<1>21. CASE Unwind
  <2>1. pc' = "idle" /\ queue' = <<>> /\ table' = NoTable /\ asked' = value /\ value' = value
    BY <1>21 DEF Unwind, Returns, observations
  <2> QED  BY <1>0, <2>1 DEF PinsInv, Pinned, Single, Tabled, NoTable, TypeOK
<1>22. CASE UNCHANGED vars
  <2>1. UNCHANGED <<value, query, output, queue, table, asked, pc>>
    BY <1>22 DEF vars, fixed, observations
  <2>2. \A p : AnswerUnder(p)' = AnswerUnder(p)
    BY <2>1 DEF AnswerUnder, Abstract!Answer, Abstract!Fresh
  <2> QED  BY <2>1, <2>2 DEF PinsInv, Pinned, Single, Tabled, TableOver
<1> QED  BY <1>1, <1>2, <1>3, <1>4, <1>5, <1>6, <1>7, <1>8, <1>10, <1>11, <1>12, <1>13, <1>14, <1>15,
            <1>16, <1>17, <1>18, <1>20, <1>21, <1>22 DEF Next, Call, Continue

LEMMA PinsInductive == Spec => []PinsInv
BY Inductive, PinsInit, PinsNext, PTL DEF Spec

\* Between calls the pins are the caller's, for any batches, tables of any
\* width and refusals, stops and panics anywhere in them.
THEOREM PinsKept == Spec => []PinsAsAsked
<1>1. PinsInv => PinsAsAsked
  BY DEF PinsInv, Single, Tabled, PinsAsAsked
<1> QED  BY <1>1, PinsInductive, PTL

------------------------------------------------------------------------------
(* What an incremental refresh folds. *)

\* Every level listed is structural and above a listed leaf, which marginality
\* being downward closed the climb keeps so; the refresh folds listed levels.
Climbed ==
  /\ \A n \in Elements(changed) :
       /\ n \notin Marginal
       /\ n \in Leaf => n \in Pinnable
       /\ \E l \in Leaf \cap Elements(changed) : l \in Below[n]
  /\ pc = "fold" /\ ~walk.full => todo \subseteq Elements(changed)

LEMMA ClimbedKept ==
  ASSUME Climbed, changed' = changed,
         \/ pc' # "fold"
         \/ walk'.full
         \/ pc = "fold" /\ UNCHANGED walk /\ todo' \subseteq todo
         \/ todo' \subseteq Elements(changed)
  PROVE  Climbed'
BY DEF Climbed, Elements

LEMMA ClimbedEmpty ==
  ASSUME changed' = <<>>, pc' # "fold"
  PROVE  Climbed'
BY DEF Climbed, Elements

LEMMA ElementsAppend ==
  ASSUME TypeOK, NEW n \in Node, changed' = Append(changed, n)
  PROVE  Elements(changed)' = Elements(changed) \cup {n}
<1>1. /\ Len(changed) \in Nat /\ Len(changed') = Len(changed) + 1
      /\ \A i \in 1 .. Len(changed) : changed'[i] = changed[i]
      /\ changed'[Len(changed) + 1] = n
  BY DEF TypeOK
<1> QED  BY <1>1 DEF Elements

\* A marked leaf is one a call may pin.
LEMMA ClimbedPin ==
  ASSUME IInv, PinsInv, Climbed, ApplyPin
  PROVE  Climbed'
<1>1. /\ pc' = "pin" /\ queue # <<>> /\ queue \in Seq(LeafPin) /\ Len(queue) >= 1
  BY DEF ApplyPin, IInv, TypeOK
<1>2. PICK leaf \in Pinnable : leaf = queue[1].leaf
  BY <1>1 DEF PinsInv, Pinned
<1>3. leaf \in Leaf /\ leaf \in Node /\ leaf \notin Marginal /\ leaf \in Below[leaf]
  BY <1>2, TreeFacts, BelowCases DEF Pinnable
<1>4. CASE changed' = changed
  BY <1>1, <1>4, ClimbedKept
<1>5. CASE changed' = <<>>
  BY <1>1, <1>5, ClimbedEmpty
<1>6. CASE changed' = Append(changed, leaf)
  <2>1. Elements(changed)' = Elements(changed) \cup {leaf}
    BY <1>3, <1>6, ElementsAppend DEF IInv
  <2> QED  BY <1>1, <1>2, <1>3, <2>1 DEF Climbed
<1> QED  BY <1>2, <1>4, <1>5, <1>6 DEF ApplyPin, SetLeafPin, ClearChanged

\* The parent of a listed level is structural and above the same leaf.
LEMMA ClimbedMark ==
  ASSUME IInv, Climbed, MarkAncestor
  PROVE  Climbed'
<1> DEFINE cur    == walk.cur
           parent == Parent[cur]
<1>1. cur \in Elements(changed) /\ cur \in Node /\ parent # NoNode /\ changed' = Append(changed, parent)
      /\ pc' = "close"
  BY DEF MarkAncestor, PathMarked, IInv, Closing, TypeOK, Elements
<1>2. parent \in Internal /\ parent \in Node /\ parent \notin Leaf /\ cur \in {Left[parent], Right[parent]}
  BY <1>1, TreeFacts
<1>3. parent \notin Marginal
  <2>1. CASE cur \in Leaf
    BY <1>1, <2>1 DEF Climbed, Pinnable
  <2>2. CASE cur \notin Leaf
    BY <1>1, <1>2, <2>2, MarginalAssumption DEF Climbed
  <2> QED  BY <2>1, <2>2
<1>4. PICK l \in Leaf \cap Elements(changed) : l \in Below[cur]
  BY <1>1 DEF Climbed
<1>5. l \in Below[parent]
  BY <1>2, <1>3, <1>4, BelowCases
<1>6. Elements(changed)' = Elements(changed) \cup {parent}
  BY <1>1, <1>2, ElementsAppend DEF IInv
<1> HIDE DEF cur, parent
<1> QED  BY <1>1, <1>2, <1>3, <1>4, <1>5, <1>6 DEF Climbed

LEMMA ClimbedNext == IInv /\ PinsInv /\ Climbed /\ [Next]_vars => Climbed'
<1> SUFFICES ASSUME IInv, PinsInv, Climbed, [Next]_vars PROVE Climbed'
  OBVIOUS
<1>1. ASSUME NEW batch \in Batches, ApplyPins(batch) PROVE Climbed'
  BY <1>1, ClimbedKept DEF ApplyPins, Rejects, Returns, Enters, observations
<1>2. CASE ClearPins
  BY <1>2, ClimbedKept DEF ClearPins, Enters, observations
<1>3. CASE ReplaceQuery
  BY <1>3, ClimbedEmpty DEF ReplaceQuery, Invalidate, ClearChanged, Enters
<1>4. CASE BeginRead
  BY <1>4, ClimbedKept DEF BeginRead, Enters, observations
<1>5. ASSUME NEW listed \in Listings, CountTable(listed) PROVE Climbed'
  BY <1>5, ClimbedKept DEF CountTable, Rejects, Returns, Enters, observations
<1>6. CASE TableRefused
  BY <1>6, ClimbedKept DEF TableRefused, Returns, observations
<1>7. CASE ApplyPin
  BY <1>7, ClimbedPin
<1>8. CASE PinsApplied
  BY <1>8, ClimbedKept DEF PinsApplied, Returns, observations
<1>9. ReadRefused => pc' \in {"idle", "pin"}
  BY DEF ReadRefused, Returns
<1>10. CASE EnterRefused
  BY <1>9, <1>10, ClimbedKept DEF EnterRefused, observations
<1>11. CASE NothingToRefresh
  BY <1>11, ClimbedKept DEF NothingToRefresh, observations
<1>12. CASE StartIncremental
  BY <1>12, ClimbedKept DEF StartIncremental
<1>13. CASE StartFull
  <2>1. walk'.full /\ changed' = changed
    BY <1>13 DEF StartFull, NoWalk
  <2> QED  BY <2>1, ClimbedKept
<1>14. CASE MarkAncestor
  BY <1>14, ClimbedMark
<1>15. CASE NextLeaf
  BY <1>15, ClimbedKept DEF NextLeaf, observations
<1>16. ASSUME NEW n \in Node, FoldLevel(n) PROVE Climbed'
  BY <1>16, ClimbedKept DEF FoldLevel, observations
<1>17. CASE Refreshed
  BY <1>17, ClimbedEmpty DEF Refreshed, ClearChanged
<1>18. CASE FinishRead
  BY <1>18, ClimbedKept DEF FinishRead, ReadReturns, Returns, observations
<1>20. CASE RefuseRead
  BY <1>9, <1>20, ClimbedEmpty DEF RefuseRead, Invalidate, ClearChanged
<1>21. CASE Unwind
  BY <1>21, ClimbedKept DEF Unwind, Returns, observations
<1>22. CASE UNCHANGED vars
  BY <1>22, ClimbedKept DEF vars, observations
<1> QED  BY <1>1, <1>2, <1>3, <1>4, <1>5, <1>6, <1>7, <1>8, <1>10, <1>11, <1>12, <1>13, <1>14, <1>15,
            <1>16, <1>17, <1>18, <1>20, <1>21, <1>22 DEF Next, Call, Continue

\* An incremental refresh folds changed leaves and their ancestors only, in
\* every vtree and whatever levels are summed out.
THEOREM RefreshIsLocal == Spec => []RefreshesOnlyAncestors
<1>1. Init => Climbed
  BY DEF Init, Climbed, Elements
<1>2. Climbed => RefreshesOnlyAncestors
  BY DEF Climbed, RefreshesOnlyAncestors
<1> QED  BY <1>1, <1>2, Inductive, PinsInductive, ClimbedNext, PTL DEF Spec
------------------------------------------------------------------------------
(* What a frontier walk keeps. *)

\* The levels to come are a tail of the postorder, and a column in hand waits
\* for its parent.
Thin ==
  retention = "Frontier" /\ pc = "fold" =>
    /\ walk.full
    /\ \A m \in todo, k \in Node \ todo : Post[k] < Post[m]
    /\ \A n \in Node \ {output} : cols[n] # {} => n \notin todo /\ (Parent[n] = NoNode \/ Parent[n] \in todo)

LEMMA ThinFold ==
  ASSUME IInv, Thin, NEW n \in Node, FoldLevel(n)
  PROVE  Thin'
<1>0. SUFFICES ASSUME retention = "Frontier" PROVE Thin'
  BY DEF FoldLevel, fixed, Thin
<1>1. /\ pc = "fold" /\ n \in todo /\ walk.full
      /\ \A m \in todo : Post[n] <= Post[m]
      /\ cols' = [m \in Node |-> IF m = n THEN Fold(n) ELSE IF m \in Released(n) THEN {} ELSE cols[m]]
      /\ todo' = todo \ {n} /\ todo \subseteq Node
      /\ UNCHANGED <<fixed, walk>>
  BY <1>0 DEF FoldLevel, IsNext, Thin, IInv, TypeOK
<1>2. /\ \A m \in todo, k \in Node \ todo : Post[k] < Post[m]
      /\ \A k \in Node \ {output} : cols[k] # {} => k \notin todo /\ (Parent[k] = NoNode \/ Parent[k] \in todo)
  BY <1>0, <1>1 DEF Thin
<1>3. \A m \in todo', k \in Node \ todo' : Post[k] < Post[m]
  <2>1. \A m \in todo \ {n} : Post[n] # Post[m] /\ Post[n] \in Nat /\ Post[m] \in Nat
    BY <1>1, OrderAssumption
  <2>2. \A m \in todo \ {n} : Post[n] < Post[m]
    BY <1>1, <2>1
  <2> QED  BY <1>1, <1>2, <2>2
<1>4. ASSUME NEW k \in Node \ {output}, cols'[k] # {}
      PROVE  k \notin todo' /\ (Parent[k] = NoNode \/ Parent[k] \in todo')
  <2>1. CASE k = n
    <3>1. k \notin todo'
      BY <1>1, <2>1
    <3>2. ASSUME Parent[n] # NoNode PROVE Parent[n] \in todo'
      <4>1. Parent[n] \in Node /\ Post[n] < Post[Parent[n]] /\ Post[n] \in Nat /\ Post[Parent[n]] \in Nat
        BY <3>2, TreeFacts, OrderAssumption DEF Internal
      <4>2. Parent[n] \in todo
        BY <1>1, <1>2, <4>1
      <4>3. Parent[n] # n
        BY <4>1
      <4> QED  BY <1>1, <4>2, <4>3
    <3> QED  BY <2>1, <3>1, <3>2
  <2>2. CASE k # n
    <3>1. k \notin Released(n) /\ cols[k] # {}
      BY <1>1, <1>4, <2>2
    <3>2. k \notin todo /\ (Parent[k] = NoNode \/ Parent[k] \in todo)
      BY <1>2, <3>1
    <3>3. ASSUME Parent[k] = n PROVE FALSE
      <4>1. n \in Internal /\ k \in {Left[n], Right[n]}
        BY <3>3, TreeFacts
      <4> QED  BY <1>0, <1>1, <3>1, <4>1 DEF Released
    <3> QED  BY <1>1, <3>2, <3>3
  <2> QED  BY <2>1, <2>2
<1> QED  BY <1>1, <1>3, <1>4 DEF Thin, fixed

LEMMA ThinNext == IInv /\ Thin /\ [Next]_vars => Thin'
<1> SUFFICES ASSUME IInv, Thin, [Next]_vars PROVE Thin'
  OBVIOUS
<1>0. ASSUME pc' # "fold" PROVE Thin'
  BY <1>0 DEF Thin
<1>1. ASSUME NEW batch \in Batches, ApplyPins(batch) PROVE Thin'
  BY <1>0, <1>1 DEF ApplyPins, Rejects, Returns, Enters
<1>2. CASE ClearPins \/ ReplaceQuery \/ BeginRead \/ TableRefused
  BY <1>0, <1>2 DEF ClearPins, ReplaceQuery, BeginRead, TableRefused, Returns, Enters
<1>5. ASSUME NEW listed \in Listings, CountTable(listed) PROVE Thin'
  BY <1>0, <1>5 DEF CountTable, Rejects, Returns, Enters
<1>7. CASE ApplyPin \/ PinsApplied
  BY <1>0, <1>7 DEF ApplyPin, PinsApplied, Returns
<1>9. ReadRefused => pc' \in {"idle", "pin"}
  BY DEF ReadRefused, Returns
<1>10. CASE EnterRefused \/ RefuseRead
  BY <1>0, <1>9, <1>10 DEF EnterRefused, RefuseRead
<1>11. CASE NothingToRefresh \/ StartIncremental \/ Refreshed \/ Unwind
  BY <1>0, <1>11 DEF NothingToRefresh, StartIncremental, Refreshed, Unwind, Returns
<1>13. CASE StartFull
  <2>1. walk'.full /\ todo' = Node /\ UNCHANGED fixed
    BY <1>13 DEF StartFull, NoWalk
  <2>2. retention = "Frontier" => \A n \in Node : cols'[n] = {}
    BY <1>13 DEF StartFull
  <2> QED  BY <2>1, <2>2 DEF Thin, fixed
<1>14. CASE MarkAncestor
  BY <1>14 DEF MarkAncestor, Thin
<1>15. CASE NextLeaf
  BY <1>15 DEF NextLeaf, Thin, IInv, Closing, fixed
<1>16. ASSUME NEW n \in Node, FoldLevel(n) PROVE Thin'
  BY <1>16, ThinFold
<1>18. CASE FinishRead
  BY <1>0, <1>18 DEF FinishRead, ReadReturns, Returns
<1>22. CASE UNCHANGED vars
  BY <1>22 DEF vars, fixed, Thin
<1> QED  BY <1>1, <1>2, <1>5, <1>7, <1>10, <1>11, <1>13, <1>14, <1>15, <1>16, <1>18, <1>22
         DEF Next, Call, Continue

\* While a level is to come, so is the root: the postorder ends at it.
LEMMA RootLast ==
  ASSUME NEW s, s \subseteq Node, s # {},
         \A m \in s, k \in Node \ s : Post[k] < Post[m]
  PROVE  \A n \in Node : Parent[n] = NoNode => n \in s
<1>1. PICK m \in s : \A k \in s : Post[k] <= Post[m]
  <2> DEFINE after(k) == {j \in s : Post[k] < Post[j]}
             sizes    == {Cardinality(after(k)) : k \in s}
  <2>1. \A k \in s : Post[k] \in Nat /\ k \in Node
    BY OrderAssumption
  <2>2. ASSUME NEW k \in s PROVE IsFiniteSet(after(k)) /\ Cardinality(after(k)) \in Nat
    <3>1. IsFiniteSet(s)
      BY TreeAssumption, FS_Subset
    <3>2. after(k) \subseteq s
      OBVIOUS
    <3> HIDE DEF after
    <3> QED  BY <3>1, <3>2, FS_Subset, FS_CardinalityType
  <2>3. PICK x \in sizes : \A y \in sizes : x <= y
    <3>1. sizes \subseteq Nat /\ sizes # {}
      BY <2>2
    <3> HIDE DEF sizes
    <3> QED  BY <3>1, LeastNumber
  <2>4. PICK k \in s : x = Cardinality(after(k))
    BY <2>3
  <2>5. ASSUME NEW j \in s, ~(Post[j] <= Post[k]) PROVE FALSE
    <3>1. Post[k] < Post[j]
      BY <2>1, <2>5
    <3>2. after(j) \subseteq after(k) /\ j \in after(k) /\ j \notin after(j)
      BY <2>1, <3>1
    <3>3. Cardinality(after(k)) <= Cardinality(after(j))
      BY <2>3, <2>4
    <3> HIDE DEF after
    <3>4. Cardinality(after(j)) <= Cardinality(after(k))
          /\ (Cardinality(after(k)) = Cardinality(after(j)) => after(k) = after(j))
      BY <2>2, <3>2, FS_Subset
    <3>5. Cardinality(after(j)) \in Nat /\ Cardinality(after(k)) \in Nat
      BY <2>2
    <3> QED  BY <3>2, <3>3, <3>4, <3>5
  <2> QED  BY <2>5
<1>2. Parent[m] = NoNode
  <2>1. SUFFICES ASSUME Parent[m] # NoNode PROVE FALSE
    OBVIOUS
  <2>2. Parent[m] \in Node /\ Post[m] < Post[Parent[m]] /\ Post[m] \in Nat /\ Post[Parent[m]] \in Nat
    BY <2>1, TreeFacts, OrderAssumption DEF Internal
  <2>3. Parent[m] \in s
    BY <2>2
  <2> QED  BY <1>1, <2>2, <2>3
<1> QED  BY <1>2, TreeAssumption

\* A frontier walk holds a column only while its parent is to come, and that
\* parent is the level being computed or above it: at most one per ancestor.
THEOREM FrontierThin == Spec => []FrontierIsThin
<1>1. ASSUME IInv, Thin PROVE FrontierIsThin
  <2>1. SUFFICES ASSUME retention = "Frontier", pc = "fold", NEW n \in Node \ {output}, cols[n] # {},
                        NEW next \in Node, IsNext(next)
                 PROVE  Parent[n] # NoNode /\ next \in Subtree[Parent[n]]
    BY DEF FrontierIsThin
  <2>2. /\ walk.full /\ todo \subseteq Node /\ next \in todo
        /\ \A m \in todo : Post[next] <= Post[m]
        /\ \A m \in todo, k \in Node \ todo : Post[k] < Post[m]
        /\ n \notin todo /\ (Parent[n] = NoNode \/ Parent[n] \in todo)
    BY <1>1, <2>1 DEF Thin, IsNext, IInv, TypeOK
  <2>3. Parent[n] # NoNode
    BY <2>2, RootLast
  <2>4. Parent[n] \in todo /\ Post[n] < Post[next] /\ Post[next] <= Post[Parent[n]]
    BY <2>2, <2>3
  <2> QED  BY <2>3, <2>4, OrderAssumption
<1>2. Init => Thin
  BY DEF Init, Thin
<1>3. IInv /\ Thin => FrontierIsThin
  BY <1>1
<1> QED  BY <1>2, <1>3, Inductive, ThinNext, PTL DEF Spec

------------------------------------------------------------------------------
(* The refinement. *)

\* A table that ran to its last row returns the answer of each assignment.
LEMMA TableReturned ==
  ASSUME IInv, PinsInv, PinsApplied, TableOver
  PROVE  Abstract!Next
<1>0. TypeOK /\ table.on /\ UNCHANGED <<output, asked, query>>
  BY DEF IInv, PinsApplied, TableOver, fixed, observations
<1>1. CASE table.failed
  <2>1. result' = Abstract!Outcome("refused", <<>>)
    BY <1>1 DEF PinsApplied, TableOver, Returns
  <2>2. Abstract!Refuse
    BY <1>0, <2>1 DEF Abstract!Refuse, Abstract!Failure
  <2> QED  BY <2>2 DEF Abstract!Next
<1>2. CASE ~table.failed
  <2>1. result' = Abstract!Outcome("table", table.rows)
    BY <1>2 DEF PinsApplied, TableOver, Returns
  <2>2. PICK listed \in Seq(Leaf), rows \in Seq(SUBSET Reading) :
           listed = table.listed /\ rows = table.rows
    BY <1>0, TabledFacts
  <2>3. /\ Tabulable(listed) /\ Len(listed) \in Nat /\ Len(rows) = 2^Len(listed)
        /\ \A r \in 1 .. Len(rows) : rows[r] = AnswerUnder(Row(asked, listed, r - 1))
    BY <1>0, <1>2, <2>2 DEF PinsInv, Tabled, TableOver
  <2>4. rows = [r \in 1 .. 2^Len(listed) |->
                  Abstract!Answer(query, Abstract!Override(asked, Abstract!RowPins(listed, r - 1)))]
    <3>1. rows = [r \in 1 .. Len(rows) |-> rows[r]]
      BY <2>2
    <3>2. \A r \in 1 .. Len(rows) :
            rows[r] = Abstract!Answer(query, Abstract!Override(asked, Abstract!RowPins(listed, r - 1)))
      BY <2>3 DEF AnswerUnder, Row, Over
    <3> QED  BY <2>3, <3>1, <3>2
  <2>5. Abstract!Valid(Abstract!RowPins(listed, 0))
    BY <2>3 DEF Abstract!Valid, Abstract!RowPins, Tabulable
  <2>6. Abstract!CountTable(listed)
    BY <1>0, <2>1, <2>2, <2>3, <2>4, <2>5 DEF Abstract!CountTable, Tabulable
  <2>7. listed \in Abstract!Tables
    <3>1. Len(listed) \in 0 .. MaxTableVars /\ listed \in [1 .. Len(listed) -> Leaf]
      BY <2>2, <2>3, BoundAssumption DEF Tabulable
    <3> QED  BY <3>1 DEF Abstract!Tables
  <2> QED  BY <2>6, <2>7 DEF Abstract!Next
<1> QED  BY <1>1, <1>2

\* A read that returns to its caller returns the fresh answer.
LEMMA ReadReturned ==
  ASSUME IInv, PinsInv, FinishRead, ~table.on
  PROVE  Abstract!Next
<1>1. pc = "finish" /\ UNCHANGED <<output, asked, query>> /\ value = asked
  BY DEF FinishRead, fixed, PinsInv, Single
<1>2. result' = Abstract!Outcome("value", <<AnswerUnder(asked)>>)
  BY <1>1, AnswerRead DEF FinishRead, ReadReturns, Returns
<1>3. Abstract!Read
  BY <1>1, <1>2 DEF Abstract!Read, AnswerUnder
<1> QED  BY <1>3 DEF Abstract!Next

\* A panic leaves the caller's pins, or the row's if it is inside a table.
LEMMA UnwindImplements ==
  ASSUME IInv, PinsInv, Unwind
  PROVE  Abstract!Next
<1>1. /\ TypeOK /\ pc # "pin" /\ asked' = value /\ result' = Abstract!Outcome("unwound", <<>>)
      /\ UNCHANGED <<output, query>>
  BY DEF Unwind, Returns, fixed, IInv
<1>2. CASE ~table.on
  <2>1. asked' = asked
    BY <1>1, <1>2 DEF PinsInv, Single
  <2>2. Abstract!Read
    BY <1>1, <2>1 DEF Abstract!Read, Abstract!Failure
  <2> QED  BY <2>2 DEF Abstract!Next
<1>3. CASE table.on
  <2>1. PICK listed \in Seq(Leaf) : listed = table.listed
    BY <1>1, TabledFacts
  <2>2. PICK row \in Nat : row = Len(table.rows)
    BY <1>1, TabledFacts
  <2>3. /\ Tabulable(listed) /\ Len(listed) \in Nat /\ 2^Len(listed) \in Nat
        /\ row <= 2^Len(listed) /\ row # 2^Len(listed)
        /\ asked' = Abstract!Override(asked, Abstract!RowPins(listed, row))
    BY <1>1, <1>3, <2>1, <2>2, TabledFacts DEF PinsInv, Tabled, TableOver, Row, Over
  <2>4. row \in 0 .. 2^Len(listed) - 1
    <3>1. PICK p \in Nat : p = 2^Len(listed)
      BY <2>3
    <3> QED  BY <2>3, <3>1
  <2>5. Abstract!AbandonTable(listed)
    BY <1>1, <2>3, <2>4 DEF Abstract!AbandonTable
  <2>6. listed \in Abstract!Tables
    <3>1. Len(listed) \in 0 .. MaxTableVars /\ listed \in [1 .. Len(listed) -> Leaf]
      BY <2>1, <2>3, BoundAssumption DEF Tabulable
    <3> QED  BY <3>1 DEF Abstract!Tables
  <2> QED  BY <2>5, <2>6 DEF Abstract!Next
<1> QED  BY <1>2, <1>3

LEMMA StepImplements == IInv /\ PinsInv /\ [Next]_vars => [Abstract!Next]_Abstract!vars
<1> SUFFICES ASSUME IInv, PinsInv, [Next]_vars PROVE [Abstract!Next]_Abstract!vars
  OBVIOUS
<1>40. ASSUME UNCHANGED <<output, asked, query, result>> PROVE [Abstract!Next]_Abstract!vars
  BY <1>40 DEF Abstract!vars
<1>41. ASSUME UNCHANGED <<output, asked, query>>, result' = Abstract!None PROVE [Abstract!Next]_Abstract!vars
  BY <1>41 DEF Abstract!Next, Abstract!Begin
<1>42. ASSUME UNCHANGED <<output, asked, query>>,
              result' \in {Abstract!Outcome("rejected", <<>>), Abstract!Outcome("refused", <<>>)}
       PROVE  [Abstract!Next]_Abstract!vars
  BY <1>42 DEF Abstract!Next, Abstract!Refuse, Abstract!Failure
<1>1. ASSUME NEW batch \in Batches, ApplyPins(batch) PROVE [Abstract!Next]_Abstract!vars
  <2>1. Abstract!SetPins(batch)
    BY <1>1 DEF ApplyPins, Rejects, Returns, Enters, fixed, Abstract!SetPins
  <2> QED  BY <2>1 DEF Abstract!Next, Batches
<1>2. CASE ClearPins
  <2>1. Abstract!ClearPins
    BY <1>2 DEF ClearPins, Enters, fixed, Abstract!ClearPins
  <2> QED  BY <2>1 DEF Abstract!Next
<1>3. CASE ReplaceQuery
  <2>1. Abstract!ReplaceQuery
    BY <1>3 DEF ReplaceQuery, Enters, fixed, Abstract!ReplaceQuery
  <2> QED  BY <2>1 DEF Abstract!Next
<1>4. CASE BeginRead
  BY <1>4, <1>41 DEF BeginRead, Enters, fixed
<1>5. ASSUME NEW listed \in Listings, CountTable(listed) PROVE [Abstract!Next]_Abstract!vars
  BY <1>5, <1>41, <1>42 DEF CountTable, Rejects, Returns, Enters, fixed
<1>6. CASE TableRefused
  BY <1>6, <1>42 DEF TableRefused, Returns, fixed
<1>7. CASE ApplyPin
  BY <1>7, <1>40 DEF ApplyPin, fixed
<1>8. CASE PinsApplied
  <2>1. CASE TableOver
    BY <1>8, <2>1, TableReturned
  <2>2. CASE ~TableOver
    BY <1>8, <1>40, <2>2 DEF PinsApplied, fixed
  <2> QED  BY <2>1, <2>2
<1>9. ASSUME ReadRefused, UNCHANGED <<output, asked, query>> PROVE [Abstract!Next]_Abstract!vars
  BY <1>9, <1>40, <1>42 DEF ReadRefused, Returns
<1>10. CASE EnterRefused
  BY <1>9, <1>10 DEF EnterRefused, fixed
<1>11. CASE NothingToRefresh
  BY <1>11, <1>40 DEF NothingToRefresh, fixed
<1>12. CASE StartIncremental
  BY <1>12, <1>40 DEF StartIncremental, fixed
<1>13. CASE StartFull
  BY <1>13, <1>40 DEF StartFull, fixed
<1>14. CASE MarkAncestor
  BY <1>14, <1>40 DEF MarkAncestor, fixed
<1>15. CASE NextLeaf
  BY <1>15, <1>40 DEF NextLeaf, fixed
<1>16. ASSUME NEW n \in Node, FoldLevel(n) PROVE [Abstract!Next]_Abstract!vars
  BY <1>16, <1>40 DEF FoldLevel, fixed
<1>17. CASE Refreshed
  BY <1>17, <1>40 DEF Refreshed, fixed
<1>18. CASE FinishRead
  <2>1. CASE ~table.on
    BY <1>18, <2>1, ReadReturned
  <2>2. CASE table.on
    BY <1>18, <1>40, <2>2 DEF FinishRead, ReadReturns, fixed
  <2> QED  BY <2>1, <2>2
<1>20. CASE RefuseRead
  BY <1>9, <1>20 DEF RefuseRead, fixed
<1>21. CASE Unwind
  BY <1>21, UnwindImplements
<1>22. CASE UNCHANGED vars
  BY <1>22, <1>40 DEF vars, fixed
<1> QED  BY <1>1, <1>2, <1>3, <1>4, <1>5, <1>6, <1>7, <1>8, <1>10, <1>11, <1>12, <1>13, <1>14, <1>15,
            <1>16, <1>17, <1>18, <1>20, <1>21, <1>22 DEF Next, Call, Continue

\* Whatever was pinned, refused, stopped, unwound or replaced before, every
\* answer is the one a fresh pass gives, and every table's row is its
\* assignment's: the cache implements ObservedQuery.
THEOREM CacheIsInvisible == Spec => AnswersAreFresh
<1>1. Init => Abstract!Init
  BY DEF Init, Abstract!Init
<1> QED  BY <1>1, Inductive, PinsInductive, StepImplements, PTL DEF Spec, AnswersAreFresh, Abstract!Spec
==============================================================================
