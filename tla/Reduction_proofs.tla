--------------------------- MODULE Reduction_proofs ---------------------------
(***************************************************************************)
(* Every diagram the calls of Reduction build or leave behind is well      *)
(* formed and deterministic, whatever the vtree, the operands and the      *)
(* moments at which a call is refused: no reference dangles, no two nodes  *)
(* of a level below the root share a pair, and a level names each leaf     *)
(* either by its literals or as One.                                       *)
(*                                                                         *)
(* One lemma per operation says that it leaves a sound diagram; the        *)
(* inductive invariant IInv adds what a step relies on of the steps before *)
(* it in its call.                                                         *)
(*                                                                         *)
(* In a sound diagram the scopes of two children share no leaf and the     *)
(* nodes of a level share no model, so that counting by sums of products   *)
(* counts each model once.                                                 *)
(***************************************************************************)
EXTENDS Reduction, FiniteSetTheorems, SequenceTheorems, TLAPS

-------------------------------------------------------------------------------
(* Numbers and the vtree. *)

\* The vnodes.
Vtree == Leaf \cup Internal

\* The slots of a level of n nodes are n.
LEMMA UpToFinite == \A n \in Nat : IsFiniteSet(1 .. n) /\ Cardinality(1 .. n) = n
<1>1. ASSUME NEW n \in Nat PROVE IsFiniteSet(1 .. n) /\ Cardinality(1 .. n) = n
  <2>1. n \in Int /\ 1 \in Int
    OBVIOUS
  <2>2. IsFiniteSet(1 .. n) /\ Cardinality(1 .. n) = IF 1 > n THEN 0 ELSE n - 1 + 1
    BY <2>1, FS_Interval
  <2> QED  BY <2>2
<1> QED  BY <1>1

\* A set of numbers has a least one.
LEMMA LeastNumber ==
  ASSUME NEW s, s \subseteq Nat, s # {}
  PROVE  \E m \in s : \A k \in s : m <= k
<1>1. PICK m \in s : \A k \in s : ~(<<k, m>> \in OpToRel(<, Nat))
  BY NatLessThanWellFounded, WFMin
<1>2. ASSUME NEW k \in s, k < m PROVE <<k, m>> \in OpToRel(<, Nat)
  BY <1>2 DEF OpToRel
<1>3. \A k \in s : ~(k < m)
  BY <1>1, <1>2
<1>4. \A k \in s : k \in Nat
  OBVIOUS
<1>5. \A k \in s : m <= k
  BY <1>3, <1>4
<1> QED  BY <1>5

\* A function is its table.
LEMMA TableIs == \A f : Table(f) = f
BY DEF Table

\* A bounded set of numbers has a greatest one.
LEMMA GreatestNumber ==
  ASSUME NEW s, s \subseteq Nat, s # {}, NEW n \in Nat, \A k \in s : k <= n
  PROVE  \E m \in s : \A k \in s : k <= m
<1> DEFINE above == {k \in Nat : \A j \in s : j <= k}
<1>1. PICK m \in above : \A k \in above : m <= k
  <2>1. n \in above /\ above \subseteq Nat
    OBVIOUS
  <2> HIDE DEF above
  <2> QED  BY <2>1, LeastNumber
<1>2. m \in Nat /\ \A j \in s : j <= m
  OBVIOUS
<1>3. ASSUME m \notin s PROVE FALSE
  <2>1. \A j \in s : j \in Nat /\ j <= m /\ j # m
    BY <1>2, <1>3
  <2>2. \A j \in s : j <= m - 1
    BY <2>1, <1>2
  <2>3. m - 1 \in Nat
    <3>1. PICK j \in s : TRUE
      OBVIOUS
    <3> QED  BY <3>1, <2>1, <1>2
  <2>4. m - 1 \in above
    BY <2>2, <2>3
  <2> QED  BY <2>4, <1>1, <1>2
<1> QED  BY <1>2, <1>3

\* The numbers of a finite set are bounded.
LEMMA FiniteIsBounded ==
  ASSUME NEW s, s \subseteq Nat, IsFiniteSet(s)
  PROVE  \E n \in Nat : \A k \in s : k <= n
<1> DEFINE unbounded == {u \in SUBSET s : ~\E n \in Nat : \A k \in u : k <= n}
<1>1. SUFFICES ASSUME unbounded # {} PROVE FALSE
  OBVIOUS
<1>2. PICK u \in unbounded : \A v \in unbounded : ~(<<v, u>> \in StrictSubsetOrdering(s))
  <2>1. unbounded \subseteq FiniteSubsetsOf(s)
    BY FS_FiniteSubsetsOfFinite
  <2> HIDE DEF unbounded
  <2> QED  BY <1>1, <2>1, FS_StrictSubsetOrderingWellFounded, WFMin
<1>3. u # {} 
  OBVIOUS
<1>4. PICK x \in u : TRUE
  BY <1>3
<1>5. u \ {x} \notin unbounded
  BY <1>2, <1>4 DEF StrictSubsetOrdering
<1>6. PICK n \in Nat : \A k \in u \ {x} : k <= n
  BY <1>5
<1>7. x \in Nat
  OBVIOUS
<1>8. \A k \in u : k <= IF n < x THEN x ELSE n
  BY <1>6, <1>7
<1> QED  BY <1>8, <1>6, <1>7

\* The root is internal, and above every level.
LEMMA RootIs == Root \in Internal /\ \A t \in Internal : t <= Root
<1>1. \E t \in Internal : \A u \in Internal : u <= t
  BY VtreeAssumption, FiniteIsBounded, GreatestNumber
<1> QED  BY <1>1 DEF Root

\* An internal vnode lies above its two children.
LEMMA InternalIs ==
  ASSUME NEW t \in Internal
  PROVE  /\ t \in Nat /\ t \notin Leaf /\ t # 0 /\ t <= Root
         /\ Left[t] \in Vtree /\ Right[t] \in Vtree /\ Left[t] # Right[t]
         /\ Left[t] < t /\ Right[t] < t /\ Left[t] \in Nat /\ Right[t] \in Nat
         /\ Left[t] # Root /\ Right[t] # Root
<1>1. /\ t \in Nat /\ Left[t] \in Vtree /\ Right[t] \in Vtree /\ Left[t] # Right[t]
      /\ Left[t] < t /\ Right[t] < t /\ t \notin Leaf /\ Leaf \cup Internal \subseteq Nat
  BY VtreeAssumption DEF Vtree
<1>2. Left[t] \in Nat /\ Right[t] \in Nat
  BY <1>1 DEF Vtree
<1>3. t <= Root /\ Root \in Nat
  BY RootIs, VtreeAssumption
<1> QED  BY <1>1, <1>2, <1>3

\* A child's parent is the vnode it is a child of.
LEMMA ParentOf ==
  ASSUME NEW t \in Internal, NEW c \in Children(t)
  PROVE  Parent[c] = t /\ c \in Vtree \ {Root} /\ Side(c) = (IF c = Left[t] THEN 1 ELSE 2)
<1>1. c \in {Left[t], Right[t]} /\ c \in UNION {Children(u) : u \in Internal}
  BY DEF Children
<1>2. \A u \in Internal : c \in Children(u) => u = t
  BY <1>1, VtreeAssumption DEF Children
<1>3. Parent[c] = t
  BY <1>1, <1>2 DEF Parent
<1> QED  BY <1>1, <1>3, InternalIs DEF Side

\* Every vnode but the root has a parent, above it.
LEMMA HasParent ==
  ASSUME NEW c \in Vtree, c # Root
  PROVE  Parent[c] \in Internal /\ c \in Children(Parent[c]) /\ c < Parent[c]
<1>1. \/ \E t \in Internal : c \in {Left[t], Right[t]}
      \/ c \in Internal /\ \A t \in Internal : t <= c
  BY VtreeAssumption DEF Vtree
<1>2. CASE c \in Internal /\ \A t \in Internal : t <= c
  <2>1. Root <= c /\ c <= Root /\ c \in Nat /\ Root \in Nat
    BY <1>2, RootIs, VtreeAssumption
  <2> QED  BY <2>1
<1>3. CASE \E t \in Internal : c \in {Left[t], Right[t]}
  <2>1. PICK t \in Internal : c \in Children(t)
    BY <1>3 DEF Children
  <2>2. Parent[c] = t
    BY <2>1, ParentOf
  <2> QED  BY <2>1, <2>2, InternalIs DEF Children
<1> QED  BY <1>1, <1>2, <1>3

-------------------------------------------------------------------------------
(* Ranks: where compaction moves the slots it keeps. *)

\* Ranks number the slots kept in their order.
LEMMA RankBounds ==
  ASSUME NEW kept, kept \subseteq Nat, IsFiniteSet(kept)
  PROVE  /\ \A i : Rank(kept, i) \in Nat /\ Rank(kept, i) <= Cardinality(kept)
         /\ \A i \in kept : Rank(kept, i) >= 1
         /\ \A i, j \in kept : i < j => Rank(kept, i) < Rank(kept, j)
<1> DEFINE upTo(i) == {j \in kept : j <= i}
<1>1. \A i : upTo(i) \in SUBSET kept /\ Rank(kept, i) = Cardinality(upTo(i))
  BY DEF Rank
<1>2. \A i : IsFiniteSet(upTo(i)) /\ Cardinality(upTo(i)) \in Nat /\ Cardinality(upTo(i)) <= Cardinality(kept)
  BY <1>1, FS_Subset, FS_CardinalityType
<1>3. ASSUME NEW i \in kept PROVE Cardinality(upTo(i)) >= 1
  <2>1. i \in upTo(i)
    OBVIOUS
  <2> HIDE DEF upTo
  <2>2. Cardinality(upTo(i)) # 0
    BY <2>1, <1>2, FS_EmptySet
  <2> QED  BY <2>2, <1>2
<1>4. ASSUME NEW i \in kept, NEW j \in kept, i < j PROVE Cardinality(upTo(i)) < Cardinality(upTo(j))
  <2>0. \A k \in kept : k \in Nat
    OBVIOUS
  <2>a. (\A k \in kept : k <= i => k <= j) /\ j <= j /\ ~(j <= i)
    BY <1>4, <2>0
  <2>1. upTo(i) \in SUBSET upTo(j) /\ j \in upTo(j) /\ j \notin upTo(i)
    BY <2>a
  <2> HIDE DEF upTo
  <2>2. upTo(i) # upTo(j)
    BY <2>1
  <2>3. Cardinality(upTo(i)) <= Cardinality(upTo(j)) /\ Cardinality(upTo(i)) # Cardinality(upTo(j))
    BY <2>1, <2>2, <1>2, FS_Subset
  <2> QED  BY <2>3, <1>2
<1> HIDE DEF upTo
<1> QED  BY <1>1, <1>2, <1>3, <1>4

\* Every number up to how many are kept is some slot's rank.
LEMMA RankOnto ==
  ASSUME NEW kept, kept \subseteq Nat, IsFiniteSet(kept), NEW k \in 1 .. Cardinality(kept)
  PROVE  \E i \in kept : Rank(kept, i) = k
<1> DEFINE n == Cardinality(kept)
           f == [i \in kept |-> Rank(kept, i)]
           T == {f[i] : i \in kept}
<1>0. /\ \A i \in kept : i \in Nat /\ Rank(kept, i) \in Nat /\ Rank(kept, i) <= Cardinality(kept) /\ Rank(kept, i) >= 1
      /\ \A i, j \in kept : i < j => Rank(kept, i) < Rank(kept, j)
  BY RankBounds
<1>1. n \in Nat
  BY FS_CardinalityType
<1>2. \A i, j \in kept : i # j => f[i] # f[j]
  BY <1>0
<1>3. \A i \in kept : f[i] \in 1 .. n
  BY <1>0, <1>1
<1>4. f \in Bijection(kept, T)
  BY <1>2 DEF Bijection, Injection, Surjection, IsInjective
<1>5. IsFiniteSet(T) /\ Cardinality(T) = n
  BY <1>4, FS_Bijection DEF ExistsBijection
<1>6. T \in SUBSET (1 .. n) /\ IsFiniteSet(1 .. n) /\ Cardinality(1 .. n) = n
  BY <1>3, <1>1, UpToFinite
<1>7. T = 1 .. n
  <2> HIDE DEF T, n
  <2> QED  BY <1>5, <1>6, FS_Subset
<1> QED  BY <1>7

\* The slots kept, in order, and where each comes to lie.
LEMMA AscendingIs ==
  ASSUME NEW kept, kept \subseteq Nat, IsFiniteSet(kept)
  PROVE  /\ Ascending(kept) \in [1 .. Cardinality(kept) -> kept]
         /\ Cardinality(kept) \in Nat
         /\ \A k \in 1 .. Cardinality(kept) : Rank(kept, Ascending(kept)[k]) = k
         /\ \A i \in kept : Rank(kept, i) \in 1 .. Cardinality(kept) /\ Ascending(kept)[Rank(kept, i)] = i
         /\ \A i, j \in kept : Rank(kept, i) = Rank(kept, j) => i = j
<1>0. /\ \A i \in kept : i \in Nat /\ Rank(kept, i) \in Nat /\ Rank(kept, i) <= Cardinality(kept) /\ Rank(kept, i) >= 1
      /\ \A i, j \in kept : i < j => Rank(kept, i) < Rank(kept, j)
  BY RankBounds
<1>1. Cardinality(kept) \in Nat
  BY FS_CardinalityType
<1>2. \A k \in 1 .. Cardinality(kept) : Ascending(kept)[k] \in kept /\ Rank(kept, Ascending(kept)[k]) = k
  BY RankOnto DEF Ascending
<1>3. \A i, j \in kept : Rank(kept, i) = Rank(kept, j) => i = j
  <2>1. \A i, j \in kept : i # j => i < j \/ j < i
    BY <1>0
  <2> QED  BY <2>1, <1>0
<1>4. \A i \in kept : Rank(kept, i) \in 1 .. Cardinality(kept)
  BY <1>0, <1>1
<1>5. Ascending(kept) \in [1 .. Cardinality(kept) -> kept]
  BY <1>2 DEF Ascending
<1>6. \A i \in kept : Ascending(kept)[Rank(kept, i)] = i
  BY <1>2, <1>3, <1>4
<1> QED  BY <1>1, <1>2, <1>3, <1>4, <1>5, <1>6

-------------------------------------------------------------------------------
(* Compaction (Level::compact). *)

\* A leaf's slots are its two literals and One.
LEMMA LeafSlots == \A levels : \A c \in Leaf : Slots(levels, c) = {1, 2, 3}
BY DEF Slots, Pos, Neg, One

\* A level is a sequence of nodes, its slots their numbers.
LEMMA LevelIs ==
  ASSUME NEW levels, InRange(levels), NEW t \in Internal
  PROVE  /\ levels[t] \in Seq(SUBSET (Nat \X Nat)) /\ Len(levels[t]) \in Nat
         /\ DOMAIN levels[t] = 1 .. Len(levels[t])
         /\ Slots(levels, t) = 1 .. Len(levels[t])
         /\ \A i \in DOMAIN levels[t] : levels[t][i] \subseteq Nat \X Nat
<1>1. levels[t] \in Seq(SUBSET (Nat \X Nat))
  BY DEF InRange
<1>2. Slots(levels, t) = DOMAIN levels[t]
  BY InternalIs DEF Slots
<1> QED  BY <1>1, <1>2

\* A pair names a slot of each child.
LEMMA PairIs ==
  ASSUME NEW levels, InRange(levels), NEW t \in Internal, NEW i \in DOMAIN levels[t], NEW p \in levels[t][i]
  PROVE  /\ p \in Nat \X Nat /\ p[1] \in Nat /\ p[2] \in Nat /\ p = <<p[1], p[2]>>
         /\ p[1] \in Slots(levels, Left[t]) /\ p[2] \in Slots(levels, Right[t])
<1>1. p \in Nat \X Nat
  BY LevelIs
<1>2. p \in Slots(levels, Left[t]) \X Slots(levels, Right[t])
  BY DEF InRange
<1> QED  BY <1>1, <1>2

\* A function on an interval from one.
IsSequence(s) == \E n \in Nat : DOMAIN s = 1 .. n /\ s = [k \in 1 .. n |-> s[k]]

\* The pairs of a level, by what they need to be in range.
LEMMA InRangeFrom ==
  ASSUME NEW levels, levels = [t \in Internal |-> levels[t]],
         \A t \in Internal : IsSequence(levels[t]),
         \A t \in Internal : \A i \in DOMAIN levels[t] : \A p \in levels[t][i] :
           /\ p = <<p[1], p[2]>>
           /\ p[1] \in Slots(levels, Left[t]) /\ p[2] \in Slots(levels, Right[t])
  PROVE  InRange(levels)
<1>1. \A c \in Vtree : Slots(levels, c) \subseteq Nat
  <2>1. \A c \in Leaf : Slots(levels, c) \subseteq Nat
    BY LeafSlots
  <2>2. \A c \in Internal : Slots(levels, c) \subseteq Nat
    <3>1. \A c \in Internal : Slots(levels, c) = DOMAIN levels[c]
      BY InternalIs DEF Slots
    <3> QED  BY <3>1 DEF IsSequence
  <2> QED  BY <2>1, <2>2 DEF Vtree
<1>2. ASSUME NEW t \in Internal, NEW i \in DOMAIN levels[t]
      PROVE  levels[t][i] \subseteq Slots(levels, Left[t]) \X Slots(levels, Right[t])
  <2> SUFFICES ASSUME NEW p \in levels[t][i] PROVE p \in Slots(levels, Left[t]) \X Slots(levels, Right[t])
    OBVIOUS
  <2>1. p = <<p[1], p[2]>> /\ p[1] \in Slots(levels, Left[t]) /\ p[2] \in Slots(levels, Right[t])
    OBVIOUS
  <2> QED  BY <2>1
<1>3. ASSUME NEW t \in Internal PROVE levels[t] \in Seq(SUBSET (Nat \X Nat))
  <2>1. PICK n \in Nat : DOMAIN levels[t] = 1 .. n /\ levels[t] = [k \in 1 .. n |-> levels[t][k]]
    BY DEF IsSequence
  <2>2. \A i \in 1 .. n : levels[t][i] \in SUBSET (Nat \X Nat)
    <3>1. Slots(levels, Left[t]) \subseteq Nat /\ Slots(levels, Right[t]) \subseteq Nat
      BY <1>1, InternalIs
    <3>2. (Slots(levels, Left[t]) \X Slots(levels, Right[t])) \subseteq (Nat \X Nat)
      BY <3>1
    <3>3. \A i \in 1 .. n : levels[t][i] \subseteq Slots(levels, Left[t]) \X Slots(levels, Right[t])
      BY <2>1, <1>2
    <3> QED  BY <3>2, <3>3
  <2>3. levels[t] \in [1 .. n -> SUBSET (Nat \X Nat)]
    <3> SUFFICES [k \in 1 .. n |-> levels[t][k]] \in [1 .. n -> SUBSET (Nat \X Nat)]
      BY <2>1
    <3> QED  BY <2>2
  <2> QED  BY <2>3
<1>4. levels \in [Internal -> Seq(SUBSET (Nat \X Nat))]
  <2> SUFFICES [t \in Internal |-> levels[t]] \in [Internal -> Seq(SUBSET (Nat \X Nat))]
    OBVIOUS
  <2> QED  BY <1>3
<1> QED  BY <1>2, <1>4 DEF InRange
-----------------------------------------------------------------------------
\* Nodes that may stay when others go: what they name stays.
Closed(levels, kept) ==
  \A t \in Internal :
    /\ kept[t] \subseteq DOMAIN levels[t]
    /\ \A i \in kept[t] : \A p \in levels[t][i] :
         (Left[t] \notin Leaf => p[1] \in kept[Left[t]]) /\ (Right[t] \notin Leaf => p[2] \in kept[Right[t]])

To(kept, c, ref)    == IF c \in Leaf THEN ref ELSE Rank(kept[c], ref)
MovedPair(kept, t, p) == <<To(kept, Left[t], p[1]), To(kept, Right[t], p[2])>>

\* A compacted level.
KeptLevel(levels, kept, t) ==
  [k \in DOMAIN Ascending(kept[t]) |-> {MovedPair(kept, t, p) : p \in levels[t][Ascending(kept[t])[k]]}]

\* Compaction works level by level.
LEMMA CompactAt ==
  ASSUME NEW levels, NEW kept, NEW t \in Internal
  PROVE  Compact(levels, kept)[t] = KeptLevel(levels, kept, t)
BY DEF Compact, MovedPair, To, KeptLevel

\* What is kept of a level is a finite set of slots.
LEMMA KeptIs ==
  ASSUME NEW levels, InRange(levels), NEW kept, Closed(levels, kept), NEW t \in Internal
  PROVE  kept[t] \subseteq Nat /\ IsFiniteSet(kept[t]) /\ Cardinality(kept[t]) \in Nat
<1>1. kept[t] \in SUBSET (1 .. Len(levels[t])) /\ Len(levels[t]) \in Nat
  BY LevelIs DEF Closed
<1>2. IsFiniteSet(1 .. Len(levels[t]))
  BY <1>1, UpToFinite
<1>3. IsFiniteSet(kept[t]) /\ Cardinality(kept[t]) \in Nat
  BY <1>1, <1>2, FS_Subset, FS_CardinalityType
<1>4. \A i \in 1 .. Len(levels[t]) : i \in Nat
  BY <1>1
<1> QED  BY <1>1, <1>3, <1>4

\* Where the node of a slot of the smaller level was.
Was(kept, t, k) == Ascending(kept[t])[k]

\* Old and new slots of a compacted level correspond one to one.
LEMMA WasIs ==
  ASSUME NEW levels, InRange(levels), NEW kept, Closed(levels, kept), NEW t \in Internal
  PROVE  /\ Cardinality(kept[t]) \in Nat
         /\ \A k \in 1 .. Cardinality(kept[t]) :
              Was(kept, t, k) \in kept[t] /\ Was(kept, t, k) \in DOMAIN levels[t] /\ Rank(kept[t], Was(kept, t, k)) = k
         /\ \A j, k \in 1 .. Cardinality(kept[t]) : Was(kept, t, j) = Was(kept, t, k) => j = k
         /\ \A i \in kept[t] : Rank(kept[t], i) \in 1 .. Cardinality(kept[t]) /\ Was(kept, t, Rank(kept[t], i)) = i
         /\ DOMAIN Ascending(kept[t]) = 1 .. Cardinality(kept[t])
<1>1. kept[t] \subseteq Nat /\ IsFiniteSet(kept[t]) /\ kept[t] \subseteq DOMAIN levels[t]
  BY KeptIs DEF Closed
<1>2. /\ Ascending(kept[t]) \in [1 .. Cardinality(kept[t]) -> kept[t]] /\ Cardinality(kept[t]) \in Nat
      /\ \A k \in 1 .. Cardinality(kept[t]) : Rank(kept[t], Ascending(kept[t])[k]) = k
      /\ \A i \in kept[t] : Rank(kept[t], i) \in 1 .. Cardinality(kept[t]) /\ Ascending(kept[t])[Rank(kept[t], i)] = i
  BY <1>1, AscendingIs
<1>3. \A k \in 1 .. Cardinality(kept[t]) : Was(kept, t, k) \in kept[t] /\ Was(kept, t, k) \in DOMAIN levels[t]
  BY <1>1, <1>2 DEF Was
<1> QED  BY <1>2, <1>3 DEF Was

\* A compacted level is a sequence as long as what was kept.
LEMMA CompactShape ==
  ASSUME NEW levels, InRange(levels), NEW kept, Closed(levels, kept), NEW t \in Internal
  PROVE  /\ Cardinality(kept[t]) \in Nat
         /\ DOMAIN Compact(levels, kept)[t] = 1 .. Cardinality(kept[t])
         /\ IsSequence(Compact(levels, kept)[t])
<1>1. DOMAIN Ascending(kept[t]) = 1 .. Cardinality(kept[t]) /\ Cardinality(kept[t]) \in Nat
  BY WasIs
<1>2. Compact(levels, kept)[t] = KeptLevel(levels, kept, t)
  BY CompactAt
<1>3. /\ DOMAIN KeptLevel(levels, kept, t) = 1 .. Cardinality(kept[t])
      /\ KeptLevel(levels, kept, t) = [k \in 1 .. Cardinality(kept[t]) |-> KeptLevel(levels, kept, t)[k]]
  BY <1>1 DEF KeptLevel
<1> QED  BY <1>1, <1>2, <1>3 DEF IsSequence

\* A compacted node is the node it was, its pairs moved.
LEMMA CompactNode ==
  ASSUME NEW levels, InRange(levels), NEW kept, Closed(levels, kept), NEW t \in Internal,
         NEW k \in DOMAIN Compact(levels, kept)[t]
  PROVE  /\ k \in 1 .. Cardinality(kept[t])
         /\ Was(kept, t, k) \in kept[t] /\ Was(kept, t, k) \in DOMAIN levels[t]
         /\ Compact(levels, kept)[t][k] = {MovedPair(kept, t, p) : p \in levels[t][Was(kept, t, k)]}
<1>1. k \in 1 .. Cardinality(kept[t])
  BY CompactShape
<1>2. Was(kept, t, k) \in kept[t] /\ Was(kept, t, k) \in DOMAIN levels[t]
      /\ DOMAIN Ascending(kept[t]) = 1 .. Cardinality(kept[t])
  BY <1>1, WasIs
<1>3. Compact(levels, kept)[t] = KeptLevel(levels, kept, t)
  BY CompactAt
<1>4. KeptLevel(levels, kept, t)[k] = {MovedPair(kept, t, p) : p \in levels[t][Was(kept, t, k)]}
  BY <1>1, <1>2 DEF KeptLevel, Was
<1> QED  BY <1>1, <1>2, <1>3, <1>4

\* The pairs of a compacted node are the old ones moved, and all of them.
LEMMA CompactPair ==
  ASSUME NEW levels, InRange(levels), NEW kept, Closed(levels, kept), NEW t \in Internal,
         NEW k \in DOMAIN Compact(levels, kept)[t]
  PROVE  /\ \A q \in Compact(levels, kept)[t][k] : \E p \in levels[t][Was(kept, t, k)] : q = MovedPair(kept, t, p)
         /\ \A p \in levels[t][Was(kept, t, k)] : MovedPair(kept, t, p) \in Compact(levels, kept)[t][k]
<1>1. Compact(levels, kept)[t][k] = {MovedPair(kept, t, p) : p \in levels[t][Was(kept, t, k)]}
  BY CompactNode
<1> QED  BY <1>1

\* The slots of a compacted level.
LEMMA CompactSlots ==
  ASSUME NEW levels, InRange(levels), NEW kept, Closed(levels, kept), NEW c \in Vtree
  PROVE  /\ c \in Leaf => Slots(Compact(levels, kept), c) = {1, 2, 3}
         /\ c \notin Leaf => Slots(Compact(levels, kept), c) = 1 .. Cardinality(kept[c])
<1>1. CASE c \in Leaf
  BY <1>1, LeafSlots
<1>2. CASE c \notin Leaf
  <2>1. c \in Internal
    BY <1>2 DEF Vtree
  <2>2. DOMAIN Compact(levels, kept)[c] = 1 .. Cardinality(kept[c])
    BY <2>1, CompactShape
  <2> QED  BY <1>2, <2>2 DEF Slots
<1> QED  BY <1>1, <1>2

\* Where a reference goes, and that different ones stay different.
LEMMA ToIs ==
  ASSUME NEW levels, InRange(levels), NEW kept, Closed(levels, kept), NEW c \in Vtree,
         NEW a, c \notin Leaf => a \in kept[c], NEW b, c \notin Leaf => b \in kept[c]
  PROVE  /\ c \in Leaf => To(kept, c, a) = a
         /\ c \notin Leaf => To(kept, c, a) \in 1 .. Cardinality(kept[c])
         /\ To(kept, c, a) = To(kept, c, b) => a = b
<1>1. CASE c \in Leaf
  BY <1>1 DEF To
<1>2. CASE c \notin Leaf
  <2>1. c \in Internal /\ a \in kept[c] /\ b \in kept[c]
    BY <1>2 DEF Vtree
  <2>2. kept[c] \subseteq Nat /\ IsFiniteSet(kept[c])
    BY <2>1, KeptIs
  <2> QED  BY <1>2, <2>1, <2>2, AscendingIs DEF To
<1> QED  BY <1>1, <1>2

\* Where a kept node's pair goes.
LEMMA MovedPairIs ==
  ASSUME NEW levels, InRange(levels), NEW kept, Closed(levels, kept), NEW t \in Internal,
         NEW i \in kept[t], NEW p \in levels[t][i]
  PROVE  LET q == MovedPair(kept, t, p)
         IN  /\ q = <<q[1], q[2]>>
             /\ q[1] = To(kept, Left[t], p[1]) /\ q[2] = To(kept, Right[t], p[2])
             /\ Left[t] \in Leaf => q[1] = p[1] /\ q[1] \in {1, 2, 3}
             /\ Right[t] \in Leaf => q[2] = p[2] /\ q[2] \in {1, 2, 3}
             /\ Left[t] \notin Leaf => q[1] \in 1 .. Cardinality(kept[Left[t]])
             /\ Right[t] \notin Leaf => q[2] \in 1 .. Cardinality(kept[Right[t]])
<1>1. i \in DOMAIN levels[t]
  BY DEF Closed
<1>2. p[1] \in Slots(levels, Left[t]) /\ p[2] \in Slots(levels, Right[t])
  BY <1>1, PairIs
<1>3. (Left[t] \notin Leaf => p[1] \in kept[Left[t]]) /\ (Right[t] \notin Leaf => p[2] \in kept[Right[t]])
  BY DEF Closed
<1>4. Left[t] \in Vtree /\ Right[t] \in Vtree
  BY InternalIs
<1>5. /\ Left[t] \in Leaf => To(kept, Left[t], p[1]) = p[1]
      /\ Left[t] \notin Leaf => To(kept, Left[t], p[1]) \in 1 .. Cardinality(kept[Left[t]])
  BY <1>3, <1>4, ToIs
<1>6. /\ Right[t] \in Leaf => To(kept, Right[t], p[2]) = p[2]
      /\ Right[t] \notin Leaf => To(kept, Right[t], p[2]) \in 1 .. Cardinality(kept[Right[t]])
  BY <1>3, <1>4, ToIs
<1>7. (Left[t] \in Leaf => p[1] \in {1, 2, 3}) /\ (Right[t] \in Leaf => p[2] \in {1, 2, 3})
  BY <1>2, LeafSlots
<1> QED  BY <1>5, <1>6, <1>7 DEF MovedPair

\* Different pairs move to different pairs.
LEMMA MovedPairInjective ==
  ASSUME NEW levels, InRange(levels), NEW kept, Closed(levels, kept), NEW t \in Internal,
         NEW i \in kept[t], NEW p \in levels[t][i], NEW j \in kept[t], NEW q \in levels[t][j],
         MovedPair(kept, t, p) = MovedPair(kept, t, q)
  PROVE  p = q
<1>1. i \in DOMAIN levels[t] /\ j \in DOMAIN levels[t]
  BY DEF Closed
<1>2. p = <<p[1], p[2]>> /\ q = <<q[1], q[2]>>
  BY <1>1, PairIs
<1>3. /\ Left[t] \notin Leaf => p[1] \in kept[Left[t]]
      /\ Left[t] \notin Leaf => q[1] \in kept[Left[t]]
      /\ Right[t] \notin Leaf => p[2] \in kept[Right[t]]
      /\ Right[t] \notin Leaf => q[2] \in kept[Right[t]]
  BY DEF Closed
<1>4. Left[t] \in Vtree /\ Right[t] \in Vtree
  BY InternalIs
<1>5. To(kept, Left[t], p[1]) = To(kept, Left[t], q[1]) /\ To(kept, Right[t], p[2]) = To(kept, Right[t], q[2])
  BY DEF MovedPair
<1>6. p[1] = q[1]
  BY <1>3, <1>4, <1>5, ToIs
<1>7. p[2] = q[2]
  BY <1>3, <1>4, <1>5, ToIs
<1> QED  BY <1>2, <1>6, <1>7

\* Two nodes of a level name its leaves in one form.
OneForm(t, a, b) ==
  \A p \in a, q \in b : /\ Left[t] \in Leaf => (p[1] = 3 <=> q[1] = 3)
                        /\ Right[t] \in Leaf => (p[2] = 3 <=> q[2] = 3)

\* One form, through the leaf children of the level.
LEMMA OneFormIs ==
  ASSUME NEW t \in Internal, NEW a, NEW b
  PROVE  OneForm(t, a, b) <=> \A c \in Children(t) \cap Leaf : \A p \in a, q \in b :
                                p[Side(c)] = One <=> q[Side(c)] = One
<1>1. /\ Left[t] \in Children(t) /\ Right[t] \in Children(t) /\ Left[t] # Right[t]
      /\ \A c \in Children(t) : c = Left[t] \/ c = Right[t]
  BY InternalIs DEF Children
<1>2. Side(Left[t]) = 1 /\ Side(Right[t]) = 2
  BY <1>1, ParentOf
<1> QED  BY <1>1, <1>2 DEF OneForm, One

\* Determinism, two nodes at a time: no pair in two nodes of a level, one form for all.
LEMMA DeterministicIs ==
  ASSUME NEW levels
  PROVE  Deterministic(levels) <=>
           \A t \in Internal : \A i, j \in DOMAIN levels[t] :
             /\ t # Root /\ i # j => levels[t][i] \cap levels[t][j] = {}
             /\ t # Root \/ i = j => OneForm(t, levels[t][i], levels[t][j])
BY OneFormIs DEF Deterministic

\* Compaction leaves no reference dangling (Level::compact).
LEMMA CompactInRange ==
  ASSUME NEW levels, InRange(levels), NEW kept, Closed(levels, kept)
  PROVE  InRange(Compact(levels, kept))
<1> DEFINE new == Compact(levels, kept)
<1>1. new = [t \in Internal |-> new[t]]
  BY DEF Compact
<1>2. \A t \in Internal : IsSequence(new[t])
  BY CompactShape
<1>3. ASSUME NEW t \in Internal, NEW k \in DOMAIN new[t], NEW q \in new[t][k]
      PROVE  q = <<q[1], q[2]>> /\ q[1] \in Slots(new, Left[t]) /\ q[2] \in Slots(new, Right[t])
  <2>1. Was(kept, t, k) \in kept[t] /\ \E p \in levels[t][Was(kept, t, k)] : q = MovedPair(kept, t, p)
    BY CompactNode, CompactPair
  <2>2. PICK p \in levels[t][Was(kept, t, k)] : q = MovedPair(kept, t, p)
    BY <2>1
  <2>3. /\ q = <<q[1], q[2]>>
        /\ Left[t] \in Leaf => q[1] \in {1, 2, 3}
        /\ Right[t] \in Leaf => q[2] \in {1, 2, 3}
        /\ Left[t] \notin Leaf => q[1] \in 1 .. Cardinality(kept[Left[t]])
        /\ Right[t] \notin Leaf => q[2] \in 1 .. Cardinality(kept[Right[t]])
    BY <2>1, <2>2, MovedPairIs
  <2>4. Left[t] \in Vtree /\ Right[t] \in Vtree
    BY InternalIs
  <2>5. /\ \A c \in Vtree : c \in Leaf => Slots(new, c) = {1, 2, 3}
        /\ \A c \in Vtree : c \notin Leaf => Slots(new, c) = 1 .. Cardinality(kept[c])
    BY CompactSlots
  <2> QED  BY <2>3, <2>4, <2>5
<1> HIDE DEF new
<1>5. InRange(new)
  BY <1>1, <1>2, <1>3, InRangeFrom
<1> QED  BY <1>5 DEF new

\* Compaction keeps a diagram deterministic.
LEMMA CompactDeterministic ==
  ASSUME NEW levels, InRange(levels), Deterministic(levels), NEW kept, Closed(levels, kept)
  PROVE  Deterministic(Compact(levels, kept))
<1> DEFINE new == Compact(levels, kept)
<1>3. ASSUME NEW t \in Internal, NEW j \in DOMAIN new[t], NEW k \in DOMAIN new[t]
      PROVE  /\ t # Root /\ j # k => new[t][j] \cap new[t][k] = {}
             /\ t # Root \/ j = k => OneForm(t, new[t][j], new[t][k])
  <2> DEFINE i1 == Was(kept, t, j)
             i2 == Was(kept, t, k)
  <2>1. /\ i1 \in kept[t] /\ i2 \in kept[t] /\ i1 \in DOMAIN levels[t] /\ i2 \in DOMAIN levels[t]
        /\ i1 = i2 => j = k
    <3>1. j \in 1 .. Cardinality(kept[t]) /\ k \in 1 .. Cardinality(kept[t])
      BY CompactNode
    <3> QED  BY <3>1, WasIs
  <2>2. /\ t # Root /\ i1 # i2 => levels[t][i1] \cap levels[t][i2] = {}
        /\ t # Root \/ i1 = i2 => OneForm(t, levels[t][i1], levels[t][i2])
    BY <2>1, DeterministicIs
  <2>3. j = k => i1 = i2
    OBVIOUS
  <2>9. /\ \A q \in new[t][j] : \E p \in levels[t][i1] : q = MovedPair(kept, t, p)
        /\ \A q \in new[t][k] : \E p \in levels[t][i2] : q = MovedPair(kept, t, p)
    BY CompactPair
  <2> HIDE DEF i1, i2, new
  <2>4. ASSUME t # Root, j # k, NEW q \in new[t][j], q \in new[t][k] PROVE FALSE
    <3>1. PICK p1 \in levels[t][i1] : q = MovedPair(kept, t, p1)
      BY <2>9
    <3>2. PICK p2 \in levels[t][i2] : q = MovedPair(kept, t, p2)
      BY <2>9, <2>4
    <3>3. MovedPair(kept, t, p1) = MovedPair(kept, t, p2)
      BY <3>1, <3>2
    <3>4. p1 = p2
      BY <3>3, <2>1, MovedPairInjective
    <3> QED  BY <3>4, <2>1, <2>2, <2>4
  <2>5. ASSUME t # Root \/ j = k, NEW q1 \in new[t][j], NEW q2 \in new[t][k]
        PROVE  /\ Left[t] \in Leaf => (q1[1] = 3 <=> q2[1] = 3)
               /\ Right[t] \in Leaf => (q1[2] = 3 <=> q2[2] = 3)
    <3>1. PICK p1 \in levels[t][i1] : q1 = MovedPair(kept, t, p1)
      BY <2>9
    <3>2. PICK p2 \in levels[t][i2] : q2 = MovedPair(kept, t, p2)
      BY <2>9
    <3>3. /\ Left[t] \in Leaf => q1[1] = p1[1] /\ q2[1] = p2[1]
          /\ Right[t] \in Leaf => q1[2] = p1[2] /\ q2[2] = p2[2]
      BY <3>1, <3>2, <2>1, MovedPairIs
    <3>4. /\ Left[t] \in Leaf => (p1[1] = 3 <=> p2[1] = 3)
          /\ Right[t] \in Leaf => (p1[2] = 3 <=> p2[2] = 3)
      BY <2>2, <2>3, <2>5 DEF OneForm
    <3> QED  BY <3>3, <3>4
  <2>6. t # Root /\ j # k => new[t][j] \cap new[t][k] = {}
    BY <2>4
  <2>7. t # Root \/ j = k => OneForm(t, new[t][j], new[t][k])
    BY <2>5 DEF OneForm
  <2> QED  BY <2>6, <2>7
<1> HIDE DEF new
<1>4. Deterministic(new)
  BY <1>3, DeterministicIs
<1> QED  BY <1>4 DEF new

-------------------------------------------------------------------------------
(* Sound diagrams. *)

\* The part of the invariant about one diagram.
Sound(d) == WellFormed(d) /\ Deterministic(d.levels) /\ (d.certified => Len(d.levels[Root]) <= 1)

\* The fields of a diagram.
LEMMA DiagramIs ==
  ASSUME NEW l, NEW o, NEW c, NEW v, NEW s, NEW e
  PROVE  /\ Diagram(l, o, c, v, s, e).levels = l /\ Diagram(l, o, c, v, s, e).out = o
         /\ Diagram(l, o, c, v, s, e).contract = c /\ Diagram(l, o, c, v, s, e).leaves = v
         /\ Diagram(l, o, c, v, s, e).loose = s /\ Diagram(l, o, c, v, s, e).certified = e
BY DEF Diagram

\* A diagram with one field replaced.
LEMMA DiagramWith ==
  ASSUME NEW l, NEW o, NEW c, NEW v, NEW s, NEW e, NEW x
  PROVE  /\ [Diagram(l, o, c, v, s, e) EXCEPT !.levels = x] = Diagram(x, o, c, v, s, e)
         /\ [Diagram(l, o, c, v, s, e) EXCEPT !.out = x] = Diagram(l, x, c, v, s, e)
         /\ [Diagram(l, o, c, v, s, e) EXCEPT !.contract = x] = Diagram(l, o, x, v, s, e)
         /\ [Diagram(l, o, c, v, s, e) EXCEPT !.leaves = x] = Diagram(l, o, c, x, s, e)
         /\ [Diagram(l, o, c, v, s, e) EXCEPT !.loose = x] = Diagram(l, o, c, v, x, e)
BY DEF Diagram

\* What a sound diagram is made from.
LEMMA SoundDiagram ==
  ASSUME NEW l, NEW o, NEW c, NEW v, NEW s, NEW e,
         InRange(l), Deterministic(l), o \in {Zero} \cup DOMAIN l[Root],
         c \subseteq Internal, v \subseteq Internal, s = Unknown \/ s \subseteq Internal \ {Root},
         e \in BOOLEAN, e => Len(l[Root]) <= 1
  PROVE  Sound(Diagram(l, o, c, v, s, e))
BY DiagramIs DEF Sound, WellFormed

\* What a sound diagram is made of.
LEMMA SoundIs ==
  ASSUME NEW d, Sound(d)
  PROVE  /\ d = Diagram(d.levels, d.out, d.contract, d.leaves, d.loose, d.certified)
         /\ InRange(d.levels) /\ Deterministic(d.levels) /\ d.out \in {Zero} \cup DOMAIN d.levels[Root]
         /\ d.contract \subseteq Internal /\ d.leaves \subseteq Internal
         /\ d.loose = Unknown \/ d.loose \subseteq Internal \ {Root}
         /\ d.certified \in BOOLEAN /\ (d.certified => Len(d.levels[Root]) <= 1)
BY DEF Sound, WellFormed

\* What a change to some levels records (Levels::invalidate).
LEMMA InvalidateIs ==
  ASSUME NEW d, d = Diagram(d.levels, d.out, d.contract, d.leaves, d.loose, d.certified), NEW changed
  PROVE  Invalidate(d, changed)
           = Diagram(d.levels, d.out, d.contract \cup changed, d.leaves \cup changed,
                     IF changed = {} THEN d.loose ELSE Unknown, IF changed = {} THEN d.certified ELSE FALSE)
<1>1. CASE changed = {}
  <2>1. d.contract \cup changed = d.contract /\ d.leaves \cup changed = d.leaves
    BY <1>1
  <2> QED  BY <1>1, <2>1 DEF Invalidate
<1>2. CASE changed # {}
  BY <1>2 DEF Invalidate, Diagram
<1> QED  BY <1>1, <1>2

\* Levels a level keeps whole keep their nodes' slots.
LEMMA RankOfAll ==
  ASSUME NEW n \in Nat, NEW i \in 1 .. n
  PROVE  Rank(1 .. n, i) = i
<1>1. {j \in 1 .. n : j <= i} = 1 .. i
  OBVIOUS
<1>2. Cardinality(1 .. i) = i
  BY UpToFinite
<1> QED  BY <1>1, <1>2 DEF Rank

\* Keeping nodes, as a record.
Lost(d, kept) == {t \in Internal : kept[t] # DOMAIN d.levels[t]}
LeftLevels(d, kept) == IF Lost(d, kept) = {} THEN d.levels ELSE Compact(d.levels, kept)
LeftOut(d, kept) == IF d.out = Zero THEN Zero ELSE Rank(kept[Root], d.out)

\* The fields of a diagram cut down to the nodes kept.
LEMMA KeptForm ==
  ASSUME NEW d, Sound(d), NEW kept
  PROVE  Kept(d, kept)
           = Diagram(LeftLevels(d, kept), LeftOut(d, kept), d.contract \cup Lost(d, kept), d.leaves \cup Lost(d, kept),
                     IF Lost(d, kept) = {} THEN d.loose ELSE Unknown, IF Lost(d, kept) = {} THEN d.certified ELSE FALSE)
<1> DEFINE lost == {t \in Internal : kept[t] # DOMAIN d.levels[t]}
           rest == IF lost = {} THEN d ELSE [d EXCEPT !.levels = Compact(d.levels, kept)]
           newOut == IF d.out = Zero THEN Zero ELSE Rank(kept[Root], d.out)
           levels == IF lost = {} THEN d.levels ELSE Compact(d.levels, kept)
<1>1. rest = Diagram(levels, d.out, d.contract, d.leaves, d.loose, d.certified)
  BY SoundIs DEF Diagram
<1>2. Kept(d, kept)
        = Diagram(levels, newOut, d.contract \cup lost, d.leaves \cup lost,
                  IF lost = {} THEN d.loose ELSE Unknown, IF lost = {} THEN d.certified ELSE FALSE)
  <2>1. Kept(d, kept) = [Invalidate(rest, lost) EXCEPT !.out = IF @ = Zero THEN Zero ELSE Rank(kept[Root], @)]
    BY DEF Kept
  <2> HIDE DEF rest, lost, levels
  <2>2. Invalidate(rest, lost)
          = Diagram(levels, d.out, d.contract \cup lost, d.leaves \cup lost,
                    IF lost = {} THEN d.loose ELSE Unknown, IF lost = {} THEN d.certified ELSE FALSE)
    <3>1. /\ rest.levels = levels /\ rest.out = d.out /\ rest.contract = d.contract /\ rest.leaves = d.leaves
          /\ rest.loose = d.loose /\ rest.certified = d.certified
      BY <1>1, DiagramIs
    <3> QED  BY <1>1, <3>1, InvalidateIs
  <2> DEFINE loose == IF lost = {} THEN d.loose ELSE Unknown
             certified == IF lost = {} THEN d.certified ELSE FALSE
             made == Diagram(levels, d.out, d.contract \cup lost, d.leaves \cup lost, loose, certified)
  <2>3. Kept(d, kept) = [made EXCEPT !.out = newOut]
    <3>1. made.out = d.out
      BY DEF Diagram
    <3>2. Invalidate(rest, lost) = made
      BY <2>2
    <3> HIDE DEF made
    <3> QED  BY <2>1, <3>1, <3>2
  <2>4. [made EXCEPT !.out = newOut] = Diagram(levels, newOut, d.contract \cup lost, d.leaves \cup lost, loose, certified)
    <3> HIDE DEF loose, certified, newOut
    <3> QED  BY DEF Diagram
  <2> QED  BY <2>3, <2>4
<1>3. lost = Lost(d, kept) /\ levels = LeftLevels(d, kept) /\ newOut = LeftOut(d, kept)
  BY DEF Lost, LeftLevels, LeftOut
<1> HIDE DEF lost, levels, newOut
<1> QED  BY <1>2, <1>3

\* Keeping the nodes of a closed choice leaves a sound diagram with as many
\* root nodes as were kept.
LEMMA KeptSound ==
  ASSUME NEW d, Sound(d), NEW kept, Closed(d.levels, kept),
         d.out = Zero \/ d.out \in kept[Root]
  PROVE  /\ Sound(Kept(d, kept))
         /\ DOMAIN Kept(d, kept).levels[Root] = 1 .. Cardinality(kept[Root])
         /\ Kept(d, kept).out = (IF d.out = Zero THEN Zero ELSE Rank(kept[Root], d.out))
<1> DEFINE lost == {t \in Internal : kept[t] # DOMAIN d.levels[t]}
           rest == IF lost = {} THEN d ELSE [d EXCEPT !.levels = Compact(d.levels, kept)]
           newOut == IF d.out = Zero THEN Zero ELSE Rank(kept[Root], d.out)
           levels == IF lost = {} THEN d.levels ELSE Compact(d.levels, kept)
<1>2. Kept(d, kept)
        = Diagram(levels, newOut, d.contract \cup lost, d.leaves \cup lost,
                  IF lost = {} THEN d.loose ELSE Unknown, IF lost = {} THEN d.certified ELSE FALSE)
  BY KeptForm DEF Lost, LeftLevels, LeftOut
<1>3. InRange(levels) /\ Deterministic(levels)
  BY SoundIs, CompactInRange, CompactDeterministic
<1>4. Root \in Internal
  BY RootIs
<1>5. DOMAIN levels[Root] = 1 .. Cardinality(kept[Root]) /\ Cardinality(kept[Root]) \in Nat
  <2>1. CASE lost = {}
    <3>1. kept[Root] = DOMAIN d.levels[Root]
      BY <2>1, <1>4
    <3>2. DOMAIN d.levels[Root] = 1 .. Len(d.levels[Root]) /\ Len(d.levels[Root]) \in Nat
      BY <1>4, LevelIs, SoundIs
    <3>3. Cardinality(kept[Root]) = Len(d.levels[Root])
      BY <3>1, <3>2, UpToFinite
    <3> QED  BY <2>1, <3>2, <3>3
  <2>2. CASE lost # {}
    BY <2>2, <1>4, CompactShape, SoundIs
  <2> QED  BY <2>1, <2>2
<1>6. newOut \in {Zero} \cup DOMAIN levels[Root]
  <2>1. CASE d.out = Zero
    BY <2>1
  <2>2. CASE d.out # Zero
    <3>1. Rank(kept[Root], d.out) \in 1 .. Cardinality(kept[Root])
      BY <2>2, <1>4, WasIs, SoundIs
    <3> HIDE DEF levels
    <3> QED  BY <3>1, <1>5, <2>2
  <2> QED  BY <2>1, <2>2
<1>7. lost \subseteq Internal
  OBVIOUS
<1>8. lost = {} => levels = d.levels
  OBVIOUS
<1> HIDE DEF lost, newOut, levels, rest
<1>9. Sound(Diagram(levels, newOut, d.contract \cup lost, d.leaves \cup lost,
                  IF lost = {} THEN d.loose ELSE Unknown, IF lost = {} THEN d.certified ELSE FALSE))
  <2>1. /\ d.contract \subseteq Internal /\ d.leaves \subseteq Internal
        /\ d.loose = Unknown \/ d.loose \subseteq Internal \ {Root}
        /\ d.certified \in BOOLEAN /\ (d.certified => Len(d.levels[Root]) <= 1)
    BY SoundIs
  <2> QED  BY <1>3, <1>6, <1>7, <1>8, <2>1, SoundDiagram
<1>10. Kept(d, kept).levels = levels /\ Kept(d, kept).out = newOut
  BY <1>2 DEF Diagram
<1> QED  BY <1>2, <1>5, <1>9, <1>10 DEF newOut

-------------------------------------------------------------------------------
(* Recursion and induction over the vtree, by least and greatest counterexamples. *)

\* Recursion down the vtree, each value from the parent's.
StepsDown(V) == [Internal \X V -> V]

\* A recursion down the vtree has a solution.
LEMMA DownExists ==
  ASSUME NEW V, NEW b \in V, NEW step \in StepsDown(V)
  PROVE  \E f \in [Internal -> V] :
           f[Root] = b /\ \A t \in Internal \ {Root} : f[t] = step[<<t, f[Parent[t]]>>]
<1> DEFINE solved(f, n) == /\ f[Root] = b
                           /\ \A t \in Internal \ {Root} : Root - t < n => f[t] = step[<<t, f[Parent[t]]>>]
           bad == {n \in Nat : ~\E f \in [Internal -> V] : solved(f, n)}
<1> USE DEF StepsDown
<1>0. \A t \in Internal : t \in Nat /\ t <= Root
  BY InternalIs
<1>a. Root \in Internal
  BY RootIs
<1>b. \A t \in Internal \ {Root} : Parent[t] \in Internal /\ t < Parent[t]
  BY HasParent DEF Vtree
<1>1. 0 \notin bad
  <2> DEFINE f == [t \in Internal |-> b]
  <2>1. f \in [Internal -> V] /\ f[Root] = b
    BY <1>a
  <2>2. \A t \in Internal : ~(Root - t < 0)
    BY <1>0, <1>a
  <2>3. solved(f, 0)
    BY <2>1, <2>2
  <2> QED  BY <2>1, <2>3
<1>2. ASSUME NEW n \in Nat, n + 1 \in bad PROVE n \in bad
  <2>1. SUFFICES ASSUME NEW f \in [Internal -> V], solved(f, n) PROVE n + 1 \notin bad
    BY <1>2
  <2> DEFINE g == [t \in Internal |-> IF t # Root /\ Root - t = n THEN step[<<t, f[Parent[t]]>>] ELSE f[t]]
  <2>2. \A t \in Internal \ {Root} : step[<<t, f[Parent[t]]>>] \in V
    BY <1>b
  <2>3. g \in [Internal -> V]
    BY <2>2
  <2>4. g[Root] = b
    BY <1>a, <2>1
  <2>5. ASSUME NEW t \in Internal \ {Root}, Root - t < n + 1 PROVE g[t] = step[<<t, g[Parent[t]]>>]
    <3>1. g[Parent[t]] = f[Parent[t]]
      <4>1. Parent[t] \in Internal /\ t < Parent[t] /\ t \in Nat /\ Parent[t] \in Nat /\ Root \in Nat
        BY <1>0, <1>a, <1>b
      <4>2. Root - Parent[t] # n
        BY <4>1, <2>5
      <4> QED  BY <4>1, <4>2
    <3>2. g[t] = step[<<t, f[Parent[t]]>>]
      <4>1. CASE Root - t = n
        BY <4>1
      <4>2. CASE Root - t # n
        <5>1. Root - t < n
          <6>1. t \in Nat /\ Root \in Nat
            BY <1>0, <1>a
          <6> QED  BY <6>1, <4>2, <2>5
        <5> QED  BY <5>1, <4>2, <2>1
      <4> QED  BY <4>1, <4>2
    <3> QED  BY <3>1, <3>2
  <2>6. solved(g, n + 1)
    BY <2>4, <2>5
  <2> QED  BY <2>3, <2>6
<1>3. bad = {}
  <2>1. SUFFICES ASSUME bad # {} PROVE FALSE
    OBVIOUS
  <2>2. bad \subseteq Nat
    OBVIOUS
  <2> HIDE DEF bad
  <2>3. PICK n \in bad : \A k \in bad : n <= k
    BY <2>1, <2>2, LeastNumber
  <2>4. n \in Nat /\ n # 0
    BY <2>2, <1>1
  <2>5. n - 1 \in Nat /\ (n - 1) + 1 = n
    BY <2>4
  <2>6. n - 1 \in bad
    BY <2>5, <1>2
  <2> QED  BY <2>6, <2>3, <2>4
<1>4. Root + 1 \in Nat
  BY <1>0, <1>a
<1>5. PICK f \in [Internal -> V] : solved(f, Root + 1)
  BY <1>3, <1>4
<1>6. \A t \in Internal : Root - t < Root + 1
  BY <1>0, <1>a
<1> QED  BY <1>5, <1>6

\* Recursion up the vtree, each value from both children's.
StepsUp(V) == [Internal \X V \X V -> V]

\* A recursion up the vtree has a solution.
LEMMA UpExists ==
  ASSUME NEW V, V # {}, NEW base, base \in [Leaf -> V], NEW step \in StepsUp(V)
  PROVE  \E f \in [Vtree -> V] :
           /\ \A t \in Leaf : f[t] = base[t]
           /\ \A t \in Internal : f[t] = step[<<t, f[Left[t]], f[Right[t]]>>]
<1> DEFINE solved(f, n) == /\ \A t \in Leaf : f[t] = base[t]
                           /\ \A t \in Internal : t < n => f[t] = step[<<t, f[Left[t]], f[Right[t]]>>]
           bad == {n \in Nat : ~\E f \in [Vtree -> V] : solved(f, n)}
<1> USE DEF StepsUp
<1>0. \A t \in Internal : /\ t \in Nat /\ t <= Root /\ t \notin Leaf /\ Left[t] \in Vtree /\ Right[t] \in Vtree
                          /\ Left[t] < t /\ Right[t] < t /\ Left[t] \in Nat /\ Right[t] \in Nat
  BY InternalIs
<1>1. 0 \notin bad
  <2>1. PICK v \in V : TRUE
    OBVIOUS
  <2> DEFINE f == [t \in Vtree |-> IF t \in Leaf THEN base[t] ELSE v]
  <2>2. f \in [Vtree -> V]
    OBVIOUS
  <2>3. \A t \in Leaf : f[t] = base[t]
    BY DEF Vtree
  <2>4. \A t \in Internal : ~(t < 0)
    BY <1>0
  <2>5. solved(f, 0)
    BY <2>3, <2>4
  <2> QED  BY <2>2, <2>5
<1>2. ASSUME NEW n \in Nat, n + 1 \in bad PROVE n \in bad
  <2>1. SUFFICES ASSUME NEW f \in [Vtree -> V], solved(f, n) PROVE n + 1 \notin bad
    BY <1>2
  <2> DEFINE g == [t \in Vtree |-> IF t \in Internal /\ t = n THEN step[<<t, f[Left[t]], f[Right[t]]>>] ELSE f[t]]
  <2>2. \A t \in Internal : step[<<t, f[Left[t]], f[Right[t]]>>] \in V
    BY <1>0
  <2>3. g \in [Vtree -> V]
    BY <2>2
  <2>4. \A t \in Leaf : g[t] = base[t]
    <3>1. \A t \in Leaf : t \notin Internal /\ t \in Vtree
      BY <1>0 DEF Vtree
    <3> QED  BY <3>1, <2>1
  <2>5. ASSUME NEW t \in Internal, t < n + 1 PROVE g[t] = step[<<t, g[Left[t]], g[Right[t]]>>]
    <3>0. t \in Nat /\ t \in Vtree
      BY <1>0 DEF Vtree
    <3>1. g[Left[t]] = f[Left[t]] /\ g[Right[t]] = f[Right[t]]
      <4>1. Left[t] # n /\ Right[t] # n
        BY <1>0, <2>5
      <4> QED  BY <4>1, <1>0
    <3>2. g[t] = step[<<t, f[Left[t]], f[Right[t]]>>]
      <4>1. CASE t = n
        BY <4>1, <3>0
      <4>2. CASE t # n
        <5>1. t < n
          BY <4>2, <2>5, <3>0
        <5> QED  BY <5>1, <4>2, <2>1, <3>0
      <4> QED  BY <4>1, <4>2
    <3> QED  BY <3>1, <3>2
  <2>6. solved(g, n + 1)
    BY <2>4, <2>5
  <2> QED  BY <2>3, <2>6
<1>3. bad = {}
  <2>1. SUFFICES ASSUME bad # {} PROVE FALSE
    OBVIOUS
  <2>2. bad \subseteq Nat
    OBVIOUS
  <2> HIDE DEF bad
  <2>3. PICK n \in bad : \A k \in bad : n <= k
    BY <2>1, <2>2, LeastNumber
  <2>4. n \in Nat /\ n # 0
    BY <2>2, <1>1
  <2>5. n - 1 \in Nat /\ (n - 1) + 1 = n
    BY <2>4
  <2>6. n - 1 \in bad
    BY <2>5, <1>2
  <2> QED  BY <2>6, <2>3, <2>4
<1>4. Root + 1 \in Nat /\ \A t \in Internal : t < Root + 1
  BY <1>0, RootIs
<1>5. PICK f \in [Vtree -> V] : solved(f, Root + 1)
  BY <1>3, <1>4
<1> QED  BY <1>5, <1>4

\* Induction down the vtree, and up.
LEMMA DownInduction ==
  ASSUME NEW P, Root \in P, \A t \in Internal \ {Root} : Parent[t] \in P => t \in P
  PROVE  Internal \subseteq P
<1> DEFINE bad == {n \in Nat : \E t \in Internal \ P : n = Root - t}
<1>1. \A t \in Internal : t \in Nat /\ t <= Root /\ Root \in Nat
  BY InternalIs, RootIs
<1>2. SUFFICES ASSUME NEW u \in Internal, u \notin P PROVE FALSE
  OBVIOUS
<1>3. Root - u \in bad
  BY <1>1, <1>2
<1>4. bad \subseteq Nat /\ bad # {}
  BY <1>3
<1>5. PICK n \in bad : \A k \in bad : n <= k
  <2> HIDE DEF bad
  <2> QED  BY <1>4, LeastNumber
<1>6. PICK t \in Internal \ P : n = Root - t
  BY <1>5
<1>7. t \in Internal \ {Root} /\ t \notin P
  BY <1>6
<1>8. Parent[t] \in Internal /\ t < Parent[t] /\ Parent[t] \notin P
  BY <1>7, HasParent DEF Vtree
<1>9. /\ t \in Nat /\ Parent[t] \in Nat /\ Root \in Nat /\ Parent[t] <= Root
  BY <1>1, <1>7, <1>8
<1>10. Root - Parent[t] \in bad
  BY <1>8, <1>9
<1> QED  BY <1>5, <1>6, <1>8, <1>9, <1>10

\* What holds at the leaves, and at a vnode when at its children, holds everywhere.
LEMMA UpInduction ==
  ASSUME NEW P, Leaf \subseteq P, \A t \in Internal : Left[t] \in P /\ Right[t] \in P => t \in P
  PROVE  Vtree \subseteq P
<1> DEFINE bad == Vtree \ P
<1>1. SUFFICES ASSUME bad # {} PROVE FALSE
  OBVIOUS
<1>2. bad \subseteq Internal /\ bad \subseteq Nat
  BY VtreeAssumption DEF Vtree
<1>3. PICK t \in bad : \A u \in bad : t <= u
  <2> HIDE DEF bad
  <2> QED  BY <1>1, <1>2, LeastNumber
<1>4. t \in Internal /\ t \notin P
  BY <1>2, <1>3
<1>5. /\ Left[t] \in Vtree /\ Right[t] \in Vtree /\ Left[t] < t /\ Right[t] < t
      /\ t \in Nat /\ Left[t] \in Nat /\ Right[t] \in Nat
  BY <1>4, InternalIs
<1>6. Left[t] \notin bad /\ Right[t] \notin bad
  BY <1>3, <1>5
<1> QED  BY <1>4, <1>5, <1>6

-------------------------------------------------------------------------------
(* Pruning (reduce/prune). *)

\* What nodes of a level name of a child are slots of the child.
LEMMA NamedIs ==
  ASSUME NEW levels, InRange(levels), NEW t \in Internal, NEW above, NEW c \in Children(t)
  PROVE  /\ NamedFrom(levels, c, above) = {p[Side(c)] : p \in UNION {levels[t][i] : i \in above}}
         /\ above \subseteq DOMAIN levels[t] => NamedFrom(levels, c, above) \subseteq Slots(levels, c)
<1>1. Parent[c] = t /\ Side(c) = (IF c = Left[t] THEN 1 ELSE 2) /\ c \in {Left[t], Right[t]}
  BY ParentOf DEF Children
<1>2. NamedFrom(levels, c, above) = {p[Side(c)] : p \in UNION {levels[t][i] : i \in above}}
  BY <1>1 DEF NamedFrom
<1>3. ASSUME above \subseteq DOMAIN levels[t], NEW i \in above, NEW p \in levels[t][i]
      PROVE  p[Side(c)] \in Slots(levels, c)
  <2>1. p[1] \in Slots(levels, Left[t]) /\ p[2] \in Slots(levels, Right[t])
    BY <1>3, PairIs
  <2> QED  BY <1>1, <2>1
<1> QED  BY <1>2, <1>3

\* The halves of a node's pair are named by it.
LEMMA NamedHas ==
  ASSUME NEW levels, InRange(levels), NEW t \in Internal, NEW above, NEW i \in above, NEW p \in levels[t][i]
  PROVE  /\ p[1] \in NamedFrom(levels, Left[t], above)
         /\ p[2] \in NamedFrom(levels, Right[t], above)
<1>1. /\ Left[t] \in Children(t) /\ Right[t] \in Children(t) /\ Left[t] # Right[t]
  BY InternalIs DEF Children
<1>2. Side(Left[t]) = 1 /\ Side(Right[t]) = 2
  BY <1>1, ParentOf
<1>3. p \in UNION {levels[t][j] : j \in above}
  OBVIOUS
<1>4. /\ NamedFrom(levels, Left[t], above) = {q[Side(Left[t])] : q \in UNION {levels[t][j] : j \in above}}
      /\ NamedFrom(levels, Right[t], above) = {q[Side(Right[t])] : q \in UNION {levels[t][j] : j \in above}}
  BY <1>1, NamedIs
<1> QED  BY <1>2, <1>3, <1>4

\* A choice that takes of every level all, or what the choice above names.
LEMMA ClosedFrom ==
  ASSUME NEW levels, InRange(levels), NEW kept, kept[Root] \subseteq DOMAIN levels[Root],
         \A t \in Internal \ {Root} :
           kept[t] = DOMAIN levels[t] \/ kept[t] = NamedFrom(levels, t, kept[Parent[t]])
  PROVE  Closed(levels, kept)
<1> DEFINE P == {t \in Internal : kept[t] \subseteq DOMAIN levels[t]}
<1>1. Root \in P
  BY RootIs
<1>2. ASSUME NEW t \in Internal \ {Root}, Parent[t] \in P PROVE t \in P
  <2>1. Parent[t] \in Internal /\ t \in Children(Parent[t])
    BY HasParent DEF Vtree
  <2>2. NamedFrom(levels, t, kept[Parent[t]]) \subseteq Slots(levels, t)
    BY <2>1, <1>2, NamedIs
  <2>3. Slots(levels, t) = DOMAIN levels[t]
    BY InternalIs DEF Slots
  <2> QED  BY <2>2, <2>3
<1>3. Internal \subseteq P
  <2> HIDE DEF P
  <2> QED  BY <1>1, <1>2, DownInduction
<1>4. ASSUME NEW t \in Internal, NEW i \in kept[t], NEW p \in levels[t][i]
      PROVE  /\ Left[t] \notin Leaf => p[1] \in kept[Left[t]]
             /\ Right[t] \notin Leaf => p[2] \in kept[Right[t]]
  <2>0. i \in DOMAIN levels[t]
    BY <1>3
  <2>1. p[1] \in Slots(levels, Left[t]) /\ p[2] \in Slots(levels, Right[t])
    BY <2>0, PairIs
  <2>2. p[1] \in NamedFrom(levels, Left[t], kept[t]) /\ p[2] \in NamedFrom(levels, Right[t], kept[t])
    BY NamedHas
  <2>3. /\ Left[t] \in Children(t) /\ Right[t] \in Children(t)
        /\ Left[t] \in Vtree \ {Root} /\ Right[t] \in Vtree \ {Root}
    BY InternalIs DEF Children
  <2>4. Parent[Left[t]] = t /\ Parent[Right[t]] = t
    BY <2>3, ParentOf
  <2>5. ASSUME Left[t] \notin Leaf PROVE p[1] \in kept[Left[t]]
    <3>1. Left[t] \in Internal \ {Root}
      BY <2>3, <2>5 DEF Vtree
    <3> QED  BY <3>1, <2>1, <2>2, <2>4, <2>5 DEF Slots
  <2>6. ASSUME Right[t] \notin Leaf PROVE p[2] \in kept[Right[t]]
    <3>1. Right[t] \in Internal \ {Root}
      BY <2>3, <2>6 DEF Vtree
    <3> QED  BY <3>1, <2>1, <2>2, <2>4, <2>6 DEF Slots
  <2> QED  BY <2>5, <2>6
<1> QED  BY <1>3, <1>4 DEF Closed

\* The nodes reached from the output, level by level.
LEMMA ReachedIs ==
  ASSUME NEW levels, InRange(levels), NEW out \in {Zero} \cup DOMAIN levels[Root]
  PROVE  /\ Reached(levels, out)[Root] = {out} \ {Zero}
         /\ \A t \in Internal \ {Root} :
              Reached(levels, out)[t] = NamedFrom(levels, t, Reached(levels, out)[Parent[t]])
<1> DEFINE eq(f) == f = [t \in Internal |-> IF t = Root THEN {out} \ {Zero} ELSE NamedFrom(levels, t, f[Parent[t]])]
           V == SUBSET Nat
           within(t, v) == v \cap DOMAIN levels[Parent[t]]
           step == [x \in Internal \X V |->
                      IF x[1] = Root THEN {} ELSE NamedFrom(levels, x[1], within(x[1], x[2]))]
           b == {out} \ {Zero}
<1>1. \A t \in Internal : DOMAIN levels[t] \subseteq Nat
  BY LevelIs
<1>2. b \in V
  BY <1>1, RootIs
<1>3. \A t \in Internal \ {Root} : Parent[t] \in Internal /\ t \in Children(Parent[t])
  BY HasParent DEF Vtree
<1>4. ASSUME NEW t \in Internal \ {Root}, NEW v
      PROVE  NamedFrom(levels, t, within(t, v)) \subseteq DOMAIN levels[t]
  <2>1. within(t, v) \subseteq DOMAIN levels[Parent[t]]
    OBVIOUS
  <2> HIDE DEF within
  <2>2. NamedFrom(levels, t, within(t, v)) \subseteq Slots(levels, t)
    BY <2>1, <1>3, NamedIs
  <2> QED  BY <2>2, LevelIs, InternalIs DEF Slots
<1>5. step \in StepsDown(V)
  <2>1. ASSUME NEW x \in Internal \X V
        PROVE  (IF x[1] = Root THEN {} ELSE NamedFrom(levels, x[1], within(x[1], x[2]))) \in V
    <3> HIDE DEF within
    <3> QED  BY <1>1, <1>4
  <2> HIDE DEF within, V
  <2> QED  BY <2>1 DEF StepsDown
<1>6. PICK f \in [Internal -> V] : f[Root] = b /\ \A t \in Internal \ {Root} : f[t] = step[<<t, f[Parent[t]]>>]
  <2> HIDE DEF V, b, step
  <2> QED  BY <1>2, <1>5, DownExists
<1>7. \A t \in Internal \ {Root} : f[t] = NamedFrom(levels, t, within(t, f[Parent[t]]))
  <2>1. \A t \in Internal \ {Root} : <<t, f[Parent[t]]>> \in Internal \X V
    BY <1>3, <1>6
  <2> HIDE DEF within, V
  <2> QED  BY <1>6, <2>1
<1>8. \A t \in Internal : f[t] \subseteq DOMAIN levels[t]
  <2>1. b \subseteq DOMAIN levels[Root]
    OBVIOUS
  <2> HIDE DEF within
  <2> QED  BY <2>1, <1>4, <1>6, <1>7
<1>9. \A t \in Internal \ {Root} : f[t] = NamedFrom(levels, t, f[Parent[t]])
  <2>1. \A t \in Internal \ {Root} : within(t, f[Parent[t]]) = f[Parent[t]]
    BY <1>3, <1>8
  <2> HIDE DEF within
  <2> QED  BY <2>1, <1>7
<1>10. eq(f)
  <2>1. f = [t \in Internal |-> f[t]]
    BY <1>6
  <2>2. \A t \in Internal : f[t] = (IF t = Root THEN {out} \ {Zero} ELSE NamedFrom(levels, t, f[Parent[t]]))
    BY <1>6, <1>9
  <2> QED  BY <2>1, <2>2
<1>11. Reached(levels, out) = CHOOSE g : eq(g)
  BY TableIs DEF Reached
<1>12. eq(Reached(levels, out))
  BY <1>10, <1>11
<1> HIDE DEF b, step, within, V
<1>13. \A t \in Internal : Reached(levels, out)[t]
          = (IF t = Root THEN {out} \ {Zero} ELSE NamedFrom(levels, t, Reached(levels, out)[Parent[t]]))
  BY <1>12
<1> QED  BY <1>13, RootIs

\* Intervals from one are equal when their ends are.
LEMMA SameInterval ==
  ASSUME NEW m \in Nat, NEW n \in Nat, 1 .. m = 1 .. n
  PROVE  m = n
<1>1. m \in 1 .. m \/ m = 0
  OBVIOUS
<1>2. n \in 1 .. n \/ n = 0
  OBVIOUS
<1>3. m <= n \/ m = 0
  BY <1>1
<1>4. n <= m \/ n = 0
  BY <1>2
<1> QED  BY <1>3, <1>4

\* At most one node at the root: what a prune leaves.
OneRoot(d) == Len(d.levels[Root]) <= 1

\* A diagram cut down to what is kept has as many root nodes as were kept.
LEMMA KeptRoot ==
  ASSUME NEW d, Sound(d), d.out # Zero, NEW kept, Closed(d.levels, kept), d.out \in kept[Root]
  PROVE  /\ Sound(Kept(d, kept)) /\ Kept(d, kept).out # Zero
         /\ Cardinality(kept[Root]) \in Nat
         /\ Len(Kept(d, kept).levels[Root]) = Cardinality(kept[Root])
<1>1. /\ Sound(Kept(d, kept)) /\ DOMAIN Kept(d, kept).levels[Root] = 1 .. Cardinality(kept[Root])
      /\ Kept(d, kept).out = Rank(kept[Root], d.out)
  BY KeptSound
<1>2. InRange(d.levels) /\ InRange(Kept(d, kept).levels) /\ Root \in Internal
  BY <1>1, SoundIs, RootIs
<1>3. Rank(kept[Root], d.out) \in 1 .. Cardinality(kept[Root]) /\ Cardinality(kept[Root]) \in Nat
  BY <1>2, WasIs
<1>4. /\ DOMAIN Kept(d, kept).levels[Root] = 1 .. Len(Kept(d, kept).levels[Root])
      /\ Len(Kept(d, kept).levels[Root]) \in Nat
  BY <1>2, LevelIs
<1>5. Len(Kept(d, kept).levels[Root]) = Cardinality(kept[Root])
  BY <1>1, <1>3, <1>4, SameInterval
<1> QED  BY <1>1, <1>3, <1>5 DEF Zero

\* What a prune leaves: the diagram cut down to nodes that may stay without
\* the others.
Cut(d, made) == \E kept : Closed(d.levels, kept) /\ d.out \in kept[Root] /\ made = Kept(d, kept)

\* The prune of every level leaves a sound diagram with one root node (prune/whole).
LEMMA PruneWholeSound ==
  ASSUME NEW d, Sound(d), d.out # Zero
  PROVE  /\ Sound(PruneWhole(d)) /\ OneRoot(PruneWhole(d)) /\ PruneWhole(d).out # Zero
         /\ Closed(d.levels, Reached(d.levels, d.out)) /\ d.out \in Reached(d.levels, d.out)[Root]
<1> DEFINE kept == Reached(d.levels, d.out)
<1>1. InRange(d.levels) /\ d.out \in DOMAIN d.levels[Root] /\ Root \in Internal
  BY SoundIs, RootIs
<1>2. /\ kept[Root] = {d.out}
      /\ \A t \in Internal \ {Root} : kept[t] = NamedFrom(d.levels, t, kept[Parent[t]])
  BY <1>1, ReachedIs
<1>3. PruneWhole(d) = Kept(d, kept)
  BY DEF PruneWhole
<1> HIDE DEF kept
<1>4. Closed(d.levels, kept)
  BY <1>1, <1>2, ClosedFrom
<1>5. Cardinality(kept[Root]) = 1
  BY <1>2, FS_Singleton
<1>6. Sound(Kept(d, kept)) /\ Kept(d, kept).out # Zero /\ Len(Kept(d, kept).levels[Root]) = 1
  BY <1>2, <1>4, <1>5, KeptRoot
<1> QED  BY <1>2, <1>3, <1>4, <1>6 DEF OneRoot, kept

\* The walk that stops where nothing is lost.
LEMMA WalkSound ==
  ASSUME NEW d, Sound(d), d.out # Zero, NEW starts, NEW clean, NEW forced,
         starts = {} \/ OneRoot(d)
  PROVE  LET made == WalkFrom(d, starts, clean, forced)
         IN  Sound(made) /\ OneRoot(made) /\ made.out # Zero /\ Cut(d, made)
<1> DEFINE levels == d.levels
           E(t, above) ==
             IF t \in starts THEN [in |-> TRUE, kept |-> DOMAIN levels[t]]
             ELSE IF t = Root THEN IF starts = {} THEN [in |-> TRUE, kept |-> {d.out}]
                                                  ELSE [in |-> FALSE, kept |-> DOMAIN levels[t]]
             ELSE IF above.in /\ t \notin clean
                  THEN [in |-> Enters(t, NamedFrom(levels, t, above.kept) # DOMAIN levels[t], forced),
                        kept |-> NamedFrom(levels, t, above.kept)]
                  ELSE [in |-> FALSE, kept |-> DOMAIN levels[t]]
           eq(f) == f = [t \in Internal |-> E(t, f[Parent[t]])]
           V == [in : BOOLEAN, kept : SUBSET Nat]
           within(t, v) == [in |-> v.in, kept |-> v.kept \cap DOMAIN levels[Parent[t]]]
           any == [in |-> FALSE, kept |-> {}]
           step == [x \in Internal \X V |-> IF x[1] = Root THEN any ELSE E(x[1], within(x[1], x[2]))]
           b == E(Root, any)
<1>0. InRange(levels) /\ d.out \in DOMAIN levels[Root] /\ Root \in Internal
  BY SoundIs, RootIs
<1>1. \A t \in Internal : DOMAIN levels[t] \subseteq Nat
  BY <1>0, LevelIs
<1>3. \A t \in Internal \ {Root} : Parent[t] \in Internal /\ t \in Children(Parent[t])
  BY HasParent DEF Vtree
<1>4. ASSUME NEW t \in Internal \ {Root}, NEW above, above \subseteq DOMAIN levels[Parent[t]]
      PROVE  NamedFrom(levels, t, above) \subseteq DOMAIN levels[t]
  <2>2. NamedFrom(levels, t, above) \subseteq Slots(levels, t)
    BY <1>0, <1>3, <1>4, NamedIs
  <2> QED  BY <2>2, <1>0, LevelIs, InternalIs DEF Slots
<1> HIDE DEF levels
\* What E gives, by the case it is in.
<1>5. ASSUME NEW t \in Internal, NEW v, v.kept \subseteq DOMAIN levels[Parent[t]]
      PROVE  /\ E(t, v) \in V /\ E(t, v).kept \subseteq DOMAIN levels[t]
             /\ t # Root => E(t, v).kept \in {DOMAIN levels[t], NamedFrom(levels, t, v.kept)}
             /\ t = Root => E(t, v).kept = (IF starts = {} THEN {d.out} ELSE DOMAIN levels[t])
  <2>1. t # Root => NamedFrom(levels, t, v.kept) \subseteq DOMAIN levels[t]
    BY <1>4, <1>5
  <2>2. t # Root => NamedFrom(levels, t, v.kept) \subseteq Nat
    BY <1>1, <2>1
  <2>3. DOMAIN levels[t] \subseteq Nat
    BY <1>1
  <2>4. Enters(t, NamedFrom(levels, t, v.kept) # DOMAIN levels[t], forced) \in BOOLEAN
    BY DEF Enters
  <2>5. CASE t \in starts
    BY <2>5, <2>3
  <2>6. CASE t \notin starts /\ t = Root
    BY <2>6, <2>3, <1>0
  <2>7. CASE t \notin starts /\ t # Root /\ ~(v.in /\ t \notin clean)
    BY <2>7, <2>3
  <2>8. CASE t \notin starts /\ t # Root /\ (v.in /\ t \notin clean)
    BY <2>8, <2>1, <2>2, <2>4
  <2> QED  BY <2>5, <2>6, <2>7, <2>8
<1>6. \A t \in Internal \ {Root} : \A v : within(t, v).kept \subseteq DOMAIN levels[Parent[t]]
  OBVIOUS
<1>7. b \in V /\ b.kept = (IF starts = {} THEN {d.out} ELSE DOMAIN levels[Root])
  <2>1. any.kept \subseteq DOMAIN levels[Parent[Root]]
    OBVIOUS
  <2> HIDE DEF E, V, any
  <2> QED  BY <2>1, <1>0, <1>5
<1>8. step \in StepsDown(V)
  <2>1. ASSUME NEW x \in Internal \X V
        PROVE  (IF x[1] = Root THEN any ELSE E(x[1], within(x[1], x[2]))) \in V
    <3>1. CASE x[1] = Root
      BY <3>1
    <3>2. CASE x[1] # Root
      <4>1. x[1] \in Internal \ {Root}
        BY <3>2
      <4>2. within(x[1], x[2]).kept \subseteq DOMAIN levels[Parent[x[1]]]
        BY <4>1, <1>6
      <4> HIDE DEF E, V, within
      <4> QED  BY <4>1, <4>2, <3>2, <1>5
    <3> QED  BY <3>1, <3>2
  <2> HIDE DEF E, V, within, any
  <2> QED  BY <2>1 DEF StepsDown
<1>9. PICK f \in [Internal -> V] : f[Root] = b /\ \A t \in Internal \ {Root} : f[t] = step[<<t, f[Parent[t]]>>]
  <2> HIDE DEF V, b, step
  <2> QED  BY <1>7, <1>8, DownExists
<1>10. \A t \in Internal \ {Root} : f[t] = E(t, within(t, f[Parent[t]]))
  <2>1. \A t \in Internal \ {Root} : <<t, f[Parent[t]]>> \in Internal \X V
    BY <1>3, <1>9
  <2> HIDE DEF within, V, E, any
  <2> QED  BY <1>9, <2>1
<1>11. \A t \in Internal : f[t].kept \subseteq DOMAIN levels[t]
  <2>1. b.kept \subseteq DOMAIN levels[Root]
    BY <1>7, <1>0
  <2>2. ASSUME NEW t \in Internal \ {Root} PROVE f[t].kept \subseteq DOMAIN levels[t]
    <3> DEFINE v == within(t, f[Parent[t]])
    <3>1. v.kept \subseteq DOMAIN levels[Parent[t]] /\ f[t] = E(t, v)
      BY <1>6, <1>10
    <3> HIDE DEF v, E
    <3> QED  BY <3>1, <1>5
  <2> HIDE DEF b
  <2> QED  BY <2>1, <2>2, <1>9
<1>12. \A t \in Internal \ {Root} : within(t, f[Parent[t]]) = f[Parent[t]]
  <2>1. ASSUME NEW v \in V, NEW t \in Internal \ {Root}, v.kept \subseteq DOMAIN levels[Parent[t]]
        PROVE  within(t, v) = v
    <3>1. v = [in |-> v.in, kept |-> v.kept]
      BY <2>1
    <3>2. v.kept \cap DOMAIN levels[Parent[t]] = v.kept
      BY <2>1
    <3> QED  BY <3>1, <3>2
  <2>2. \A t \in Internal \ {Root} : f[Parent[t]] \in V /\ f[Parent[t]].kept \subseteq DOMAIN levels[Parent[t]]
    BY <1>3, <1>9, <1>11
  <2> HIDE DEF within, V
  <2> QED  BY <2>1, <2>2
<1>13. eq(f)
  <2>1. f = [t \in Internal |-> f[t]]
    BY <1>9
  <2>2. f[Root] = E(Root, f[Parent[Root]])
    <3>1. \A v, w : E(Root, v) = E(Root, w)
      OBVIOUS
    <3> HIDE DEF E, any
    <3> QED  BY <3>1, <1>9
  <2>3. \A t \in Internal : f[t] = E(t, f[Parent[t]])
    <3> HIDE DEF E, within
    <3> QED  BY <2>2, <1>10, <1>12
  <2> HIDE DEF E
  <2> QED  BY <2>1, <2>3
<1> DEFINE walk == CHOOSE g : eq(g)
           kept == [t \in Internal |-> walk[t].kept]
<1>14. eq(walk)
  <2> HIDE DEF eq
  <2> QED  BY <1>13
<1>15. \A t \in Internal : walk[t] = E(t, walk[Parent[t]])
  <2> HIDE DEF E, walk
  <2> QED  BY <1>14
<1>16. WalkFrom(d, starts, clean, forced) = Kept(d, kept)
  BY DEF WalkFrom, levels
<1> HIDE DEF walk
<1>17. kept[Root] = (IF starts = {} THEN {d.out} ELSE DOMAIN levels[Root])
  <2>1. walk[Root] = E(Root, walk[Parent[Root]])
    BY <1>15, <1>0
  <2>2. E(Root, walk[Parent[Root]]) = E(Root, any)
    OBVIOUS
  <2>3. walk[Root] = b
    BY <2>1, <2>2
  <2> HIDE DEF b
  <2> QED  BY <2>3, <1>7, <1>0
<1>18. \A t \in Internal \ {Root} :
         kept[t] = DOMAIN levels[t] \/ kept[t] = NamedFrom(levels, t, kept[Parent[t]])
  <2>1. ASSUME NEW t \in Internal \ {Root}
        PROVE  E(t, walk[Parent[t]]).kept \in {DOMAIN levels[t], NamedFrom(levels, t, walk[Parent[t]].kept)}
    <3>1. CASE t \in starts
      BY <3>1
    <3>2. CASE t \notin starts /\ ~(walk[Parent[t]].in /\ t \notin clean)
      BY <3>2
    <3>3. CASE t \notin starts /\ (walk[Parent[t]].in /\ t \notin clean)
      BY <3>3
    <3> QED  BY <3>1, <3>2, <3>3
  <2> HIDE DEF E
  <2> QED  BY <2>1, <1>3, <1>15
<1>19. kept[Root] \subseteq DOMAIN levels[Root] /\ d.out \in kept[Root]
  BY <1>17, <1>0
<1> HIDE DEF kept
<1>20. Closed(levels, kept)
  BY <1>0, <1>18, <1>19, ClosedFrom
<1>21. Cardinality(kept[Root]) <= 1
  <2>1. CASE starts = {}
    <3>1. kept[Root] = {d.out}
      BY <2>1, <1>17
    <3>2. Cardinality({d.out}) = 1
      BY FS_Singleton
    <3> QED  BY <3>1, <3>2
  <2>2. CASE starts # {}
    <3>1. Len(d.levels[Root]) <= 1
      BY <2>2 DEF OneRoot
    <3>2. DOMAIN levels[Root] = 1 .. Len(levels[Root]) /\ Len(levels[Root]) \in Nat
      BY <1>0, LevelIs
    <3>3. Cardinality(1 .. Len(levels[Root])) = Len(levels[Root])
      BY <3>2, UpToFinite
    <3> QED  BY <2>2, <3>1, <3>2, <3>3, <1>17 DEF levels
  <2> QED  BY <2>1, <2>2
<1>22. Sound(Kept(d, kept)) /\ Kept(d, kept).out # Zero /\ Len(Kept(d, kept).levels[Root]) <= 1
  BY <1>19, <1>20, <1>21, KeptRoot DEF levels
<1>23. Cut(d, Kept(d, kept))
  BY <1>19, <1>20 DEF Cut, levels
<1> QED  BY <1>16, <1>22, <1>23 DEF OneRoot

\* A root level nothing is lost from has one node.
LEMMA RootIsClean ==
  ASSUME NEW d, NEW loose, Root \in CleanLevels(d, loose)
  PROVE  OneRoot(d)
<1> DEFINE eq(f) == f = [t \in Internal |-> IF t = Root THEN Len(d.levels[t]) = 1
                                            ELSE f[Parent[t]] /\ t \notin loose]
           V == BOOLEAN
           step == [x \in Internal \X V |-> x[2] /\ x[1] \notin loose]
           b == (Len(d.levels[Root]) = 1)
<1>1. b \in V /\ step \in StepsDown(V)
  BY DEF StepsDown
<1>2. PICK f \in [Internal -> V] : f[Root] = b /\ \A t \in Internal \ {Root} : f[t] = step[<<t, f[Parent[t]]>>]
  <2> HIDE DEF V, b, step
  <2> QED  BY <1>1, DownExists
<1>3. \A t \in Internal \ {Root} : f[t] = (f[Parent[t]] /\ t \notin loose)
  <2>1. \A t \in Internal \ {Root} : Parent[t] \in Internal
    BY HasParent DEF Vtree
  <2>2. \A t \in Internal \ {Root} : <<t, f[Parent[t]]>> \in Internal \X V
    BY <2>1, <1>2
  <2> QED  BY <2>2, <1>2
<1>4. eq(f)
  <2>1. f = [t \in Internal |-> f[t]]
    BY <1>2
  <2>2. \A t \in Internal : f[t] = (IF t = Root THEN Len(d.levels[t]) = 1 ELSE f[Parent[t]] /\ t \notin loose)
    BY <1>2, <1>3
  <2> QED  BY <2>1, <2>2
<1> DEFINE clean == CHOOSE g : eq(g)
<1>5. eq(clean)
  <2> HIDE DEF eq
  <2> QED  BY <1>4
<1>6. CleanLevels(d, loose) = {t \in Internal : clean[t]}
  BY DEF CleanLevels
<1> HIDE DEF clean
<1>7. clean[Root] => Len(d.levels[Root]) = 1
  BY <1>5, RootIs
<1>8. clean[Root]
  BY <1>6
<1>9. Len(d.levels[Root]) = 1
  BY <1>7, <1>8
<1>10. Len(d.levels[Root]) <= 1
  BY <1>9
<1> QED  BY <1>10 DEF OneRoot

\* The prune from the loose levels leaves a sound diagram with one root node.
LEMMA PruneSeededSound ==
  ASSUME NEW d, Sound(d), d.out # Zero
  PROVE  /\ Sound(PruneSeeded(d)) /\ OneRoot(PruneSeeded(d)) /\ PruneSeeded(d).out # Zero
         /\ PruneSeeded(d) = d \/ Cut(d, PruneSeeded(d))
<1> DEFINE loose == SettleLoose(d)
           clean == CleanLevels(d, loose)
           seeds == {Parent[c] : c \in loose} \cap clean
           kept  == {c \in UNION {Children(t) : t \in seeds} : c \notin loose}
<1>1. PruneSeeded(d) = IF Root \notin clean THEN WalkFrom(d, {}, {}, Above(loose))
                       ELSE IF seeds = {} THEN d
                       ELSE WalkFrom(d, seeds, kept, Above(loose))
  BY DEF PruneSeeded
<1>2. Root \in clean => OneRoot(d)
  BY RootIsClean
<1> HIDE DEF kept, seeds, clean, loose
<1>3. CASE Root \notin clean
  BY <1>1, <1>3, WalkSound
<1>4. CASE Root \in clean /\ seeds = {}
  BY <1>1, <1>2, <1>4
<1>5. CASE Root \in clean /\ seeds # {}
  BY <1>1, <1>2, <1>5, WalkSound
<1> QED  BY <1>3, <1>4, <1>5

\* The levels of a constant are empty.
LEMMA NothingIs ==
  /\ InRange(NoLevels) /\ Deterministic(NoLevels) /\ NoLevels[Root] = <<>> /\ Len(NoLevels[Root]) = 0
<1>1. NoLevels[Root] = <<>> /\ Len(NoLevels[Root]) = 0
  BY RootIs DEF NoLevels
<1>2. \A t \in Internal : NoLevels[t] = <<>> /\ DOMAIN NoLevels[t] = {}
  BY DEF NoLevels
<1>3. InRange(NoLevels)
  BY <1>2 DEF InRange, NoLevels
<1> QED  BY <1>1, <1>2, <1>3 DEF Deterministic

\* Nothing loose is a sound record.
LEMMA WithoutLoose ==
  ASSUME NEW d, Sound(d)
  PROVE  /\ Sound([d EXCEPT !.loose = {}])
         /\ [d EXCEPT !.loose = {}].levels = d.levels /\ [d EXCEPT !.loose = {}].out = d.out
         /\ [d EXCEPT !.loose = {}].certified = d.certified
<1>1. /\ d = Diagram(d.levels, d.out, d.contract, d.leaves, d.loose, d.certified)
      /\ InRange(d.levels) /\ Deterministic(d.levels) /\ d.out \in {Zero} \cup DOMAIN d.levels[Root]
      /\ d.contract \subseteq Internal /\ d.leaves \subseteq Internal
      /\ d.certified \in BOOLEAN /\ (d.certified => Len(d.levels[Root]) <= 1)
  BY SoundIs
<1>2. [d EXCEPT !.loose = {}] = Diagram(d.levels, d.out, d.contract, d.leaves, {}, d.certified)
  BY <1>1 DEF Diagram
<1>3. Sound(Diagram(d.levels, d.out, d.contract, d.leaves, {}, d.certified))
  BY <1>1, SoundDiagram
<1> QED  BY <1>2, <1>3 DEF Diagram

\* A prune leaves a sound diagram with at most one root node, and the same constant or none.
LEMMA PruneSound ==
  ASSUME NEW d, Sound(d), NEW belowRoot
  PROVE  LET made == Prune(d, belowRoot)
         IN  Sound(made) /\ OneRoot(made) /\ (made.out = Zero <=> d.out = Zero)
<1>1. CASE d.out = Zero
  <2>1. /\ d = Diagram(d.levels, d.out, d.contract, d.leaves, d.loose, d.certified)
        /\ d.contract \subseteq Internal /\ d.leaves \subseteq Internal
    BY SoundIs
  <2>2. Prune(d, belowRoot) = Diagram(NoLevels, Zero, d.contract, d.leaves, {}, FALSE)
    BY <1>1, <2>1 DEF Prune, Diagram
  <2>3. Sound(Diagram(NoLevels, Zero, d.contract, d.leaves, {}, FALSE))
    BY <2>1, NothingIs, SoundDiagram
  <2>4. Prune(d, belowRoot).levels = NoLevels /\ Prune(d, belowRoot).out = Zero
    BY <2>2 DEF Diagram
  <2>5. Len(NoLevels[Root]) <= 1
    BY NothingIs
  <2>6. OneRoot(Prune(d, belowRoot))
    BY <2>4, <2>5 DEF OneRoot
  <2>7. Sound(Prune(d, belowRoot))
    BY <2>2, <2>3
  <2> QED  BY <1>1, <2>4, <2>6, <2>7
<1>2. CASE d.out # Zero
  <2> DEFINE pruned == IF belowRoot THEN PruneBelowRoot(d)
                       ELSE IF d.loose # Unknown THEN PruneSeeded(d) ELSE PruneWhole(d)
  <2>1. Sound(PruneBelowRoot(d)) /\ OneRoot(PruneBelowRoot(d)) /\ PruneBelowRoot(d).out # Zero
    BY <1>2, WalkSound DEF PruneBelowRoot
  <2>2. Sound(pruned) /\ OneRoot(pruned) /\ pruned.out # Zero
    BY <1>2, <2>1, PruneSeededSound, PruneWholeSound
  <2>3. Prune(d, belowRoot) = [pruned EXCEPT !.loose = {}]
    BY <1>2 DEF Prune
  <2> HIDE DEF pruned
  <2> QED  BY <1>2, <2>2, <2>3, WithoutLoose DEF OneRoot
<1> QED  BY <1>1, <1>2

-------------------------------------------------------------------------------
(* The prune after a complement. *)

\* Disjoint in one form at the root too.
Strict(levels) ==
  \A t \in Internal : \A i, j \in DOMAIN levels[t] :
    (i # j => levels[t][i] \cap levels[t][j] = {}) /\ OneForm(t, levels[t][i], levels[t][j])

\* The other child of a vnode.
LEMMA SiblingOf ==
  ASSUME NEW t \in Internal, NEW c \in Children(t)
  PROVE  /\ Sibling(c) \in Children(t) /\ Sibling(c) # c
         /\ c = Left[t] => Sibling(c) = Right[t] /\ Side(c) = 1 /\ Side(Sibling(c)) = 2
         /\ c = Right[t] => Sibling(c) = Left[t] /\ Side(c) = 2 /\ Side(Sibling(c)) = 1
<1>1. Parent[c] = t /\ c \in {Left[t], Right[t]} /\ Left[t] # Right[t]
  BY ParentOf, InternalIs DEF Children
<1>2. \E s \in Children(t) : s # c
  BY <1>1 DEF Children
<1>3. Sibling(c) \in Children(t) /\ Sibling(c) # c
  BY <1>1, <1>2 DEF Sibling
<1>4. Side(c) = (IF c = Left[t] THEN 1 ELSE 2) /\ Side(Sibling(c)) = (IF Sibling(c) = Left[t] THEN 1 ELSE 2)
  BY <1>3, ParentOf
<1> QED  BY <1>1, <1>3, <1>4 DEF Children

\* A pair is its two halves.
LEMMA SidesIs ==
  ASSUME NEW levels, InRange(levels), NEW t \in Internal, NEW c \in Children(t),
         NEW i \in DOMAIN levels[t], NEW p \in levels[t][i]
  PROVE  /\ p[Side(c)] \in Slots(levels, c) /\ p[Side(Sibling(c))] \in Slots(levels, Sibling(c))
         /\ \A j \in DOMAIN levels[t] : \A q \in levels[t][j] :
              p[Side(c)] = q[Side(c)] /\ p[Side(Sibling(c))] = q[Side(Sibling(c))] => p = q
<1>1. \A j \in DOMAIN levels[t] : \A q \in levels[t][j] :
        q = <<q[1], q[2]>> /\ q[1] \in Slots(levels, Left[t]) /\ q[2] \in Slots(levels, Right[t])
  BY PairIs
<1>2. c = Left[t] \/ c = Right[t]
  BY DEF Children
<1>3. /\ c = Left[t] => Sibling(c) = Right[t] /\ Side(c) = 1 /\ Side(Sibling(c)) = 2
      /\ c = Right[t] => Sibling(c) = Left[t] /\ Side(c) = 2 /\ Side(Sibling(c)) = 1
  BY SiblingOf
<1>4. \A j \in DOMAIN levels[t] : \A q \in levels[t][j] : p[1] = q[1] /\ p[2] = q[2] => p = q
  BY <1>1
<1> QED  BY <1>1, <1>2, <1>3, <1>4

\* As many as a finite set holds is all of it.
LEMMA ImageIsAll ==
  ASSUME NEW S, NEW T, IsFiniteSet(T), NEW f \in [S -> T], \A x, y \in S : f[x] = f[y] => x = y
  PROVE  /\ IsFiniteSet(S) /\ Cardinality(S) \in Nat /\ Cardinality(S) <= Cardinality(T)
         /\ Cardinality(S) = Cardinality(T) => \A y \in T : \E x \in S : f[x] = y
<1>1. f \in Injection(S, T)
  BY DEF Injection, IsInjective
<1>2. /\ IsFiniteSet(S) /\ Cardinality(S) <= Cardinality(T)
      /\ Cardinality(S) = Cardinality(T) <=> f \in Surjection(S, T)
  BY <1>1, FS_Injection
<1>3. f \in Surjection(S, T) => \A y \in T : \E x \in S : f[x] = y
  BY DEF Surjection
<1> QED  BY <1>2, <1>3, FS_CardinalityType

\* A dying node names its child with the whole of the sibling: nobody else may.
LEMMA DyingIsAlone ==
  ASSUME NEW d, Sound(d), NEW t \in Internal, NEW c \in Children(t), c \notin Leaf,
         NEW i \in DOMAIN d.levels[t], NEW k \in DOMAIN d.levels[t],
         d.levels[t][i] \cap d.levels[t][k] = {},
         OneForm(t, d.levels[t][i], d.levels[t][i]), OneForm(t, d.levels[t][i], d.levels[t][k]),
         NEW p \in d.levels[t][k], p[Side(c)] \in DyingChild(d, c, d.levels[t][i])
  PROVE  FALSE
<1> DEFINE s == Sibling(c)
           node == d.levels[t][i]
           u == p[Side(c)]
           at == {q \in node : q[Side(c)] = u}
           ones == {q \in node : q[Side(c)] = u /\ Weight(s, q[Side(s)]) = 2}
           T == Slots(d.levels, s)
           basis == IF s \in Leaf THEN 2 ELSE Len(d.levels[s])
           f == [q \in at |-> q[Side(s)]]
<1>1. InRange(d.levels)
  BY SoundIs
<1>2. Cardinality(at) + Cardinality(ones) = basis
  BY DEF DyingChild
<1>3. s \in Children(t) /\ s # c /\ s \in Vtree
  BY SiblingOf, InternalIs, ParentOf
<1>4. /\ \A q \in node : q[Side(s)] \in T
      /\ p[Side(s)] \in T
      /\ \A q, r \in at : q[Side(s)] = r[Side(s)] => q = r
      /\ \A q \in at : q[Side(s)] = p[Side(s)] => q = p
  BY <1>1, SidesIs
<1>5. p \notin node
  OBVIOUS
<1>6. \A q \in at : q[Side(s)] # p[Side(s)]
  BY <1>4, <1>5
<1>7. f \in [at -> T] /\ \A x, y \in at : f[x] = f[y] => x = y
  BY <1>4
<1>8. CASE s \notin Leaf
  <2>1. s \in Internal
    BY <1>3, <1>8 DEF Vtree
  <2>2. T = 1 .. Len(d.levels[s]) /\ Len(d.levels[s]) \in Nat
    BY <1>1, <2>1, LevelIs
  <2>3. IsFiniteSet(T) /\ Cardinality(T) = Len(d.levels[s])
    BY <2>2, UpToFinite
  <2>4. ones = {}
    BY <1>8 DEF Weight
  <2>5. Cardinality(at) = Cardinality(T)
    <3>1. Cardinality(ones) = 0
      BY <2>4, FS_EmptySet
    <3>2. Cardinality(at) \in Nat
      <4> HIDE DEF at, T, f
      <4> QED  BY <1>7, <2>3, ImageIsAll
    <3> HIDE DEF at, ones, T
    <3> QED  BY <1>2, <1>8, <2>2, <2>3, <3>1, <3>2
  <2>6. \A y \in T : \E x \in at : f[x] = y
    <3> HIDE DEF at, T, f
    <3> QED  BY <1>7, <2>3, <2>5, ImageIsAll
  <2>7. \E x \in at : f[x] = p[Side(s)]
    BY <1>4, <2>6
  <2> QED  BY <2>7, <1>6
<1>9. CASE s \in Leaf
  <2>1. T = {1, 2, 3}
    BY <1>9, LeafSlots
  <2>2. /\ \A q, r \in node : q[Side(s)] = 3 <=> r[Side(s)] = 3
        /\ \A q \in node : q[Side(s)] = 3 <=> p[Side(s)] = 3
    <3>1. /\ c = Left[t] => s = Right[t] /\ Side(s) = 2
          /\ c = Right[t] => s = Left[t] /\ Side(s) = 1
          /\ c = Left[t] \/ c = Right[t]
      BY SiblingOf DEF Children
    <3>2. CASE s = Left[t] /\ Side(s) = 1
      BY <1>9, <3>2 DEF OneForm
    <3>3. CASE s = Right[t] /\ Side(s) = 2
      BY <1>9, <3>3 DEF OneForm
    <3> QED  BY <3>1, <3>2, <3>3
  <2>3. CASE p[Side(s)] = 3
    <3>1. at = {}
      BY <1>6, <2>2, <2>3
    <3>2. ones = {}
      BY <3>1
    <3>3. Cardinality(at) = 0 /\ Cardinality(ones) = 0
      BY <3>1, <3>2, FS_EmptySet
    <3> QED  BY <1>2, <1>9, <3>3
  <2>4. CASE p[Side(s)] # 3
    <3>1. \A q \in node : q[Side(s)] # 3
      BY <2>2, <2>4
    <3>2. ones = {}
      BY <3>1 DEF Weight, One
    <3>3. Cardinality(ones) = 0
      BY <3>2, FS_EmptySet
    <3> DEFINE other == {1, 2} \ {p[Side(s)]}
    <3>a. p[Side(s)] = 1 \/ p[Side(s)] = 2
      BY <1>4, <2>1, <2>4
    <3>b. p[Side(s)] = 1 => other = {2}
      OBVIOUS
    <3>c. p[Side(s)] = 2 => other = {1}
      OBVIOUS
    <3>d. other = {1} \/ other = {2}
      BY <3>a, <3>b, <3>c
    <3>5. IsFiniteSet(other) /\ Cardinality(other) = 1
      <4> HIDE DEF other
      <4> QED  BY <3>d, FS_Singleton
    <3>6. f \in [at -> other]
      BY <1>4, <1>6, <2>1, <3>1
    <3>7. Cardinality(at) \in Nat /\ Cardinality(at) <= 1
      <4>1. Cardinality(at) \in Nat /\ Cardinality(at) <= Cardinality(other)
        <5> HIDE DEF at, other, f
        <5> QED  BY <1>7, <3>5, <3>6, ImageIsAll
      <4> QED  BY <4>1, <3>5
    <3>8. Cardinality(at) + 0 = 2
      BY <1>2, <1>9, <3>3
    <3> QED  BY <3>7, <3>8
  <2> QED  BY <2>3, <2>4
<1> QED  BY <1>8, <1>9

\* The complement of a canonical diagram: its output beside the old one.
Beside(d, old) == d.levels[Root] # <<>> /\ DOMAIN d.levels[Root] = {1, 2} /\ old = 1 /\ d.out = 2 /\ Strict(d.levels)

\* What dies with the operand's output, and what the prune then keeps.
Dying(d, dying) ==
  /\ dying[Root] = {1}
  /\ \A t \in Internal \ {Root} : dying[t] = UNION {DyingChild(d, t, d.levels[Parent[t]][i]) : i \in dying[Parent[t]]}
  /\ \A t \in Internal : dying[t] \subseteq DOMAIN d.levels[t]

Undying(d, dying) == [t \in Internal |-> DOMAIN d.levels[t] \ dying[t]]

\* Nothing kept names what dies.
LEMMA DyingIs ==
  ASSUME NEW d, Sound(d), NEW old, Beside(d, old)
  PROVE  \E dying : /\ Dying(d, dying) /\ Closed(d.levels, Undying(d, dying))
                    /\ PruneComplement(d, old) = Kept(d, Undying(d, dying))
<1> DEFINE levels == d.levels
           E(t, v) == IF t = Root THEN {old} ELSE UNION {DyingChild(d, t, levels[Parent[t]][i]) : i \in v}
           eq(f) == f = [t \in Internal |-> E(t, f[Parent[t]])]
           V == SUBSET Nat
           step == [x \in Internal \X V |-> E(x[1], x[2])]
           b == {old}
<1>0. /\ InRange(levels) /\ d.out \in DOMAIN levels[Root] /\ Root \in Internal /\ d.out # Zero
      /\ old \in DOMAIN levels[Root] /\ DOMAIN levels[Root] = {1, 2} /\ old = 1 /\ d.out = 2 /\ Strict(levels)
  BY SoundIs, RootIs DEF Beside, Zero
<1>1. \A t \in Internal : DOMAIN levels[t] \subseteq Nat
  BY <1>0, LevelIs
<1>2. \A t, v : t # Root => E(t, v) \subseteq DOMAIN levels[t]
  BY DEF DyingChild
<1>3. b \in V /\ step \in StepsDown(V)
  <2>1. b \in V
    BY <1>0
  <2>2. \A t \in Internal : \A v \in V : E(t, v) \in V
    BY <1>0, <1>1, <1>2
  <2> HIDE DEF E, V
  <2> QED  BY <2>1, <2>2 DEF StepsDown
<1>4. PICK f \in [Internal -> V] : f[Root] = b /\ \A t \in Internal \ {Root} : f[t] = step[<<t, f[Parent[t]]>>]
  <2> HIDE DEF V, b, step
  <2> QED  BY <1>3, DownExists
<1>5. \A t \in Internal \ {Root} : f[t] = E(t, f[Parent[t]])
  <2>1. \A t \in Internal \ {Root} : Parent[t] \in Internal
    BY HasParent DEF Vtree
  <2>2. \A t \in Internal \ {Root} : <<t, f[Parent[t]]>> \in Internal \X V
    BY <2>1, <1>4
  <2> HIDE DEF E, V
  <2> QED  BY <2>2, <1>4
<1>6. eq(f)
  <2>1. f = [t \in Internal |-> f[t]]
    BY <1>4
  <2>2. f[Root] = E(Root, f[Parent[Root]])
    BY <1>4
  <2>3. \A t \in Internal : f[t] = E(t, f[Parent[t]])
    <3> HIDE DEF E
    <3> QED  BY <2>2, <1>5
  <2> HIDE DEF E
  <2> QED  BY <2>1, <2>3
<1> DEFINE dying == CHOOSE g : eq(g)
           kept == [t \in Internal |-> DOMAIN levels[t] \ dying[t]]
<1>7. eq(dying)
  <2> HIDE DEF eq
  <2> QED  BY <1>6
<1>8. \A t \in Internal : dying[t] = E(t, dying[Parent[t]])
  <2> HIDE DEF E, dying
  <2> QED  BY <1>7
<1>9. PruneComplement(d, old) = Kept(d, kept)
  BY DEF PruneComplement
<1> HIDE DEF dying
<1>10. dying[Root] = {1}
  BY <1>0, <1>8
<1>11. \A t \in Internal : dying[t] \subseteq DOMAIN levels[t]
  <2> HIDE DEF E
  <2> QED  BY <1>0, <1>2, <1>8, <1>10
<1>12. ASSUME NEW t \in Internal, NEW c \in Children(t), c \notin Leaf,
              NEW k \in kept[t], NEW p \in levels[t][k]
       PROVE  p[Side(c)] \in kept[c]
  <2>0. k \in DOMAIN levels[t] /\ k \notin dying[t]
    OBVIOUS
  <2>1. c \in Internal \ {Root} /\ Parent[c] = t
    BY <1>12, ParentOf DEF Vtree
  <2>2. p[Side(c)] \in Slots(levels, c)
    BY <1>0, <2>0, SidesIs
  <2>3. p[Side(c)] \in DOMAIN levels[c]
    BY <1>12, <2>2 DEF Slots
  <2>4. ASSUME NEW i \in dying[t], p[Side(c)] \in DyingChild(d, c, levels[t][i]) PROVE FALSE
    <3>1. i \in DOMAIN levels[t] /\ i # k
      BY <1>11, <2>0
    <3>2. /\ levels[t][i] \cap levels[t][k] = {}
          /\ OneForm(t, levels[t][i], levels[t][i]) /\ OneForm(t, levels[t][i], levels[t][k])
      BY <1>0, <2>0, <3>1 DEF Strict
    <3> QED  BY <1>12, <2>0, <2>4, <3>1, <3>2, DyingIsAlone
  <2>5. p[Side(c)] \notin dying[c]
    <3>1. dying[c] = E(c, dying[t])
      <4> HIDE DEF E
      <4> QED  BY <1>8, <2>1
    <3>2. E(c, dying[t]) = UNION {DyingChild(d, c, levels[t][i]) : i \in dying[t]}
      BY <2>1
    <3>3. dying[c] = UNION {DyingChild(d, c, levels[t][i]) : i \in dying[t]}
      BY <3>1, <3>2
    <3> QED  BY <3>3, <2>4
  <2> QED  BY <2>1, <2>3, <2>5
<1>13. Closed(levels, kept)
  <2>1. \A t \in Internal : kept[t] \subseteq DOMAIN levels[t]
    OBVIOUS
  <2>2. ASSUME NEW t \in Internal, NEW k \in kept[t], NEW p \in levels[t][k]
        PROVE  /\ Left[t] \notin Leaf => p[1] \in kept[Left[t]]
               /\ Right[t] \notin Leaf => p[2] \in kept[Right[t]]
    <3>1. Left[t] \in Children(t) /\ Right[t] \in Children(t) /\ Side(Left[t]) = 1 /\ Side(Right[t]) = 2
      BY ParentOf, InternalIs DEF Children
    <3> HIDE DEF kept
    <3> QED  BY <3>1, <1>12
  <2> HIDE DEF kept
  <2> QED  BY <2>1, <2>2 DEF Closed
<1>14. Dying(d, dying)
  <2>1. \A t \in Internal \ {Root} : E(t, dying[Parent[t]]) = UNION {DyingChild(d, t, levels[Parent[t]][i]) : i \in dying[Parent[t]]}
    OBVIOUS
  <2>2. \A t \in Internal \ {Root} : dying[t] = UNION {DyingChild(d, t, levels[Parent[t]][i]) : i \in dying[Parent[t]]}
    <3> HIDE DEF E
    <3> QED  BY <1>8, <2>1
  <2> QED  BY <1>10, <1>11, <2>2 DEF Dying
<1>15. kept = Undying(d, dying)
  BY DEF Undying
<1> HIDE DEF kept
<1> QED  BY <1>9, <1>13, <1>14, <1>15

\* The prune after a canonical complement leaves a sound diagram with one root node.
LEMMA PruneComplementSound ==
  ASSUME NEW d, Sound(d), NEW old, Beside(d, old)
  PROVE  /\ Sound(PruneComplement(d, old)) /\ OneRoot(PruneComplement(d, old))
         /\ PruneComplement(d, old).out # Zero /\ Cut(d, PruneComplement(d, old))
<1>1. PICK dying : /\ Dying(d, dying) /\ Closed(d.levels, Undying(d, dying))
                   /\ PruneComplement(d, old) = Kept(d, Undying(d, dying))
  BY DyingIs
<1> DEFINE kept == Undying(d, dying)
<1>2. /\ InRange(d.levels) /\ d.out \in DOMAIN d.levels[Root] /\ Root \in Internal /\ d.out # Zero
      /\ DOMAIN d.levels[Root] = {1, 2} /\ d.out = 2
  BY SoundIs, RootIs DEF Beside, Zero
<1>3. kept[Root] = {2}
  BY <1>1, <1>2 DEF Undying, Dying
<1>4. Cardinality(kept[Root]) = 1 /\ d.out \in kept[Root]
  BY <1>2, <1>3, FS_Singleton
<1> HIDE DEF kept
<1>5. Closed(d.levels, kept) /\ PruneComplement(d, old) = Kept(d, kept)
  BY <1>1 DEF kept
<1>6. Sound(Kept(d, kept)) /\ Kept(d, kept).out # Zero /\ Len(Kept(d, kept).levels[Root]) = 1
  BY <1>2, <1>4, <1>5, KeptRoot
<1>7. Cut(d, Kept(d, kept))
  BY <1>4, <1>5 DEF Cut
<1> QED  BY <1>5, <1>6, <1>7 DEF OneRoot

-------------------------------------------------------------------------------
(* Contexts, and merging twins (reduce/contract). *)

\* A pair seen from one of the level's children.
LEMMA RenamedIs ==
  ASSUME NEW t \in Internal, NEW c \in Children(t), NEW pair, NEW ref
  PROVE  LET q == Renamed(pair, c, ref)
         IN  /\ q = <<q[1], q[2]>>
             /\ q[Side(c)] = ref /\ q[Side(Sibling(c))] = pair[Side(Sibling(c))]
<1>1. c = Left[t] \/ c = Right[t]
  BY DEF Children
<1>2. /\ c = Left[t] => Side(c) = 1 /\ Side(Sibling(c)) = 2
      /\ c = Right[t] => Side(c) = 2 /\ Side(Sibling(c)) = 1
  BY SiblingOf
<1> QED  BY <1>1, <1>2 DEF Renamed

\* A pair in range on both sides, whichever side comes first.
LEMMA SlotsSides ==
  ASSUME NEW levels, NEW t \in Internal, NEW c \in Children(t), NEW q,
         q[Side(c)] \in Slots(levels, c), q[Side(Sibling(c))] \in Slots(levels, Sibling(c))
  PROVE  q[1] \in Slots(levels, Left[t]) /\ q[2] \in Slots(levels, Right[t])
<1>1. c = Left[t] \/ c = Right[t]
  BY DEF Children
<1>2. /\ c = Left[t] => Sibling(c) = Right[t] /\ Side(c) = 1 /\ Side(Sibling(c)) = 2
      /\ c = Right[t] => Sibling(c) = Left[t] /\ Side(c) = 2 /\ Side(Sibling(c)) = 1
  BY SiblingOf
<1> QED  BY <1>1, <1>2

\* One form, seen from one of the children.
LEMMA OneFormSides ==
  ASSUME NEW t \in Internal, NEW c \in Children(t), NEW a, NEW b
  PROVE  OneForm(t, a, b) <=>
           \A p \in a, q \in b :
             /\ c \in Leaf => (p[Side(c)] = 3 <=> q[Side(c)] = 3)
             /\ Sibling(c) \in Leaf => (p[Side(Sibling(c))] = 3 <=> q[Side(Sibling(c))] = 3)
<1>1. c = Left[t] \/ c = Right[t]
  BY DEF Children
<1>2. /\ c = Left[t] => Sibling(c) = Right[t] /\ Side(c) = 1 /\ Side(Sibling(c)) = 2
      /\ c = Right[t] => Sibling(c) = Left[t] /\ Side(c) = 2 /\ Side(Sibling(c)) = 1
  BY SiblingOf
<1>3. CASE c = Left[t]
  BY <1>2, <1>3 DEF OneForm
<1>4. CASE c = Right[t]
  BY <1>2, <1>4 DEF OneForm
<1> QED  BY <1>1, <1>3, <1>4

\* The tree around a level below the root.
LEMMA AroundIs ==
  ASSUME NEW c \in Internal, c # Root
  PROVE  LET p == Parent[c]
         IN  /\ p \in Internal /\ c \in Children(p) /\ p # c /\ Sibling(c) \in Children(p)
             /\ Sibling(c) # c /\ Sibling(c) # p /\ Sibling(c) \in Vtree
             /\ Left[c] # c /\ Left[c] # p /\ Right[c] # c /\ Right[c] # p
             /\ \A t \in Internal : t # p => Left[t] # c /\ Right[t] # c
             /\ 3 - Side(c) = Side(Sibling(c))
<1> DEFINE p == Parent[c]
<1>1. p \in Internal /\ c \in Children(p) /\ c < p
  BY HasParent DEF Vtree
<1>2. Sibling(c) \in Children(p) /\ Sibling(c) # c
  BY <1>1, SiblingOf
<1>3. \A t \in Internal : /\ t \in Nat /\ Left[t] < t /\ Right[t] < t /\ Left[t] \in Nat /\ Right[t] \in Nat
                          /\ Left[t] \in Vtree /\ Right[t] \in Vtree
  BY InternalIs
<1>4. \A t \in Internal : c \in Children(t) => t = p
  BY ParentOf
<1>5. p # c
  BY <1>1, <1>3
<1>6. Sibling(c) # p /\ Sibling(c) \in Vtree
  BY <1>1, <1>2, <1>3 DEF Children
<1>7. Left[c] # c /\ Right[c] # c
  BY <1>3
<1>8. Left[c] # p /\ Right[c] # p
  <2>1. Left[c] < c /\ Right[c] < c /\ c < p /\ c \in Nat /\ p \in Nat /\ Left[c] \in Nat /\ Right[c] \in Nat
    BY <1>1, <1>3
  <2> QED  BY <2>1
<1>9. 3 - Side(c) = Side(Sibling(c))
  <2>1. c = Left[p] \/ c = Right[p]
    BY <1>1 DEF Children
  <2>2. /\ c = Left[p] => Side(c) = 1 /\ Side(Sibling(c)) = 2
        /\ c = Right[p] => Side(c) = 2 /\ Side(Sibling(c)) = 1
    BY <1>1, SiblingOf
  <2> QED  BY <2>1, <2>2
<1>10. \A t \in Internal : t # p => Left[t] # c /\ Right[t] # c
  BY <1>4 DEF Children
<1> QED  BY <1>1, <1>2, <1>5, <1>6, <1>7, <1>8, <1>9, <1>10

\* A node's context, pair by pair.
LEMMA ContextIs ==
  ASSUME NEW levels, NEW c, NEW i, NEW x
  PROVE  x \in Context(levels, c, i) <=>
           \E k \in DOMAIN levels[Parent[c]] : \E q \in levels[Parent[c]][k] :
             q[Side(c)] = i /\ x = <<k, q[3 - Side(c)]>>
<1>1. Context(levels, c, i)
        = UNION {{<<k, pair[3 - Side(c)]>> : pair \in {q \in levels[Parent[c]][k] : q[Side(c)] = i}} :
                   k \in DOMAIN levels[Parent[c]]}
  BY DEF Context
<1>2. ASSUME x \in Context(levels, c, i)
      PROVE  \E k \in DOMAIN levels[Parent[c]] : \E q \in levels[Parent[c]][k] :
               q[Side(c)] = i /\ x = <<k, q[3 - Side(c)]>>
  <2>1. PICK k \in DOMAIN levels[Parent[c]] :
               x \in {<<k, pair[3 - Side(c)]>> : pair \in {q \in levels[Parent[c]][k] : q[Side(c)] = i}}
    BY <1>1, <1>2
  <2> QED  BY <2>1
<1>3. ASSUME NEW k \in DOMAIN levels[Parent[c]], NEW q \in levels[Parent[c]][k],
             q[Side(c)] = i, x = <<k, q[3 - Side(c)]>>
      PROVE  x \in Context(levels, c, i)
  <2>1. x \in {<<k, pair[3 - Side(c)]>> : pair \in {r \in levels[Parent[c]][k] : r[Side(c)] = i}}
    BY <1>3
  <2> QED  BY <1>1, <2>1
<1> QED  BY <1>2, <1>3

\* A merge keeps a node of every group, named from where the group was.
LEMMA KeeperIs ==
  ASSUME NEW levels, InRange(levels), NEW c \in Internal, NEW among, among \subseteq DOMAIN levels[c]
  PROVE  LET keeper == Keeper(levels, c, among)
         IN  /\ keeper \in [DOMAIN levels[c] -> DOMAIN levels[c]]
             /\ \A i \in DOMAIN levels[c] :
                  /\ Context(levels, c, keeper[i]) = Context(levels, c, i)
                  /\ keeper[keeper[i]] = keeper[i]
                  /\ Context(levels, c, i) = {} => keeper[i] = i
<1> DEFINE groups == Groups(levels, c, among)
           keeper == Keeper(levels, c, among)
           C(i) == Context(levels, c, i)
<1>1. \A g \in groups : \E i \in among : C(i) # {} /\ g = {j \in among : C(j) = C(i)}
  <2>1. SUFFICES ASSUME NEW g \in groups
                 PROVE  \E i \in among : C(i) # {} /\ g = {j \in among : C(j) = C(i)}
    OBVIOUS
  <2> DEFINE all == {<<i, C(i)>> : i \in among}
             placed == {x \in all : x[2] # {}}
  <2>2. groups = {{y[1] : y \in {z \in placed : z[2] = x[2]}} : x \in placed}
    BY DEF Groups
  <2>3. PICK x \in placed : g = {y[1] : y \in {z \in placed : z[2] = x[2]}}
    BY <2>2
  <2>4. PICK i \in among : x = <<i, C(i)>>
    OBVIOUS
  <2>5. C(i) # {} /\ x[2] = C(i)
    BY <2>3, <2>4
  <2>6. \A j \in g : j \in among /\ C(j) = C(i)
    BY <2>3, <2>5
  <2>7. ASSUME NEW j \in among, C(j) = C(i) PROVE j \in g
    <3>1. <<j, C(j)>> \in placed /\ <<j, C(j)>>[2] = x[2]
      BY <2>5, <2>7
    <3> QED  BY <3>1, <2>3
  <2> QED  BY <2>5, <2>6, <2>7
<1>2. keeper = [i \in DOMAIN levels[c] |->
                  IF \E g \in groups : i \in g THEN Min(CHOOSE g \in groups : i \in g) ELSE i]
  BY TableIs DEF Keeper
<1> HIDE DEF groups, keeper, C
<1>3. ASSUME NEW g \in groups PROVE Min(g) \in g
  <2>1. g \subseteq among /\ g # {}
    BY <1>1
  <2>2. g \subseteq Nat
    <3>1. DOMAIN levels[c] \subseteq Nat
      BY LevelIs
    <3> QED  BY <2>1, <3>1
  <2> QED  BY <2>1, <2>2, LeastNumber DEF Min
<1>4. \A g, h \in groups : \A i : i \in g /\ i \in h => g = h
  <2>1. SUFFICES ASSUME NEW g \in groups, NEW h \in groups, NEW i, i \in g, i \in h PROVE g = h
    OBVIOUS
  <2>2. PICK j \in among : g = {k \in among : C(k) = C(j)}
    BY <1>1
  <2>3. PICK l \in among : h = {k \in among : C(k) = C(l)}
    BY <1>1
  <2>4. C(j) = C(l)
    BY <2>1, <2>2, <2>3
  <2> QED  BY <2>2, <2>3, <2>4
<1>5. \A g \in groups : \A i \in g : i \in DOMAIN levels[c] /\ keeper[i] = Min(g)
  <2>1. ASSUME NEW g \in groups, NEW i \in g PROVE i \in DOMAIN levels[c] /\ keeper[i] = Min(g)
    <3>1. i \in DOMAIN levels[c]
      BY <1>1
    <3>2. (CHOOSE h \in groups : i \in h) = g
      BY <1>4
    <3> QED  BY <3>1, <3>2, <1>2
  <2> QED  BY <2>1
<1>6. \A i \in DOMAIN levels[c] : (\A g \in groups : i \notin g) => keeper[i] = i
  BY <1>2
<1>7. ASSUME NEW i \in DOMAIN levels[c]
      PROVE  /\ keeper[i] \in DOMAIN levels[c] /\ C(keeper[i]) = C(i) /\ keeper[keeper[i]] = keeper[i]
             /\ C(i) = {} => keeper[i] = i
  <2>1. CASE \A g \in groups : i \notin g
    BY <2>1, <1>6
  <2>2. CASE \E g \in groups : i \in g
    <3>1. PICK g \in groups : i \in g
      BY <2>2
    <3>2. Min(g) \in g /\ keeper[i] = Min(g)
      BY <3>1, <1>3, <1>5
    <3>3. keeper[Min(g)] = Min(g) /\ Min(g) \in DOMAIN levels[c]
      BY <3>2, <1>5
    <3>4. C(Min(g)) = C(i) /\ C(i) # {}
      BY <3>1, <3>2, <1>1
    <3> QED  BY <3>2, <3>3, <3>4
  <2> QED  BY <2>1, <2>2
<1>8. keeper \in [DOMAIN levels[c] -> DOMAIN levels[c]]
  <2>1. keeper = [i \in DOMAIN levels[c] |-> keeper[i]]
    BY <1>2
  <2> QED  BY <2>1, <1>7
<1> QED  BY <1>7, <1>8 DEF keeper, C

\* The levels of a merge: nodes of c unite, and the level above names them anew.
MergedLevels(levels, c, among, dropped) ==
  LET p      == Parent[c]
      keeper == Keeper(levels, c, among)
      order  == Ascending(Survivors(keeper, dropped))
      moved(pair) == Renamed(pair, c, Moved(keeper, dropped, pair[Side(c)]))
  IN  [levels EXCEPT ![c] = [k \in DOMAIN order |-> United(levels, c, keeper, order[k])],
                     ![p] = [k \in DOMAIN levels[p] |-> {moved(pair) : pair \in levels[p][k]}]]

\* What a merge makes of the levels: those apart from c and its parent stay, the
\* parent's pairs follow, a named node of c is united with those of its keeper.
MergedAs(levels, new, c, keeper, dropped) ==
  LET p == Parent[c]
      s == Sibling(c)
      follows(q, r) == q[Side(c)] = Moved(keeper, dropped, r[Side(c)]) /\ q[Side(s)] = r[Side(s)]
  IN  /\ \A t \in Internal \ {c, p} : new[t] = levels[t]
      /\ \A k \in DOMAIN levels[p] : /\ \A q \in new[p][k] : \E r \in levels[p][k] : follows(q, r)
                                    /\ \A r \in levels[p][k] : \E q \in new[p][k] : follows(q, r)
      /\ \A k \in DOMAIN new[c] : \E i \in DOMAIN levels[c] : keeper[i] = i /\ new[c][k] = United(levels, c, keeper, i)
      /\ \A i \in DOMAIN levels[c] : Context(levels, c, i) # {} =>
           new[c][Moved(keeper, dropped, i)] = United(levels, c, keeper, keeper[i])

\* Merging twins and dropping unnamed nodes leaves the levels in range and deterministic.
LEMMA MergedSound ==
  ASSUME NEW levels, InRange(levels), Deterministic(levels), NEW c \in Internal, c # Root,
         NEW among, among \subseteq DOMAIN levels[c], NEW dropped, dropped \subseteq Unnamed(levels, c)
  PROVE  LET new == MergedLevels(levels, c, among, dropped)
         IN  /\ InRange(new) /\ Deterministic(new)
             /\ \A t \in Internal \ {c} : DOMAIN new[t] = DOMAIN levels[t]
             /\ \A i \in DOMAIN levels[c] : Context(levels, c, i) # {} =>
                  Moved(Keeper(levels, c, among), dropped, i) \in DOMAIN new[c]
             /\ MergedAs(levels, new, c, Keeper(levels, c, among), dropped)
<1> DEFINE p      == Parent[c]
           s      == Sibling(c)
           keeper == Keeper(levels, c, among)
           kept   == Survivors(keeper, dropped)
           order  == Ascending(kept)
           moved(pair) == Renamed(pair, c, Moved(keeper, dropped, pair[Side(c)]))
           A == [k \in DOMAIN order |-> United(levels, c, keeper, order[k])]
           B == [k \in DOMAIN levels[p] |-> {moved(pair) : pair \in levels[p][k]}]
           new == MergedLevels(levels, c, among, dropped)
           n == Cardinality(kept)
<1>0. /\ p \in Internal /\ c \in Children(p) /\ p # c /\ s \in Children(p) /\ s # c /\ s # p /\ s \in Vtree
      /\ Left[c] # c /\ Left[c] # p /\ Right[c] # c /\ Right[c] # p
      /\ \A t \in Internal : t # p => Left[t] # c /\ Right[t] # c
      /\ 3 - Side(c) = Side(s)
  BY AroundIs
<1>1. /\ keeper \in [DOMAIN levels[c] -> DOMAIN levels[c]]
      /\ \A i \in DOMAIN levels[c] :
           /\ Context(levels, c, keeper[i]) = Context(levels, c, i)
           /\ keeper[keeper[i]] = keeper[i]
           /\ Context(levels, c, i) = {} => keeper[i] = i
  BY KeeperIs
<1>2. DOMAIN levels[c] = 1 .. Len(levels[c]) /\ Len(levels[c]) \in Nat
  BY LevelIs
<1>3. kept \subseteq DOMAIN levels[c] /\ \A i \in kept : keeper[i] = i
  BY <1>1 DEF Survivors
<1>4. kept \subseteq Nat /\ IsFiniteSet(kept)
  <2>0. IsFiniteSet(1 .. Len(levels[c]))
    <3> DEFINE m == Len(levels[c])
    <3>1. m \in Nat
      BY <1>2
    <3> HIDE DEF m
    <3>2. IsFiniteSet(1 .. m)
      BY <3>1, UpToFinite
    <3> QED  BY <3>2 DEF m
  <2>1. IsFiniteSet(DOMAIN levels[c])
    BY <1>2, <2>0
  <2> HIDE DEF kept
  <2> QED  BY <1>2, <1>3, <2>1, FS_Subset
<1>5. /\ order \in [1 .. n -> kept] /\ n \in Nat
      /\ \A k \in 1 .. n : Rank(kept, order[k]) = k
      /\ \A i \in kept : Rank(kept, i) \in 1 .. n /\ order[Rank(kept, i)] = i
      /\ \A i, j \in kept : Rank(kept, i) = Rank(kept, j) => i = j
  <2> HIDE DEF kept
  <2> QED  BY <1>4, AscendingIs
\* A named node's keeper survives.
<1>6. \A i \in DOMAIN levels[c] : Context(levels, c, i) # {} => keeper[i] \in kept
  <2>1. ASSUME NEW i \in DOMAIN levels[c], Context(levels, c, i) # {} PROVE keeper[i] \in kept
    <3>1. keeper[i] \in DOMAIN levels[c] /\ Context(levels, c, keeper[i]) # {} /\ keeper[keeper[i]] = keeper[i]
      BY <1>1, <2>1
    <3>2. keeper[i] \notin dropped
      BY <3>1 DEF Unnamed, IsNamed
    <3> QED  BY <3>1, <3>2, <1>1 DEF Survivors
  <2> QED  BY <2>1
\* What a pair of the level above names.
<1>7. \A k \in DOMAIN levels[p] : \A q \in levels[p][k] :
        /\ q[Side(c)] \in DOMAIN levels[c] /\ q[Side(s)] \in Slots(levels, s)
        /\ <<k, q[Side(s)]>> \in Context(levels, c, q[Side(c)])
  <2>1. ASSUME NEW k \in DOMAIN levels[p], NEW q \in levels[p][k]
        PROVE  /\ q[Side(c)] \in DOMAIN levels[c] /\ q[Side(s)] \in Slots(levels, s)
               /\ <<k, q[Side(s)]>> \in Context(levels, c, q[Side(c)])
    <3>1. q[Side(c)] \in Slots(levels, c) /\ q[Side(s)] \in Slots(levels, s)
      BY <1>0, SidesIs
    <3>2. Slots(levels, c) = DOMAIN levels[c]
      BY InternalIs DEF Slots
    <3>3. <<k, q[Side(s)]>> \in Context(levels, c, q[Side(c)])
      BY <1>0, ContextIs
    <3> QED  BY <3>1, <3>2, <3>3
  <2> QED  BY <2>1
<1>8. \A k \in DOMAIN levels[p] : \A q \in levels[p][k] :
        keeper[q[Side(c)]] \in kept /\ Moved(keeper, dropped, q[Side(c)]) = Rank(kept, keeper[q[Side(c)]])
  BY <1>6, <1>7 DEF Moved
<1>9. \A k \in DOMAIN levels[p] : \A q \in levels[p][k] :
        /\ moved(q) = <<moved(q)[1], moved(q)[2]>>
        /\ moved(q)[Side(c)] = Rank(kept, keeper[q[Side(c)]]) /\ moved(q)[Side(s)] = q[Side(s)]
  <2>1. ASSUME NEW k \in DOMAIN levels[p], NEW q \in levels[p][k]
        PROVE  /\ moved(q) = <<moved(q)[1], moved(q)[2]>>
               /\ moved(q)[Side(c)] = Rank(kept, keeper[q[Side(c)]]) /\ moved(q)[Side(s)] = q[Side(s)]
    <3>1. Moved(keeper, dropped, q[Side(c)]) = Rank(kept, keeper[q[Side(c)]])
      BY <1>8
    <3> DEFINE ref == Moved(keeper, dropped, q[Side(c)])
    <3>2. /\ Renamed(q, c, ref) = <<Renamed(q, c, ref)[1], Renamed(q, c, ref)[2]>>
          /\ Renamed(q, c, ref)[Side(c)] = ref /\ Renamed(q, c, ref)[Side(s)] = q[Side(s)]
      <4> HIDE DEF ref
      <4> QED  BY <1>0, RenamedIs
    <3> HIDE DEF keeper, kept
    <3> QED  BY <3>1, <3>2
  <2> QED  BY <2>1
\* The levels, one at a time.
<1>10. new = [levels EXCEPT ![c] = A, ![p] = B]
  BY DEF MergedLevels
<1>11. DOMAIN levels = Internal
  BY DEF InRange
<1>12. /\ new = [t \in Internal |-> new[t]]
       /\ new[c] = A /\ new[p] = B /\ \A t \in Internal \ {c, p} : new[t] = levels[t]
  <2> HIDE DEF A, B, new, p
  <2> QED  BY <1>0, <1>10, <1>11
<1>13. DOMAIN A = 1 .. n /\ IsSequence(A)
  <2>1. DOMAIN order = 1 .. n
    BY <1>5
  <2>2. DOMAIN A = 1 .. n /\ A = [k \in 1 .. n |-> A[k]]
    BY <2>1
  <2> HIDE DEF A, n
  <2> QED  BY <2>2, <1>5 DEF IsSequence
<1>14. DOMAIN B = DOMAIN levels[p] /\ IsSequence(B)
  <2>1. DOMAIN levels[p] = 1 .. Len(levels[p]) /\ Len(levels[p]) \in Nat
    BY <1>0, LevelIs
  <2>2. DOMAIN B = 1 .. Len(levels[p]) /\ B = [k \in 1 .. Len(levels[p]) |-> B[k]]
    BY <2>1
  <2> HIDE DEF B
  <2> QED  BY <2>1, <2>2 DEF IsSequence
<1>15. \A t \in Internal \ {c, p} : IsSequence(levels[t])
  <2>1. ASSUME NEW t \in Internal PROVE IsSequence(levels[t])
    <3>1. levels[t] \in Seq(SUBSET (Nat \X Nat)) /\ Len(levels[t]) \in Nat /\ DOMAIN levels[t] = 1 .. Len(levels[t])
      BY LevelIs
    <3>2. levels[t] = [k \in 1 .. Len(levels[t]) |-> levels[t][k]]
      BY <3>1
    <3> QED  BY <3>1, <3>2 DEF IsSequence
  <2> QED  BY <2>1
\* A united node's pairs are those of nodes it keeps.
<1>16. \A k \in 1 .. n : \A q \in A[k] : \E j \in DOMAIN levels[c] : keeper[j] = order[k] /\ q \in levels[c][j]
  <2>1. ASSUME NEW k \in 1 .. n, NEW q \in A[k]
        PROVE  \E j \in DOMAIN levels[c] : keeper[j] = order[k] /\ q \in levels[c][j]
    <3>1. A[k] = UNION {levels[c][j] : j \in {m \in DOMAIN keeper : keeper[m] = order[k]}}
      BY <1>5 DEF United
    <3>2. DOMAIN keeper = DOMAIN levels[c]
      BY <1>1
    <3> HIDE DEF A, keeper, order, kept
    <3> QED  BY <3>1, <3>2
  <2> QED  BY <2>1
<1>17. \A k \in DOMAIN levels[p] : \A q \in B[k] : \E r \in levels[p][k] : q = moved(r)
  OBVIOUS
<1>30. MergedAs(levels, new, c, keeper, dropped)
  <2>1. \A k \in DOMAIN levels[p] :
          /\ \A q \in B[k] : \E r \in levels[p][k] : q[Side(c)] = Moved(keeper, dropped, r[Side(c)]) /\ q[Side(s)] = r[Side(s)]
          /\ \A r \in levels[p][k] : \E q \in B[k] : q[Side(c)] = Moved(keeper, dropped, r[Side(c)]) /\ q[Side(s)] = r[Side(s)]
    <3>1. ASSUME NEW k \in DOMAIN levels[p], NEW q \in B[k]
          PROVE  \E r \in levels[p][k] : q[Side(c)] = Moved(keeper, dropped, r[Side(c)]) /\ q[Side(s)] = r[Side(s)]
      <4>1. PICK r \in levels[p][k] : q = moved(r)
        BY <1>17
      <4> HIDE DEF moved, keeper, kept
      <4> QED  BY <4>1, <1>8, <1>9
    <3>2. ASSUME NEW k \in DOMAIN levels[p], NEW r \in levels[p][k]
          PROVE  \E q \in B[k] : q[Side(c)] = Moved(keeper, dropped, r[Side(c)]) /\ q[Side(s)] = r[Side(s)]
      <4>1. moved(r) \in B[k]
        OBVIOUS
      <4> HIDE DEF moved, keeper, kept, B
      <4> QED  BY <4>1, <1>8, <1>9
    <3> HIDE DEF B, keeper
    <3> QED  BY <3>1, <3>2
  <2>2. \A k \in DOMAIN A : \E i \in DOMAIN levels[c] : keeper[i] = i /\ A[k] = United(levels, c, keeper, i)
    <3>1. ASSUME NEW k \in DOMAIN A
          PROVE  \E i \in DOMAIN levels[c] : keeper[i] = i /\ A[k] = United(levels, c, keeper, i)
      <4>1. A[k] = United(levels, c, keeper, order[k]) /\ k \in 1 .. n
        BY <1>13
      <4>2. order[k] \in kept
        <5> HIDE DEF kept, order
        <5> QED  BY <4>1, <1>5
      <4> HIDE DEF kept, order, A, keeper
      <4> QED  BY <4>1, <4>2, <1>3
    <3> HIDE DEF A, keeper
    <3> QED  BY <3>1
  <2>3. \A i \in DOMAIN levels[c] : Context(levels, c, i) # {} =>
           A[Moved(keeper, dropped, i)] = United(levels, c, keeper, keeper[i])
    <3>1. ASSUME NEW i \in DOMAIN levels[c], Context(levels, c, i) # {}
          PROVE  A[Moved(keeper, dropped, i)] = United(levels, c, keeper, keeper[i])
      <4> DEFINE k == Rank(kept, keeper[i])
      <4>1. Moved(keeper, dropped, i) = k
        BY DEF Moved
      <4>2. keeper[i] \in kept
        BY <1>6, <3>1
      <4>3. k \in 1 .. n /\ order[k] = keeper[i]
        <5> HIDE DEF kept, order, keeper
        <5> QED  BY <4>2, <1>5
      <4>4. k \in DOMAIN order
        BY <4>3, <1>5
      <4>5. A[k] = United(levels, c, keeper, order[k])
        <5> HIDE DEF k, order, kept
        <5> QED  BY <4>4
      <4> HIDE DEF k, A, keeper
      <4> QED  BY <4>1, <4>3, <4>5
    <3> HIDE DEF A, keeper
    <3> QED  BY <3>1
  <2> HIDE DEF A, B, keeper, new
  <2> QED  BY <1>12, <2>1, <2>2, <2>3 DEF MergedAs
<1> HIDE DEF A, B, new, moved, order, kept, keeper, n, p, s
<1>18. \A x \in Vtree : /\ x # c => Slots(new, x) = Slots(levels, x)
                        /\ Slots(new, c) = 1 .. n
  <2>1. c \notin Leaf /\ p \notin Leaf
    BY <1>0, InternalIs
  <2>2. ASSUME NEW x \in Vtree, x # c PROVE Slots(new, x) = Slots(levels, x)
    <3>1. CASE x \in Leaf
      BY <3>1, LeafSlots
    <3>2. CASE x \notin Leaf
      <4>1. x \in Internal
        BY <3>2 DEF Vtree
      <4> QED  BY <4>1, <3>2, <2>2, <1>12, <1>14 DEF Slots
    <3> QED  BY <3>1, <3>2
  <2> QED  BY <2>1, <2>2, <1>12, <1>13 DEF Slots
<1>19. ASSUME NEW t \in Internal, NEW k \in DOMAIN new[t], NEW q \in new[t][k]
       PROVE  q = <<q[1], q[2]>> /\ q[1] \in Slots(new, Left[t]) /\ q[2] \in Slots(new, Right[t])
  <2>0. Left[t] \in Vtree /\ Right[t] \in Vtree
    BY InternalIs
  <2>1. CASE t = c
    <3>1. k \in 1 .. n /\ q \in A[k]
      BY <2>1, <1>12, <1>13
    <3>2. PICK j \in DOMAIN levels[c] : q \in levels[c][j]
      BY <3>1, <1>16
    <3>3. q = <<q[1], q[2]>> /\ q[1] \in Slots(levels, Left[c]) /\ q[2] \in Slots(levels, Right[c])
      BY <3>2, PairIs
    <3> QED  BY <2>0, <2>1, <3>3, <1>0, <1>18
  <2>2. CASE t = p
    <3>1. k \in DOMAIN levels[p] /\ q \in B[k]
      BY <2>2, <1>12, <1>14
    <3>2. PICK r \in levels[p][k] : q = moved(r)
      BY <3>1, <1>17
    <3>3. q = <<q[1], q[2]>> /\ q[Side(c)] = Rank(kept, keeper[r[Side(c)]]) /\ q[Side(s)] = r[Side(s)]
      BY <3>1, <3>2, <1>9
    <3>4. q[Side(c)] \in Slots(new, c)
      <4>1. Rank(kept, keeper[r[Side(c)]]) \in 1 .. n
        BY <3>1, <1>5, <1>8
      <4>2. Slots(new, c) = 1 .. n
        BY <1>18 DEF Vtree
      <4> QED  BY <3>3, <4>1, <4>2
    <3>5. q[Side(s)] \in Slots(new, s)
      <4>1. r[Side(s)] \in Slots(levels, s)
        BY <3>1, <1>7
      <4>2. Slots(new, s) = Slots(levels, s)
        BY <1>0, <1>18
      <4> QED  BY <3>3, <4>1, <4>2
    <3>6. q[1] \in Slots(new, Left[p]) /\ q[2] \in Slots(new, Right[p])
      BY <1>0, <3>4, <3>5, SlotsSides DEF s
    <3> QED  BY <2>2, <3>3, <3>6
  <2>3. CASE t \notin {c, p}
    <3>1. k \in DOMAIN levels[t] /\ q \in levels[t][k]
      BY <2>3, <1>12
    <3>2. q = <<q[1], q[2]>> /\ q[1] \in Slots(levels, Left[t]) /\ q[2] \in Slots(levels, Right[t])
      BY <3>1, PairIs
    <3> QED  BY <2>0, <2>3, <3>2, <1>0, <1>18
  <2> QED  BY <2>1, <2>2, <2>3
<1>20. \A t \in Internal : IsSequence(new[t])
  BY <1>12, <1>13, <1>14, <1>15
<1>21. InRange(new)
  BY <1>12, <1>19, <1>20, InRangeFrom
\* Nothing is met twice.
<1>22. \A t \in Internal : \A i, j \in DOMAIN levels[t] :
         /\ t # Root /\ i # j => levels[t][i] \cap levels[t][j] = {}
         /\ t # Root \/ i = j => OneForm(t, levels[t][i], levels[t][j])
  BY DeterministicIs
<1>23. ASSUME NEW j \in 1 .. n, NEW k \in 1 .. n
       PROVE  (j # k => A[j] \cap A[k] = {}) /\ OneForm(c, A[j], A[k])
  <2>1. ASSUME j # k, NEW q \in A[j], q \in A[k] PROVE FALSE
    <3>1. PICK i1 \in DOMAIN levels[c] : keeper[i1] = order[j] /\ q \in levels[c][i1]
      BY <1>16
    <3>2. PICK i2 \in DOMAIN levels[c] : keeper[i2] = order[k] /\ q \in levels[c][i2]
      BY <1>16, <2>1
    <3>3. i1 = i2
      BY <1>22, <3>1, <3>2
    <3>4. order[j] = order[k]
      BY <3>1, <3>2, <3>3
    <3>5. j = k
      BY <3>4, <1>5
    <3> QED  BY <3>5, <2>1
  <2>2. ASSUME NEW q \in A[j], NEW r \in A[k]
        PROVE  /\ Left[c] \in Leaf => (q[1] = 3 <=> r[1] = 3)
               /\ Right[c] \in Leaf => (q[2] = 3 <=> r[2] = 3)
    <3>1. PICK i1 \in DOMAIN levels[c] : q \in levels[c][i1]
      BY <1>16
    <3>2. PICK i2 \in DOMAIN levels[c] : r \in levels[c][i2]
      BY <1>16
    <3>3. OneForm(c, levels[c][i1], levels[c][i2])
      BY <1>22
    <3> QED  BY <3>1, <3>2, <3>3 DEF OneForm
  <2> QED  BY <2>1, <2>2 DEF OneForm
<1>24. ASSUME NEW j \in DOMAIN levels[p], NEW k \in DOMAIN levels[p]
       PROVE  /\ p # Root /\ j # k => B[j] \cap B[k] = {}
              /\ p # Root \/ j = k => OneForm(p, B[j], B[k])
  <2>1. ASSUME p # Root, j # k, NEW q \in B[j], q \in B[k] PROVE FALSE
    <3>1. PICK r1 \in levels[p][j] : q = moved(r1)
      BY <1>17
    <3>2. PICK r2 \in levels[p][k] : q = moved(r2)
      BY <1>17, <2>1
    <3>3. Rank(kept, keeper[r1[Side(c)]]) = Rank(kept, keeper[r2[Side(c)]]) /\ r1[Side(s)] = r2[Side(s)]
      BY <3>1, <3>2, <1>9
    <3>4. keeper[r1[Side(c)]] = keeper[r2[Side(c)]]
      BY <3>3, <1>5, <1>8
    <3>5. Context(levels, c, r1[Side(c)]) = Context(levels, c, r2[Side(c)])
      BY <3>4, <1>1, <1>7
    <3>6. <<k, r1[Side(s)]>> \in Context(levels, c, r1[Side(c)])
      BY <3>3, <3>5, <1>7
    <3>7. PICK l \in DOMAIN levels[p] : \E q3 \in levels[p][l] :
                 q3[Side(c)] = r1[Side(c)] /\ <<k, r1[Side(s)]>> = <<l, q3[3 - Side(c)]>>
      BY <3>6, ContextIs DEF p
    <3>8. PICK q3 \in levels[p][k] : q3[Side(c)] = r1[Side(c)] /\ q3[Side(s)] = r1[Side(s)]
      BY <3>7, <1>0
    <3>9. q3 = r1
      BY <3>8, <1>0, SidesIs DEF s
    <3> QED  BY <3>9, <2>1, <1>0, <1>22
  <2>2. ASSUME p # Root \/ j = k, NEW q \in B[j], NEW r \in B[k]
        PROVE  s \in Leaf => (q[Side(s)] = 3 <=> r[Side(s)] = 3)
    <3>1. PICK r1 \in levels[p][j] : q = moved(r1)
      BY <1>17
    <3>2. PICK r2 \in levels[p][k] : r = moved(r2)
      BY <1>17, <2>2
    <3>3. q[Side(s)] = r1[Side(s)] /\ r[Side(s)] = r2[Side(s)]
      BY <3>1, <3>2, <1>9
    <3>4. OneForm(p, levels[p][j], levels[p][k])
      BY <1>0, <1>22, <2>2
    <3>5. s \in Leaf => (r1[Side(s)] = 3 <=> r2[Side(s)] = 3)
      BY <3>4, <1>0, OneFormSides DEF s
    <3> QED  BY <3>3, <3>5
  <2>3. ASSUME p # Root \/ j = k PROVE OneForm(p, B[j], B[k])
    <3>1. c \notin Leaf
      BY InternalIs
    <3> QED  BY <2>2, <2>3, <3>1, <1>0, OneFormSides DEF s
  <2> QED  BY <2>1, <2>3
<1>25. Deterministic(new)
  <2>1. ASSUME NEW t \in Internal, NEW i \in DOMAIN new[t], NEW j \in DOMAIN new[t]
        PROVE  /\ t # Root /\ i # j => new[t][i] \cap new[t][j] = {}
               /\ t # Root \/ i = j => OneForm(t, new[t][i], new[t][j])
    <3>1. CASE t = c
      BY <3>1, <1>12, <1>13, <1>23
    <3>2. CASE t = p
      BY <3>2, <1>12, <1>14, <1>24
    <3>3. CASE t \notin {c, p}
      BY <3>3, <1>12, <1>22
    <3> QED  BY <3>1, <3>2, <3>3
  <2> QED  BY <2>1, DeterministicIs
<1>26. \A t \in Internal \ {c} : DOMAIN new[t] = DOMAIN levels[t]
  BY <1>12, <1>14
<1>27. \A i \in DOMAIN levels[c] : Context(levels, c, i) # {} => Moved(keeper, dropped, i) \in DOMAIN new[c]
  <2>1. ASSUME NEW i \in DOMAIN levels[c], Context(levels, c, i) # {}
        PROVE  Moved(keeper, dropped, i) \in DOMAIN new[c]
    <3>1. Rank(kept, keeper[i]) \in 1 .. n
      BY <2>1, <1>5, <1>6
    <3>2. DOMAIN new[c] = 1 .. n
      BY <1>12, <1>13
    <3> QED  BY <3>1, <3>2 DEF Moved, kept
  <2> QED  BY <2>1
<1> QED  BY <1>21, <1>25, <1>26, <1>27, <1>30 DEF new, keeper

\* Root levels with the same slots.
SameRoot(d, e) == DOMAIN d.levels[Root] = DOMAIN e.levels[Root]

\* Sequences with the same slots are as long as each other.
LEMMA SameRootIs ==
  ASSUME NEW d, NEW e, Sound(d), Sound(e), SameRoot(d, e)
  PROVE  Len(d.levels[Root]) = Len(e.levels[Root])
<1>1. /\ DOMAIN d.levels[Root] = 1 .. Len(d.levels[Root]) /\ Len(d.levels[Root]) \in Nat
      /\ DOMAIN e.levels[Root] = 1 .. Len(e.levels[Root]) /\ Len(e.levels[Root]) \in Nat
  BY SoundIs, RootIs, LevelIs
<1> QED  BY <1>1, SameInterval DEF SameRoot

\* Merging the twins of one level leaves a sound diagram (contract/twins).
LEMMA ContractTwinsSound ==
  ASSUME NEW d, Sound(d), NEW c \in Internal, c # Root, NEW among, among \subseteq DOMAIN d.levels[c],
         NEW dropped, dropped \subseteq Unnamed(d.levels, c)
  PROVE  LET made == ContractTwins(d, c, among, dropped)
         IN  /\ Sound(made) /\ made.out = d.out /\ made.levels = MergedLevels(d.levels, c, among, dropped)
             /\ \A t \in Internal \ {c} : DOMAIN made.levels[t] = DOMAIN d.levels[t]
             /\ \A i \in DOMAIN d.levels[c] : Context(d.levels, c, i) # {} =>
                  Moved(Keeper(d.levels, c, among), dropped, i) \in DOMAIN made.levels[c]
<1> DEFINE p == Parent[c]
           new == MergedLevels(d.levels, c, among, dropped)
           loose == LooseAfter(d, c, dropped)
           made == ContractTwins(d, c, among, dropped)
<1>1. /\ d = Diagram(d.levels, d.out, d.contract, d.leaves, d.loose, d.certified)
      /\ InRange(d.levels) /\ Deterministic(d.levels) /\ d.out \in {Zero} \cup DOMAIN d.levels[Root]
      /\ d.contract \subseteq Internal /\ d.leaves \subseteq Internal
      /\ d.loose = Unknown \/ d.loose \subseteq Internal \ {Root}
  BY SoundIs
<1>2. /\ InRange(new) /\ Deterministic(new)
      /\ \A t \in Internal \ {c} : DOMAIN new[t] = DOMAIN d.levels[t]
      /\ \A i \in DOMAIN d.levels[c] : Context(d.levels, c, i) # {} =>
           Moved(Keeper(d.levels, c, among), dropped, i) \in DOMAIN new[c]
      /\ MergedAs(d.levels, new, c, Keeper(d.levels, c, among), dropped)
  <2> DEFINE old == d.levels
  <2>1. InRange(old) /\ Deterministic(old) /\ among \subseteq DOMAIN old[c] /\ dropped \subseteq Unnamed(old, c)
    BY <1>1
  <2> HIDE DEF old, new
  <2>2. LET merged == MergedLevels(old, c, among, dropped)
        IN  /\ InRange(merged) /\ Deterministic(merged)
            /\ \A t \in Internal \ {c} : DOMAIN merged[t] = DOMAIN old[t]
            /\ \A i \in DOMAIN old[c] : Context(old, c, i) # {} =>
                 Moved(Keeper(old, c, among), dropped, i) \in DOMAIN merged[c]
            /\ MergedAs(old, merged, c, Keeper(old, c, among), dropped)
    BY <2>1, MergedSound
  <2> QED  BY <2>2 DEF old, new
<1>3. made = [Invalidate(d, {c, p}) EXCEPT !.levels = new, !.loose = loose]
  BY DEF ContractTwins, MergedLevels
<1>4. Invalidate(d, {c, p}) = Diagram(d.levels, d.out, d.contract \cup {c, p}, d.leaves \cup {c, p}, Unknown, FALSE)
  BY <1>1 DEF Invalidate, Diagram
<1>5. made = Diagram(new, d.out, d.contract \cup {c, p}, d.leaves \cup {c, p}, loose, FALSE)
  <2> HIDE DEF new, loose, made
  <2>1. [Invalidate(d, {c, p}) EXCEPT !.levels = new, !.loose = loose]
          = Diagram(new, d.out, d.contract \cup {c, p}, d.leaves \cup {c, p}, loose, FALSE)
    <3> DEFINE cs == d.contract \cup {c, p}
               vs == d.leaves \cup {c, p}
               no == FALSE
    <3>1. Invalidate(d, {c, p}) = Diagram(d.levels, d.out, cs, vs, Unknown, no)
      BY <1>4
    <3> HIDE DEF cs, vs, no
    <3> DEFINE base == Invalidate(d, {c, p})
    <3> HIDE DEF base
    <3>2. [base EXCEPT !.levels = new, !.loose = loose] = [[base EXCEPT !.levels = new] EXCEPT !.loose = loose]
      OBVIOUS
    <3>3. [base EXCEPT !.levels = new] = Diagram(new, d.out, cs, vs, Unknown, no)
      BY <3>1 DEF Diagram, base
    <3>4. [Diagram(new, d.out, cs, vs, Unknown, no) EXCEPT !.loose = loose]
            = Diagram(new, d.out, cs, vs, loose, no)
      BY DEF Diagram
    <3>5. [base EXCEPT !.levels = new, !.loose = loose] = Diagram(new, d.out, cs, vs, loose, no)
      BY <3>2, <3>3, <3>4
    <3> QED  BY <3>5 DEF base, cs, vs, no
  <2> QED  BY <1>3, <1>4, <2>1
<1>6. loose = Unknown \/ loose \subseteq Internal \ {Root}
  <2>1. (Children(c) \ Leaf) \subseteq Internal \ {Root}
    BY InternalIs DEF Children, Vtree
  <2>2. loose = d.loose \/ loose = d.loose \cup (Children(c) \ Leaf)
    BY DEF LooseAfter
  <2>3. d.loose = Unknown => loose = Unknown
    BY DEF LooseAfter
  <2> HIDE DEF loose
  <2> QED  BY <1>1, <2>1, <2>2, <2>3
<1>7. p \in Internal
  BY AroundIs
<1> HIDE DEF new, loose, made, p
<1>8. Sound(Diagram(new, d.out, d.contract \cup {c, p}, d.leaves \cup {c, p}, loose, FALSE))
  <2>1. d.contract \cup {c, p} \subseteq Internal /\ d.leaves \cup {c, p} \subseteq Internal
    BY <1>1, <1>7
  <2>2. d.out \in {Zero} \cup DOMAIN new[Root]
    BY <1>1, <1>2, RootIs
  <2> QED  BY <1>2, <1>6, <2>1, <2>2, SoundDiagram
<1>9. made.levels = new /\ made.out = d.out
  BY <1>5 DEF Diagram
<1>10. Sound(made)
  BY <1>5, <1>8
<1> QED  BY <1>2, <1>9, <1>10 DEF made, new

\* A list of loose levels is a sound record.
LEMMA WithLoose ==
  ASSUME NEW d, Sound(d), NEW x, x = Unknown \/ x \subseteq Internal \ {Root}
  PROVE  /\ Sound([d EXCEPT !.loose = x])
         /\ [d EXCEPT !.loose = x].levels = d.levels /\ [d EXCEPT !.loose = x].out = d.out
<1>1. /\ d = Diagram(d.levels, d.out, d.contract, d.leaves, d.loose, d.certified)
      /\ InRange(d.levels) /\ Deterministic(d.levels) /\ d.out \in {Zero} \cup DOMAIN d.levels[Root]
      /\ d.contract \subseteq Internal /\ d.leaves \subseteq Internal
      /\ d.certified \in BOOLEAN /\ (d.certified => Len(d.levels[Root]) <= 1)
  BY SoundIs
<1>2. [d EXCEPT !.loose = x] = Diagram(d.levels, d.out, d.contract, d.leaves, x, d.certified)
  BY <1>1 DEF Diagram
<1>3. Sound(Diagram(d.levels, d.out, d.contract, d.leaves, x, d.certified))
  BY <1>1, SoundDiagram
<1> QED  BY <1>2, <1>3 DEF Diagram

\* A worklist of internal levels is a sound record.
LEMMA WithLists ==
  ASSUME NEW d, Sound(d), NEW x, x \subseteq Internal
  PROVE  /\ Sound([d EXCEPT !.contract = x])
         /\ [d EXCEPT !.contract = x].levels = d.levels /\ [d EXCEPT !.contract = x].out = d.out
         /\ Sound([d EXCEPT !.leaves = x])
         /\ [d EXCEPT !.leaves = x].levels = d.levels /\ [d EXCEPT !.leaves = x].out = d.out
<1>1. /\ d = Diagram(d.levels, d.out, d.contract, d.leaves, d.loose, d.certified)
      /\ InRange(d.levels) /\ Deterministic(d.levels) /\ d.out \in {Zero} \cup DOMAIN d.levels[Root]
      /\ d.contract \subseteq Internal /\ d.leaves \subseteq Internal
      /\ d.loose = Unknown \/ d.loose \subseteq Internal \ {Root}
      /\ d.certified \in BOOLEAN /\ (d.certified => Len(d.levels[Root]) <= 1)
  BY SoundIs
<1>2. /\ [d EXCEPT !.contract = x] = Diagram(d.levels, d.out, x, d.leaves, d.loose, d.certified)
      /\ [d EXCEPT !.leaves = x] = Diagram(d.levels, d.out, d.contract, x, d.loose, d.certified)
  BY <1>1 DEF Diagram
<1>3. /\ Sound(Diagram(d.levels, d.out, x, d.leaves, d.loose, d.certified))
      /\ Sound(Diagram(d.levels, d.out, d.contract, x, d.loose, d.certified))
  BY <1>1, SoundDiagram
<1> QED  BY <1>2, <1>3 DEF Diagram

\* A search of one child leaves a sound diagram, the merged nodes where the search says.
LEMMA ContractChildSound ==
  ASSUME NEW d, Sound(d), NEW c \in Internal, c # Root, NEW among, among \subseteq DOMAIN d.levels[c],
         NEW finding, finding.dropped \subseteq Unnamed(d.levels, c)
  PROVE  LET made == ContractChild(d, c, among, finding)
         IN  /\ Sound(made) /\ made.out = d.out
             /\ \A t \in Internal \ {c} : DOMAIN made.levels[t] = DOMAIN d.levels[t]
             /\ \/ made.levels = d.levels /\ ~HasTwins(d.levels, c, among) /\ finding.dropped = {}
                \/ \A i \in DOMAIN d.levels[c] : Context(d.levels, c, i) # {} =>
                     Moved(Keeper(d.levels, c, among), finding.dropped, i) \in DOMAIN made.levels[c]
             /\ made.levels = d.levels \/ made.levels = MergedLevels(d.levels, c, among, finding.dropped)
<1> DEFINE fires  == HasTwins(d.levels, c, among) \/ finding.dropped # {}
           merged == IF fires THEN ContractTwins(d, c, among, finding.dropped) ELSE d
           made == ContractChild(d, c, among, finding)
           fits(e) == /\ Sound(e) /\ e.out = d.out
                      /\ \A t \in Internal \ {c} : DOMAIN e.levels[t] = DOMAIN d.levels[t]
                      /\ \/ e.levels = d.levels /\ ~fires
                         \/ \A i \in DOMAIN d.levels[c] : Context(d.levels, c, i) # {} =>
                              Moved(Keeper(d.levels, c, among), finding.dropped, i) \in DOMAIN e.levels[c]
                      /\ e.levels = d.levels \/ e.levels = MergedLevels(d.levels, c, among, finding.dropped)
<1>1. fits(ContractTwins(d, c, among, finding.dropped))
  <2> DEFINE dropped == finding.dropped
             twins == ContractTwins(d, c, among, dropped)
  <2>1. dropped \subseteq Unnamed(d.levels, c)
    OBVIOUS
  <2> HIDE DEF dropped, fires
  <2>2. /\ Sound(twins) /\ twins.out = d.out /\ twins.levels = MergedLevels(d.levels, c, among, dropped)
        /\ \A t \in Internal \ {c} : DOMAIN twins.levels[t] = DOMAIN d.levels[t]
        /\ \A i \in DOMAIN d.levels[c] : Context(d.levels, c, i) # {} =>
             Moved(Keeper(d.levels, c, among), dropped, i) \in DOMAIN twins.levels[c]
    BY <2>1, ContractTwinsSound
  <2> HIDE DEF twins
  <2>3. twins = ContractTwins(d, c, among, finding.dropped)
    BY DEF twins, dropped
  <2>4. \A i \in DOMAIN d.levels[c] : Context(d.levels, c, i) # {} =>
             Moved(Keeper(d.levels, c, among), finding.dropped, i) \in DOMAIN twins.levels[c]
    BY <2>2 DEF dropped
  <2>6. twins.levels = MergedLevels(d.levels, c, among, finding.dropped)
    BY <2>2 DEF dropped
  <2>5. fits(twins)
    BY <2>2, <2>4, <2>6
  <2> QED  BY <2>3, <2>5
<1>2. fits(merged)
  <2>1. ~fires => fits(d)
    OBVIOUS
  <2> HIDE DEF fits
  <2> QED  BY <1>1, <2>1
<1>3. made = IF finding.tight /\ d.loose # Unknown THEN [merged EXCEPT !.loose = @ \ {c}] ELSE merged
  BY DEF ContractChild
<1>4. merged.loose \ {c} = Unknown \/ merged.loose \ {c} \subseteq Internal \ {Root}
  <2>1. merged.loose = Unknown \/ merged.loose \subseteq Internal \ {Root}
    <3> HIDE DEF merged
    <3> QED  BY <1>2, SoundIs
  <2>2. c # -1
    BY InternalIs
  <2> HIDE DEF merged
  <2>3. merged.loose = Unknown => merged.loose \ {c} = Unknown
    BY <2>2 DEF Unknown
  <2> QED  BY <2>1, <2>3
<1> HIDE DEF merged, made
<1>5. /\ Sound([merged EXCEPT !.loose = merged.loose \ {c}])
      /\ [merged EXCEPT !.loose = merged.loose \ {c}].levels = merged.levels
      /\ [merged EXCEPT !.loose = merged.loose \ {c}].out = merged.out
  BY <1>2, <1>4, WithLoose
<1>6. fits([merged EXCEPT !.loose = merged.loose \ {c}])
  BY <1>2, <1>5
<1>7. fits(made)
  <2> HIDE DEF fits
  <2> QED  BY <1>2, <1>3, <1>6
<1> QED  BY <1>7 DEF made

-------------------------------------------------------------------------------
(* The leaf pass. *)

\* A changed level in its diagram.
Releveled(d, t, node) == [Invalidate(d, {t}) EXCEPT !.levels = [@ EXCEPT ![t] = node]]

\* A diagram one level of which changed.
LEMMA ReleveledIs ==
  ASSUME NEW d, d = Diagram(d.levels, d.out, d.contract, d.leaves, d.loose, d.certified), NEW t, NEW node
  PROVE  Releveled(d, t, node)
           = Diagram([d.levels EXCEPT ![t] = node], d.out, d.contract \cup {t}, d.leaves \cup {t}, Unknown, FALSE)
<1> DEFINE cs == d.contract \cup {t}
           vs == d.leaves \cup {t}
           no == FALSE
           new == [d.levels EXCEPT ![t] = node]
           base == Invalidate(d, {t})
<1>1. base = Diagram(d.levels, d.out, cs, vs, Unknown, no)
  BY DEF Invalidate, Diagram
<1> HIDE DEF cs, vs, no, base
<1>2. base.levels = d.levels
  BY <1>1 DEF Diagram
<1>3. Releveled(d, t, node) = [base EXCEPT !.levels = new]
  BY <1>2 DEF Releveled, base
<1> HIDE DEF new
<1>4. [base EXCEPT !.levels = new] = Diagram(new, d.out, cs, vs, Unknown, no)
  BY <1>1 DEF Diagram
<1>5. Releveled(d, t, node) = Diagram(new, d.out, cs, vs, Unknown, no)
  BY <1>3, <1>4
<1> QED  BY <1>5 DEF new, cs, vs, no

\* A level whose pairs come to name a leaf as One.
Ones(d, t, c, node) ==
  /\ IsSequence(node) /\ DOMAIN node = DOMAIN d.levels[t]
  /\ \A k \in DOMAIN node : \A q \in node[k] : \E p \in d.levels[t][k] : q = Renamed(p, c, One)
  /\ t # Root => \A i, j \in DOMAIN node : i # j => node[i] \cap node[j] = {}

\* A level whose pairs come to name a leaf as One stays sound.
LEMMA ReleveledSound ==
  ASSUME NEW d, Sound(d), NEW t \in Internal, NEW c \in Children(t), c \in Leaf,
         NEW node, Ones(d, t, c, node)
  PROVE  LET made == Releveled(d, t, node)
         IN  /\ Sound(made) /\ made.out = d.out
             /\ \A u \in Internal : DOMAIN made.levels[u] = DOMAIN d.levels[u]
             /\ made.levels[t] = node /\ \A u \in Internal \ {t} : made.levels[u] = d.levels[u]
<1> DEFINE new == [d.levels EXCEPT ![t] = node]
           s == Sibling(c)
           cs == d.contract \cup {t}
           vs == d.leaves \cup {t}
           no == FALSE
<1>0. /\ IsSequence(node) /\ DOMAIN node = DOMAIN d.levels[t]
      /\ \A k \in DOMAIN node : \A q \in node[k] : \E p \in d.levels[t][k] : q = Renamed(p, c, One)
      /\ t # Root => \A i, j \in DOMAIN node : i # j => node[i] \cap node[j] = {}
  BY DEF Ones
<1>1. /\ d = Diagram(d.levels, d.out, d.contract, d.leaves, d.loose, d.certified)
      /\ InRange(d.levels) /\ Deterministic(d.levels) /\ d.out \in {Zero} \cup DOMAIN d.levels[Root]
      /\ d.contract \subseteq Internal /\ d.leaves \subseteq Internal
  BY SoundIs
<1>2. DOMAIN d.levels = Internal
  BY <1>1 DEF InRange
<1>3. new[t] = node /\ \A u \in Internal \ {t} : new[u] = d.levels[u]
  BY <1>2
<1>4. new = [u \in Internal |-> new[u]]
  BY <1>2
<1>6. Releveled(d, t, node) = Diagram(new, d.out, cs, vs, Unknown, no)
  BY <1>1, ReleveledIs
<1> HIDE DEF new, no, cs, vs
<1>7. \A u \in Internal : DOMAIN new[u] = DOMAIN d.levels[u]
  BY <1>0, <1>3
<1>8. \A u \in Vtree : Slots(new, u) = Slots(d.levels, u)
  BY <1>7 DEF Slots, Vtree
<1>9. s \in Children(t) /\ s \in Vtree /\ c \in Vtree
  BY SiblingOf, ParentOf
<1>10. ASSUME NEW k \in DOMAIN node, NEW q \in node[k]
       PROVE  \E p \in d.levels[t][k] :
                /\ q = <<q[1], q[2]>> /\ q[Side(c)] = 3 /\ q[Side(s)] = p[Side(s)]
                /\ p[Side(s)] \in Slots(d.levels, s)
  <2>1. PICK p \in d.levels[t][k] : q = Renamed(p, c, One)
    BY <1>0
  <2>2. q = <<q[1], q[2]>> /\ q[Side(c)] = One /\ q[Side(s)] = p[Side(s)]
    BY <2>1, RenamedIs
  <2>3. p[Side(s)] \in Slots(d.levels, s)
    BY <1>0, <1>1, SidesIs
  <2> QED  BY <2>2, <2>3 DEF One
<1>11. InRange(new)
  <2>1. \A u \in Internal : IsSequence(new[u])
    <3>1. \A u \in Internal : IsSequence(d.levels[u])
      <4>1. ASSUME NEW u \in Internal PROVE IsSequence(d.levels[u])
        <5>1. d.levels[u] \in Seq(SUBSET (Nat \X Nat)) /\ Len(d.levels[u]) \in Nat
          BY <1>1, LevelIs
        <5>2. d.levels[u] = [k \in 1 .. Len(d.levels[u]) |-> d.levels[u][k]]
          BY <5>1
        <5>3. DOMAIN d.levels[u] = 1 .. Len(d.levels[u])
          BY <5>1
        <5> QED  BY <5>1, <5>2, <5>3 DEF IsSequence
      <4> QED  BY <4>1
    <3> QED  BY <1>0, <1>3, <3>1
  <2>2. ASSUME NEW u \in Internal, NEW k \in DOMAIN new[u], NEW q \in new[u][k]
        PROVE  q = <<q[1], q[2]>> /\ q[1] \in Slots(new, Left[u]) /\ q[2] \in Slots(new, Right[u])
    <3>0. Left[u] \in Vtree /\ Right[u] \in Vtree
      BY InternalIs
    <3>1. CASE u = t
      <4>1. k \in DOMAIN node /\ q \in node[k]
        BY <1>3, <3>1
      <4>2. q = <<q[1], q[2]>> /\ q[Side(c)] = 3 /\ q[Side(s)] \in Slots(d.levels, s)
        BY <4>1, <1>10
      <4>3. q[Side(c)] \in Slots(d.levels, c)
        BY <4>2, LeafSlots
      <4>4. q[1] \in Slots(d.levels, Left[t]) /\ q[2] \in Slots(d.levels, Right[t])
        BY <4>2, <4>3, SlotsSides
      <4> QED  BY <4>2, <4>4, <3>0, <3>1, <1>8
    <3>2. CASE u # t
      <4>1. k \in DOMAIN d.levels[u] /\ q \in d.levels[u][k]
        BY <1>3, <3>2
      <4> QED  BY <4>1, <1>1, PairIs, <3>0, <1>8
    <3> QED  BY <3>1, <3>2
  <2> QED  BY <1>4, <2>1, <2>2, InRangeFrom
<1>12. Deterministic(new)
  <2>1. ASSUME NEW u \in Internal, NEW i \in DOMAIN new[u], NEW j \in DOMAIN new[u]
        PROVE  /\ u # Root /\ i # j => new[u][i] \cap new[u][j] = {}
               /\ u # Root \/ i = j => OneForm(u, new[u][i], new[u][j])
    <3>1. CASE u = t
      <4>1. i \in DOMAIN node /\ j \in DOMAIN node /\ new[u] = node
        BY <1>3, <3>1
      <4>2. ASSUME t # Root \/ i = j PROVE OneForm(t, node[i], node[j])
        <5>1. OneForm(t, d.levels[t][i], d.levels[t][j])
          BY <1>0, <1>1, <4>1, <4>2, DeterministicIs
        <5>2. ASSUME NEW p \in node[i], NEW q \in node[j]
              PROVE  /\ c \in Leaf => (p[Side(c)] = 3 <=> q[Side(c)] = 3)
                     /\ s \in Leaf => (p[Side(s)] = 3 <=> q[Side(s)] = 3)
          <6>1. PICK p0 \in d.levels[t][i] : p[Side(c)] = 3 /\ p[Side(s)] = p0[Side(s)]
            BY <1>10, <4>1
          <6>2. PICK q0 \in d.levels[t][j] : q[Side(c)] = 3 /\ q[Side(s)] = q0[Side(s)]
            BY <1>10, <4>1
          <6>3. s \in Leaf => (p0[Side(s)] = 3 <=> q0[Side(s)] = 3)
            BY <5>1, OneFormSides
          <6> QED  BY <6>1, <6>2, <6>3
        <5> QED  BY <5>2, OneFormSides
      <4> QED  BY <1>0, <3>1, <4>1, <4>2
    <3>2. CASE u # t
      BY <1>1, <1>3, <3>2, DeterministicIs
    <3> QED  BY <3>1, <3>2
  <2> QED  BY <2>1, DeterministicIs
<1>13. Sound(Diagram(new, d.out, cs, vs, Unknown, no))
  <2>1. d.out \in {Zero} \cup DOMAIN new[Root]
    BY <1>1, <1>7, RootIs
  <2>2. cs \subseteq Internal /\ vs \subseteq Internal
    BY <1>1 DEF cs, vs
  <2>3. no \in BOOLEAN /\ ~no
    BY DEF no
  <2> QED  BY <1>11, <1>12, <2>1, <2>2, <2>3, SoundDiagram
<1>14. /\ Diagram(new, d.out, cs, vs, Unknown, no).levels = new
       /\ Diagram(new, d.out, cs, vs, Unknown, no).out = d.out
  BY DEF Diagram
<1> QED  BY <1>3, <1>6, <1>7, <1>13, <1>14

\* A leaf's two polarities become One.
LEMMA ContractLeafSound ==
  ASSUME NEW d, Sound(d), NEW t \in Internal, NEW c \in Children(t), c \in Leaf
  PROVE  /\ Sound(ContractLeaf(d, c)) /\ ContractLeaf(d, c).out = d.out
         /\ \A u \in Internal : DOMAIN ContractLeaf(d, c).levels[u] = DOMAIN d.levels[u]
<1> DEFINE level == d.levels[t]
           node == [k \in DOMAIN level |-> {Renamed(pair, c, One) : pair \in level[k]}]
           made == Releveled(d, t, node)
<1>0. Parent[c] = t
  BY ParentOf
<1>1. ContractLeaf(d, c) = IF LeafTwins(d.levels, c) THEN made ELSE d
  BY <1>0 DEF ContractLeaf, Releveled
<1>2. CASE ~LeafTwins(d.levels, c)
  BY <1>1, <1>2
<1>3. CASE LeafTwins(d.levels, c)
  <2>1. \A i \in DOMAIN level : Admits(level[i], c)
    BY <1>0, <1>3 DEF LeafTwins
  <2>2. InRange(d.levels) /\ Deterministic(d.levels)
    BY SoundIs
  <2>3. DOMAIN level = 1 .. Len(level) /\ Len(level) \in Nat
    BY <2>2, LevelIs
  <2>4. DOMAIN node = DOMAIN level /\ IsSequence(node)
    BY <2>3 DEF IsSequence
  <2>5. \A k \in DOMAIN node : \A q \in node[k] : \E p \in level[k] : q = Renamed(p, c, One)
    OBVIOUS
  <2>6. ASSUME t # Root, NEW i \in DOMAIN level, NEW j \in DOMAIN level, i # j, NEW q \in node[i], q \in node[j]
        PROVE  FALSE
    <3>1. PICK p1 \in level[i] : q = Renamed(p1, c, One)
      BY <2>4, <2>5
    <3>2. PICK p2 \in level[j] : q = Renamed(p2, c, One)
      BY <2>4, <2>5, <2>6
    <3> HIDE DEF node
    <3>a. Renamed(p1, c, One)[Side(Sibling(c))] = p1[Side(Sibling(c))]
      BY RenamedIs
    <3>b. Renamed(p2, c, One)[Side(Sibling(c))] = p2[Side(Sibling(c))]
      BY RenamedIs
    <3>3. p1[Side(Sibling(c))] = p2[Side(Sibling(c))]
      BY <3>1, <3>2, <3>a, <3>b
    <3>4. level[i] \cap level[j] = {} /\ OneForm(t, level[i], level[j])
      BY <2>2, <2>6, DeterministicIs
    <3>5. p1[Side(c)] = 3 <=> p2[Side(c)] = 3
      BY <3>4, OneFormSides
    <3>6. p1[Side(c)] \in {1, 2, 3} /\ p2[Side(c)] \in {1, 2, 3}
      BY <2>2, SidesIs, LeafSlots
    <3>7. CASE p1[Side(c)] = p2[Side(c)]
      BY <3>3, <3>4, <3>7, <2>2, SidesIs
    <3>8. CASE p1[Side(c)] # p2[Side(c)]
      <4> DEFINE half == 3 - Side(c)
      <4>1. half = Side(Sibling(c))
        <5>1. c = Left[t] \/ c = Right[t]
          BY DEF Children
        <5> QED  BY <5>1, SiblingOf
      <4>2. \A ref : Partners(level[i], c, ref) = {p[half] : p \in {x \in level[i] : x[Side(c)] = ref}}
        BY DEF Partners
      <4> HIDE DEF half
      <4>3. p1[Side(c)] \in {1, 2} /\ p2[Side(c)] \in {1, 2}
        BY <3>5, <3>6, <3>8
      <4>4. p1[half] \in Partners(level[i], c, p1[Side(c)])
        BY <4>2
      <4>5. Partners(level[i], c, 1) = Partners(level[i], c, 2)
        BY <2>1, <4>3, <4>4 DEF Admits, Pos, Neg
      <4>6. p1[half] \in Partners(level[i], c, p2[Side(c)])
        BY <4>3, <4>4, <4>5
      <4>7. PICK p \in level[i] : p[Side(c)] = p2[Side(c)] /\ p[half] = p1[half]
        BY <4>2, <4>6
      <4>8. p = p2
        BY <4>1, <4>7, <3>3, <2>2, SidesIs
      <4> QED  BY <4>8, <3>4
    <3> QED  BY <3>7, <3>8
  <2> HIDE DEF node, made
  <2>7. t # Root => \A i, j \in DOMAIN node : i # j => node[i] \cap node[j] = {}
    BY <2>4, <2>6
  <2>9. DOMAIN node = DOMAIN d.levels[t] /\ \A k \in DOMAIN node : \A q \in node[k] : \E p \in d.levels[t][k] : q = Renamed(p, c, One)
    BY <2>4, <2>5
  <2>10. Ones(d, t, c, node)
    BY <2>4, <2>9, <2>7 DEF Ones
  <2> HIDE DEF level
  <2>8. /\ Sound(made) /\ made.out = d.out
        /\ \A u \in Internal : DOMAIN made.levels[u] = DOMAIN d.levels[u]
    BY <2>10, ReleveledSound DEF made
  <2> HIDE DEF made
  <2> QED  BY <2>8, <1>1, <1>3
<1> QED  BY <1>2, <1>3

\* The leaf pass at one level leaves a sound diagram (contract/leaf).
LEMMA ContractLeafSidesSound ==
  ASSUME NEW d, Sound(d), NEW t \in Internal
  PROVE  /\ Sound(ContractLeafSides(d, t)) /\ ContractLeafSides(d, t).out = d.out
         /\ \A u \in Internal : DOMAIN ContractLeafSides(d, t).levels[u] = DOMAIN d.levels[u]
<1> DEFINE left == IF Left[t] \in Leaf THEN ContractLeaf(d, Left[t]) ELSE d
<1>0. Left[t] \in Children(t) /\ Right[t] \in Children(t)
  BY DEF Children
<1>1. Sound(left) /\ left.out = d.out /\ \A u \in Internal : DOMAIN left.levels[u] = DOMAIN d.levels[u]
  <2>1. CASE Left[t] \in Leaf
    BY <1>0, <2>1, ContractLeafSound
  <2> QED  BY <2>1
<1>2. ContractLeafSides(d, t) = IF Right[t] \in Leaf THEN ContractLeaf(left, Right[t]) ELSE left
  BY DEF ContractLeafSides
<1> HIDE DEF left
<1>3. CASE Right[t] \in Leaf
  BY <1>0, <1>1, <1>2, <1>3, ContractLeafSound
<1> QED  BY <1>1, <1>2, <1>3

-------------------------------------------------------------------------------
(* Conjunction (apply/conjoin): the numbering of products. *)

\* Division with remainder.
LEMMA DivMod ==
  ASSUME NEW n \in Nat, n # 0, NEW x \in Nat
  PROVE  /\ x \div n \in Nat /\ x % n \in 0 .. (n - 1) /\ x = n * (x \div n) + (x % n)
OBVIOUS

\* Quotient and remainder are unique.
LEMMA DivModOf ==
  ASSUME NEW n \in Nat, n # 0, NEW a \in Nat, NEW b \in 0 .. (n - 1), NEW q \in Nat, NEW r \in 0 .. (n - 1),
         n * a + b = n * q + r
  PROVE  a = q /\ b = r
<1>1. CASE a < q
  <2>1. n * (q - a) >= n
    BY <1>1
  <2> QED  BY <2>1, <1>1
<1>2. CASE q < a
  <2>1. n * (a - q) >= n
    BY <1>2
  <2> QED  BY <2>1, <1>2
<1> QED  BY <1>1, <1>2

\* Row order counts every product once.
LEMMA ProductAtIs ==
  ASSUME NEW G, NEW k \in Nat, Len(G) \in Nat
  PROVE  /\ \A m \in 1 .. k * Len(G) : /\ ProductAt(G, m) = <<ProductAt(G, m)[1], ProductAt(G, m)[2]>>
                                       /\ ProductAt(G, m)[1] \in 1 .. k /\ ProductAt(G, m)[2] \in 1 .. Len(G)
         /\ \A i \in 1 .. k, j \in 1 .. Len(G) : \E m \in 1 .. k * Len(G) : ProductAt(G, m) = <<i, j>>
         /\ \A m, o \in 1 .. k * Len(G) : ProductAt(G, m) = ProductAt(G, o) => m = o
<1> DEFINE n == Len(G)
<1>1. \A m : ProductAt(G, m) = <<((m - 1) \div n) + 1, ((m - 1) % n) + 1>>
  BY DEF ProductAt
<1>0. n \in Nat
  OBVIOUS
<1> HIDE DEF n
<1>2. k * n \in Nat
  BY <1>0
<1>3. ASSUME NEW m \in 1 .. k * n
      PROVE  /\ n # 0 /\ m - 1 \in Nat /\ (m - 1) \div n \in Nat /\ (m - 1) % n \in 0 .. (n - 1)
             /\ m - 1 = n * ((m - 1) \div n) + ((m - 1) % n) /\ (m - 1) \div n < k
  <2>1. n # 0
    BY <1>0
  <2>2. m - 1 \in Nat /\ m - 1 < k * n
    BY <1>2
  <2>3. /\ (m - 1) \div n \in Nat /\ (m - 1) % n \in 0 .. (n - 1)
        /\ m - 1 = n * ((m - 1) \div n) + ((m - 1) % n)
    BY <1>0, <2>1, <2>2, DivMod
  <2> DEFINE q == (m - 1) \div n
             r == (m - 1) % n
             x == m - 1
  <2>4. q \in Nat /\ r \in Nat /\ n * q + r < k * n
    BY <2>2, <2>3, <1>0
  <2> HIDE DEF q, r, x
  <2>5. q < k
    <3>1. SUFFICES ASSUME q >= k PROVE FALSE
      BY <2>4
    <3>2. n * (q - k) >= 0
      BY <3>1, <2>4, <1>0
    <3>3. n * q >= n * k /\ n * k = k * n
      BY <3>2, <2>4, <1>0
    <3> QED  BY <3>3, <2>4, <1>0
  <2> QED  BY <2>1, <2>2, <2>3, <2>5 DEF q
<1>4. ASSUME NEW m \in 1 .. k * n
      PROVE  /\ ProductAt(G, m) = <<ProductAt(G, m)[1], ProductAt(G, m)[2]>>
             /\ ProductAt(G, m)[1] \in 1 .. k /\ ProductAt(G, m)[2] \in 1 .. n
  <2> DEFINE q == (m - 1) \div n
             r == (m - 1) % n
  <2>1. q \in Nat /\ r \in 0 .. (n - 1) /\ q < k
    BY <1>3
  <2>2. ProductAt(G, m) = <<q + 1, r + 1>>
    BY <1>1
  <2> HIDE DEF q, r
  <2>3. q + 1 \in 1 .. k /\ r + 1 \in 1 .. n
    BY <2>1, <1>0
  <2> QED  BY <2>2, <2>3
<1>5. ASSUME NEW i \in 1 .. k, NEW j \in 1 .. n
      PROVE  \E m \in 1 .. k * n : ProductAt(G, m) = <<i, j>>
  <2> DEFINE x == n * (i - 1) + (j - 1)
  <2>1. n # 0 /\ i - 1 \in Nat /\ j - 1 \in 0 .. (n - 1)
    BY <1>0
  <2>2. x \in Nat
    BY <1>0
  <2>3. x < k * n
    <3>1. n * (i - 1) + n <= k * n
      <4>1. n * (k - i) >= 0
        BY <1>0
      <4> QED  BY <4>1, <1>0
    <3>2. n * (i - 1) \in Nat
      BY <1>0
    <3> QED  BY <3>1, <3>2, <1>0
  <2>4. /\ x \div n \in Nat /\ x % n \in 0 .. (n - 1) /\ x = n * (x \div n) + (x % n)
    <3> HIDE DEF x
    <3> QED  BY <2>1, <2>2, <1>0, DivMod
  <2>5. x \div n = i - 1 /\ x % n = j - 1
    <3> DEFINE q == x \div n
               r == x % n
               a == i - 1
               b == j - 1
    <3>1. n * a + b = n * q + r /\ q \in Nat /\ r \in 0 .. (n - 1) /\ a \in Nat /\ b \in 0 .. (n - 1)
      BY <2>1, <2>4
    <3> HIDE DEF q, r, a, b, x
    <3>2. a = q /\ b = r
      BY <3>1, <2>1, <1>0, DivModOf
    <3> QED  BY <3>2 DEF q, r, a, b
  <2> HIDE DEF x
  <2>6. x + 1 \in 1 .. k * n
    BY <2>2, <2>3, <1>2
  <2>7. (x + 1) - 1 = x
    BY <2>2
  <2>8. ProductAt(G, x + 1) = <<(x \div n) + 1, (x % n) + 1>>
    BY <2>7, <1>1
  <2>9. (i - 1) + 1 = i /\ (j - 1) + 1 = j
    BY <1>0
  <2>10. ProductAt(G, x + 1) = <<i, j>>
    BY <2>5, <2>8, <2>9
  <2> QED  BY <2>6, <2>10
<1>6. ASSUME NEW m \in 1 .. k * n, NEW o \in 1 .. k * n, ProductAt(G, m) = ProductAt(G, o)
      PROVE  m = o
  <2> DEFINE q == (m - 1) \div n
             r == (m - 1) % n
             u == (o - 1) \div n
             v == (o - 1) % n
  <2>1. q \in Nat /\ r \in Nat /\ u \in Nat /\ v \in Nat /\ m - 1 = n * q + r /\ o - 1 = n * u + v
    BY <1>0, <1>3
  <2>2. <<q + 1, r + 1>> = <<u + 1, v + 1>>
    BY <1>1, <1>6
  <2> HIDE DEF q, r, u, v
  <2>3. q = u /\ r = v
    BY <2>1, <2>2
  <2>4. m - 1 = o - 1
    BY <2>1, <2>3
  <2> QED  BY <2>4, <1>2
<1> QED  BY <1>4, <1>5, <1>6 DEF n

\* The sweep's values, each from the children's.
LEMMA SweepIs ==
  ASSUME NEW f, NEW g
  PROVE  LET swept == Sweep(f, g, {})
         IN  /\ \A t \in Leaf : swept[t] = SweptLeaf(f, g, t)
             /\ \A t \in Internal : swept[t] = SweptLevel(f, g, {}, t, swept[Left[t]], swept[Right[t]])
<1> DEFINE At1(s, t) == SweptLevel(f, g, {}, t, s[Left[t]], s[Right[t]])
           solved(s, n) == /\ \A t \in Leaf : s[t] = SweptLeaf(f, g, t)
                           /\ \A t \in Internal : t < n => s[t] = At1(s, t)
           is(s) == s = [t \in Vtree |-> s[t]]
           bad == {n \in Nat : ~\E s : is(s) /\ solved(s, n)}
<1>0. \A t \in Internal : /\ t \in Nat /\ t <= Root /\ t \notin Leaf /\ Left[t] \in Vtree /\ Right[t] \in Vtree
                          /\ Left[t] < t /\ Right[t] < t /\ Left[t] \in Nat /\ Right[t] \in Nat
  BY InternalIs
<1>1. 0 \notin bad
  <2> DEFINE s == [t \in Vtree |-> SweptLeaf(f, g, t)]
  <2>1. is(s)
    OBVIOUS
  <2>2. \A t \in Leaf : s[t] = SweptLeaf(f, g, t)
    BY DEF Vtree
  <2>3. \A t \in Internal : ~(t < 0)
    BY <1>0
  <2> HIDE DEF s
  <2>4. solved(s, 0)
    BY <2>2, <2>3
  <2> QED  BY <2>1, <2>4
<1>2. ASSUME NEW n \in Nat, n + 1 \in bad PROVE n \in bad
  <2>1. SUFFICES ASSUME NEW s, is(s), solved(s, n) PROVE n + 1 \notin bad
    BY <1>2
  <2> DEFINE r == [t \in Vtree |-> IF t \in Internal /\ t = n THEN At1(s, t) ELSE s[t]]
  <2>2. is(r)
    OBVIOUS
  <2>3. \A t \in Vtree : t # n => r[t] = s[t]
    OBVIOUS
  <2>4. \A t \in Internal : t = n => r[t] = At1(s, t)
    BY DEF Vtree
  <2> HIDE DEF r, is
  <2>5. \A t \in Leaf : r[t] = SweptLeaf(f, g, t)
    <3>1. ASSUME NEW t \in Leaf PROVE r[t] = SweptLeaf(f, g, t)
      <4>1. r[t] = s[t]
        <5>1. t \notin Internal /\ t \in Vtree
          BY <1>0 DEF Vtree
        <5> QED  BY <5>1 DEF r
      <4> QED  BY <4>1, <2>1
    <3> QED  BY <3>1
  <2>6. ASSUME NEW t \in Internal, t < n + 1 PROVE r[t] = At1(r, t)
    <3>0. t \in Nat /\ t \in Vtree
      BY <1>0 DEF Vtree
    <3>1. r[Left[t]] = s[Left[t]] /\ r[Right[t]] = s[Right[t]]
      <4>1. Left[t] # n /\ Right[t] # n
        BY <1>0, <2>6
      <4> QED  BY <4>1, <1>0, <2>3
    <3>2. At1(r, t) = At1(s, t)
      BY <3>1
    <3>3. CASE t = n
      BY <3>2, <3>3, <2>4
    <3>4. CASE t # n
      <4>1. t < n
        BY <3>4, <2>6, <3>0
      <4>2. s[t] = At1(s, t)
        BY <4>1, <2>1
      <4> QED  BY <4>2, <3>0, <3>2, <3>4, <2>3
    <3> QED  BY <3>3, <3>4
  <2>7. solved(r, n + 1)
    BY <2>5, <2>6
  <2> QED  BY <2>2, <2>7
<1>3. bad = {}
  <2>1. SUFFICES ASSUME bad # {} PROVE FALSE
    OBVIOUS
  <2>2. bad \subseteq Nat
    OBVIOUS
  <2> HIDE DEF bad
  <2>3. PICK n \in bad : \A k \in bad : n <= k
    BY <2>1, <2>2, LeastNumber
  <2>4. n \in Nat /\ n # 0
    BY <2>2, <1>1
  <2>5. n - 1 \in Nat /\ (n - 1) + 1 = n
    BY <2>4
  <2>6. n - 1 \in bad
    BY <2>5, <1>2
  <2> QED  BY <2>6, <2>3, <2>4
<1>4. Root + 1 \in Nat /\ \A t \in Internal : t < Root + 1
  BY <1>0, RootIs
<1>5. \E s : is(s) /\ solved(s, Root + 1)
  BY <1>3, <1>4
<1>6. \E s : /\ is(s)
             /\ \A t \in Leaf : s[t] = SweptLeaf(f, g, t)
             /\ \A t \in Internal : s[t] = At1(s, t)
  BY <1>4, <1>5
<1> DEFINE step(s) == [t \in Leaf \cup Internal |->
                         IF t \in Leaf THEN SweptLeaf(f, g, t) ELSE At1(s, t)]
<1>7. \E s : s = step(s)
  <2>1. PICK s : is(s) /\ (\A t \in Leaf : s[t] = SweptLeaf(f, g, t)) /\ \A t \in Internal : s[t] = At1(s, t)
    BY <1>6
  <2>2. \A t \in Vtree : s[t] = IF t \in Leaf THEN SweptLeaf(f, g, t) ELSE At1(s, t)
    BY <2>1 DEF Vtree
  <2>3. s = [t \in Vtree |-> IF t \in Leaf THEN SweptLeaf(f, g, t) ELSE At1(s, t)]
    BY <2>1, <2>2
  <2> QED  BY <2>3 DEF Vtree
<1> DEFINE swept == CHOOSE s : s = step(s)
<1>8. Sweep(f, g, {}) = swept
  BY TableIs DEF Sweep
<1>9. swept = step(swept)
  <2> HIDE DEF step
  <2> QED  BY <1>7
<1> HIDE DEF swept
<1>10. \A t \in Leaf : swept[t] = SweptLeaf(f, g, t)
  BY <1>9
<1>11. \A t \in Internal : swept[t] = At1(swept, t)
  BY <1>0, <1>9
<1> QED  BY <1>8, <1>10, <1>11

\* A level numbered from one, and a table over two of them.
Numbered(F) == Len(F) \in Nat /\ DOMAIN F = 1 .. Len(F)
OnGrid(pairs, F, G) == DOMAIN pairs = (DOMAIN F) \X (DOMAIN G)

\* The products of a built level that are not false, in order.
LEMMA BuiltLevelIs ==
  ASSUME NEW F, NEW G, Numbered(F), Numbered(G),
         NEW pairs, OnGrid(pairs, F, G)
  PROVE  LET made == BuiltLevel(F, G, pairs)
         IN  /\ ~made.fIs /\ ~made.gIs
             /\ IsSequence(made.level)
             /\ \A k \in DOMAIN made.level : \E i \in DOMAIN F, j \in DOMAIN G :
                  made.level[k] = pairs[<<i, j>>] /\ made.at[<<i, j>>] = k
             /\ \A i \in DOMAIN F, j \in DOMAIN G : made.at[<<i, j>>] \in {0} \cup DOMAIN made.level
             /\ \A i, a \in DOMAIN F, j, b \in DOMAIN G :
                  made.at[<<i, j>>] = made.at[<<a, b>>] /\ made.at[<<i, j>>] # 0 => i = a /\ j = b
             /\ \A i \in DOMAIN F, j \in DOMAIN G : made.at[<<i, j>>] = 0 <=> pairs[<<i, j>>] = {}
<1>n. Len(F) \in Nat /\ Len(G) \in Nat /\ DOMAIN F = 1 .. Len(F) /\ DOMAIN G = 1 .. Len(G)
  BY DEF Numbered
<1>1. /\ \A m \in 1 .. Len(F) * Len(G) : /\ ProductAt(G, m) = <<ProductAt(G, m)[1], ProductAt(G, m)[2]>>
                                         /\ ProductAt(G, m)[1] \in DOMAIN F /\ ProductAt(G, m)[2] \in DOMAIN G
      /\ \A i \in DOMAIN F, j \in DOMAIN G : \E m \in 1 .. Len(F) * Len(G) : ProductAt(G, m) = <<i, j>>
      /\ \A m, o \in 1 .. Len(F) * Len(G) : ProductAt(G, m) = ProductAt(G, o) => m = o
  <2> DEFINE k == Len(F)
  <2>0. k \in Nat
    BY <1>n
  <2> HIDE DEF k
  <2>1. /\ \A m \in 1 .. k * Len(G) : /\ ProductAt(G, m) = <<ProductAt(G, m)[1], ProductAt(G, m)[2]>>
                                       /\ ProductAt(G, m)[1] \in 1 .. k /\ ProductAt(G, m)[2] \in 1 .. Len(G)
        /\ \A i \in 1 .. k, j \in 1 .. Len(G) : \E m \in 1 .. k * Len(G) : ProductAt(G, m) = <<i, j>>
        /\ \A m, o \in 1 .. k * Len(G) : ProductAt(G, m) = ProductAt(G, o) => m = o
    BY <2>0, <1>n, ProductAtIs
  <2> QED  BY <2>1, <1>n DEF k
<1> DEFINE keep == {m \in 1 .. Len(F) * Len(G) : pairs[ProductAt(G, m)] # {}}
           order == Ascending(keep)
           K == Cardinality(keep)
           made == BuiltLevel(F, G, pairs)
           level == [k \in DOMAIN order |-> pairs[ProductAt(G, order[k])]]
           at == [ij \in DOMAIN pairs |->
                    IF pairs[ij] = {} THEN 0 ELSE CHOOSE k \in DOMAIN order : ProductAt(G, order[k]) = ij]
<1>0. DOMAIN pairs = (DOMAIN F) \X (DOMAIN G)
  BY DEF OnGrid
<1>2. keep \subseteq 1 .. Len(F) * Len(G) /\ keep \subseteq Nat /\ IsFiniteSet(keep)
  <2>1. Len(F) * Len(G) \in Nat
    BY <1>n
  <2>2. IsFiniteSet(1 .. Len(F) * Len(G))
    BY <2>1, UpToFinite
  <2>3. keep \subseteq 1 .. Len(F) * Len(G)
    OBVIOUS
  <2> DEFINE n == Len(F) * Len(G)
  <2> HIDE DEF keep
  <2>4. IsFiniteSet(keep)
    BY <2>2, <2>3, FS_Subset
  <2>5. 1 .. n \subseteq Nat
    OBVIOUS
  <2> QED  BY <2>3, <2>4, <2>5
<1>3. \A m \in keep : pairs[ProductAt(G, m)] # {}
  OBVIOUS
<1>4. \A i \in DOMAIN F, j \in DOMAIN G : pairs[<<i, j>>] # {} => \E m \in keep : ProductAt(G, m) = <<i, j>>
  BY <1>1
<1>5. ~made.fIs /\ ~made.gIs /\ made.level = level /\ made.at = at
  BY TableIs DEF BuiltLevel
<1> HIDE DEF keep, made
<1>6. /\ K \in Nat /\ DOMAIN order = 1 .. K
      /\ \A k \in 1 .. K : order[k] \in keep /\ Rank(keep, order[k]) = k
      /\ \A m \in keep : Rank(keep, m) \in 1 .. K /\ order[Rank(keep, m)] = m
  BY <1>2, AscendingIs
<1> HIDE DEF order, K
<1>7. DOMAIN level = 1 .. K /\ IsSequence(level)
  BY <1>6 DEF IsSequence
<1>8. \A k \in 1 .. K : level[k] = pairs[ProductAt(G, order[k])]
  BY <1>6
<1>9. \A i \in DOMAIN F, j \in DOMAIN G :
        at[<<i, j>>] = IF pairs[<<i, j>>] = {} THEN 0
                       ELSE CHOOSE k \in DOMAIN order : ProductAt(G, order[k]) = <<i, j>>
  <2>1. ASSUME NEW i \in DOMAIN F, NEW j \in DOMAIN G
        PROVE  at[<<i, j>>] = IF pairs[<<i, j>>] = {} THEN 0
                              ELSE CHOOSE k \in DOMAIN order : ProductAt(G, order[k]) = <<i, j>>
    <3> DEFINE x == <<i, j>>
    <3>1. x \in DOMAIN pairs
      <4> HIDE DEF at, level
      <4> QED  BY <1>0
    <3> HIDE DEF x
    <3>2. at[x] = IF pairs[x] = {} THEN 0 ELSE CHOOSE k \in DOMAIN order : ProductAt(G, order[k]) = x
      BY <3>1
    <3> QED  BY <3>2 DEF x
  <2> QED  BY <2>1
<1> HIDE DEF level, at
<1>10. ASSUME NEW i \in DOMAIN F, NEW j \in DOMAIN G, pairs[<<i, j>>] # {}
       PROVE  at[<<i, j>>] \in 1 .. K /\ ProductAt(G, order[at[<<i, j>>]]) = <<i, j>>
  <2>1. PICK m \in keep : ProductAt(G, m) = <<i, j>>
    BY <1>4, <1>10
  <2>2. \E k \in DOMAIN order : ProductAt(G, order[k]) = <<i, j>>
    BY <2>1, <1>6
  <2>3. at[<<i, j>>] = CHOOSE k \in DOMAIN order : ProductAt(G, order[k]) = <<i, j>>
    BY <1>9, <1>10
  <2>4. at[<<i, j>>] \in DOMAIN order /\ ProductAt(G, order[at[<<i, j>>]]) = <<i, j>>
    BY <2>2, <2>3
  <2> QED  BY <2>4, <1>6
<1>11. ASSUME NEW k \in 1 .. K
       PROVE  \E i \in DOMAIN F, j \in DOMAIN G : level[k] = pairs[<<i, j>>] /\ at[<<i, j>>] = k
  <2>1. order[k] \in keep /\ order[k] \in 1 .. Len(F) * Len(G)
    BY <1>2, <1>6
  <2>2. PICK i \in DOMAIN F, j \in DOMAIN G : ProductAt(G, order[k]) = <<i, j>>
    BY <2>1, <1>1
  <2>3. level[k] = pairs[<<i, j>>] /\ pairs[<<i, j>>] # {}
    BY <2>1, <2>2, <1>3, <1>8
  <2>4. at[<<i, j>>] \in 1 .. K /\ ProductAt(G, order[at[<<i, j>>]]) = <<i, j>>
    BY <2>3, <1>10
  <2>5. order[at[<<i, j>>]] \in 1 .. Len(F) * Len(G)
    BY <2>4, <1>2, <1>6
  <2>6. order[at[<<i, j>>]] = order[k]
    BY <2>1, <2>2, <2>4, <2>5, <1>1
  <2>7. at[<<i, j>>] = k
    BY <2>4, <2>6, <1>6
  <2> QED  BY <2>3, <2>7
<1>12. ASSUME NEW i \in DOMAIN F, NEW j \in DOMAIN G
       PROVE  at[<<i, j>>] \in {0} \cup 1 .. K /\ (at[<<i, j>>] # 0 => pairs[<<i, j>>] # {})
  BY <1>9, <1>10
<1>13. ASSUME NEW i \in DOMAIN F, NEW a \in DOMAIN F, NEW j \in DOMAIN G, NEW b \in DOMAIN G,
              at[<<i, j>>] = at[<<a, b>>], at[<<i, j>>] # 0
       PROVE  i = a /\ j = b
  <2>1. ProductAt(G, order[at[<<i, j>>]]) = <<i, j>> /\ ProductAt(G, order[at[<<a, b>>]]) = <<a, b>>
    BY <1>10, <1>12, <1>13
  <2> QED  BY <2>1, <1>13
<1>14. DOMAIN made.level = 1 .. K
  BY <1>5, <1>7
<1>15. IsSequence(made.level)
  BY <1>5, <1>7
<1>16. \A k \in DOMAIN made.level : \E i \in DOMAIN F, j \in DOMAIN G :
         made.level[k] = pairs[<<i, j>>] /\ made.at[<<i, j>>] = k
  BY <1>5, <1>11, <1>14
<1>17. \A i \in DOMAIN F, j \in DOMAIN G : made.at[<<i, j>>] \in {0} \cup DOMAIN made.level
  BY <1>5, <1>12, <1>14
<1>18. \A i, a \in DOMAIN F, j, b \in DOMAIN G :
         made.at[<<i, j>>] = made.at[<<a, b>>] /\ made.at[<<i, j>>] # 0 => i = a /\ j = b
  BY <1>5, <1>13
<1>19. ~made.fIs /\ ~made.gIs
  BY <1>5
<1>20. \A i \in DOMAIN F, j \in DOMAIN G : made.at[<<i, j>>] = 0 <=> pairs[<<i, j>>] = {}
  <2>1. ASSUME NEW i \in DOMAIN F, NEW j \in DOMAIN G PROVE at[<<i, j>>] = 0 <=> pairs[<<i, j>>] = {}
    <3>1. pairs[<<i, j>>] = {} => at[<<i, j>>] = 0
      BY <1>9
    <3>2. pairs[<<i, j>>] # {} => at[<<i, j>>] # 0
      BY <1>6, <1>10
    <3> QED  BY <3>1, <3>2
  <2> QED  BY <1>5, <2>1
<1> QED  BY <1>15, <1>16, <1>17, <1>18, <1>19, <1>20 DEF made

\* The product of two pairs, where neither half is false.
Meets(l, r, x, y, q) == /\ q = <<l[<<x[1], y[1]>>], r[<<x[2], y[2]>>]>>
                        /\ l[<<x[1], y[1]>>] # 0 /\ r[<<x[2], y[2]>>] # 0

\* The pairs of a product, by the pairs they come from.
LEMMA ProductPairsHas ==
  ASSUME NEW l, NEW r, NEW a, NEW b, NEW q
  PROVE  q \in ProductPairs(l, r, a, b) <=> \E x \in a, y \in b : Meets(l, r, x, y, q)
<1> DEFINE met(pq) == <<l[<<pq[1][1], pq[2][1]>>], r[<<pq[1][2], pq[2][2]>>]>>
           both == {x \in a \X b : met(x)[1] # 0 /\ met(x)[2] # 0}
<1>1. ProductPairs(l, r, a, b) = {met(pq) : pq \in both}
  BY DEF ProductPairs
<1>2. ASSUME q \in ProductPairs(l, r, a, b)
      PROVE  \E x \in a, y \in b : /\ q = <<l[<<x[1], y[1]>>], r[<<x[2], y[2]>>]>>
                                   /\ l[<<x[1], y[1]>>] # 0 /\ r[<<x[2], y[2]>>] # 0
  <2>1. PICK pq \in both : q = met(pq)
    BY <1>1, <1>2
  <2>2. pq \in a \X b /\ met(pq)[1] # 0 /\ met(pq)[2] # 0
    OBVIOUS
  <2>3. pq[1] \in a /\ pq[2] \in b
    BY <2>2
  <2>4. l[<<pq[1][1], pq[2][1]>>] # 0 /\ r[<<pq[1][2], pq[2][2]>>] # 0
    BY <2>2
  <2> QED  BY <2>1, <2>3, <2>4
<1>3. ASSUME NEW x \in a, NEW y \in b, q = <<l[<<x[1], y[1]>>], r[<<x[2], y[2]>>]>>,
             l[<<x[1], y[1]>>] # 0, r[<<x[2], y[2]>>] # 0
      PROVE  q \in ProductPairs(l, r, a, b)
  <2>1. <<x, y>> \in both /\ q = met(<<x, y>>)
    BY <1>3
  <2> HIDE DEF both, met
  <2> QED  BY <2>1, <1>1
<1> QED  BY <1>2, <1>3 DEF Meets

-------------------------------------------------------------------------------
(* Levels that fit. *)

SweptLevels(swept) == [t \in Internal |-> swept[t].level]

\* Products stay in the swept levels, and where they meet they are the same.
Grid(f, g, swept, t) ==
  /\ \A i \in Slots(f.levels, t), j \in Slots(g.levels, t) :
       swept[t].at[<<i, j>>] \in {0} \cup Slots(SweptLevels(swept), t)
  /\ t \in Leaf => \A i \in Slots(f.levels, t), j \in Slots(g.levels, t) :
       swept[t].at[<<i, j>>] = LeafProduct(i, j)
  /\ t \notin Leaf => \A i, a \in Slots(f.levels, t), j, b \in Slots(g.levels, t) :
       swept[t].at[<<i, j>>] = swept[t].at[<<a, b>>] /\ swept[t].at[<<i, j>>] # 0 => i = a /\ j = b
  /\ swept[t].gIs => Slots(SweptLevels(swept), t) = Slots(f.levels, t)
  /\ swept[t].fIs => Slots(SweptLevels(swept), t) = Slots(g.levels, t)

\* What a level of the result must be.
LevelFits(levels, t) ==
  /\ IsSequence(levels[t])
  /\ \A k \in DOMAIN levels[t] : \A q \in levels[t][k] :
       q = <<q[1], q[2]>> /\ q[1] \in Slots(levels, Left[t]) /\ q[2] \in Slots(levels, Right[t])
  /\ \A i, j \in DOMAIN levels[t] :
       /\ t # Root /\ i # j => levels[t][i] \cap levels[t][j] = {}
       /\ t # Root \/ i = j => OneForm(t, levels[t][i], levels[t][j])

\* Levels that fit one by one are in range and deterministic.
LEMMA AllFit ==
  ASSUME NEW levels, levels = [t \in Internal |-> levels[t]], \A t \in Internal : LevelFits(levels, t)
  PROVE  InRange(levels) /\ Deterministic(levels)
<1>1. /\ \A t \in Internal : IsSequence(levels[t])
      /\ \A t \in Internal : \A k \in DOMAIN levels[t] : \A q \in levels[t][k] :
           q = <<q[1], q[2]>> /\ q[1] \in Slots(levels, Left[t]) /\ q[2] \in Slots(levels, Right[t])
  BY DEF LevelFits
<1>2. InRange(levels)
  BY <1>1, InRangeFrom
<1>3. \A t \in Internal : \A i, j \in DOMAIN levels[t] :
        /\ t # Root /\ i # j => levels[t][i] \cap levels[t][j] = {}
        /\ t # Root \/ i = j => OneForm(t, levels[t][i], levels[t][j])
  BY DEF LevelFits
<1>4. Deterministic(levels)
  BY <1>3, DeterministicIs
<1> QED  BY <1>2, <1>4

\* Two slots name a leaf in one form.
Alike(c, i, a) == c \in Leaf => (i = 3 <=> a = 3)

\* The product of two slots of a level named in one form.
LEMMA HalfIs ==
  ASSUME NEW f, NEW g, NEW swept, NEW c \in Vtree, Grid(f, g, swept, c),
         NEW i \in Slots(f.levels, c), NEW a \in Slots(f.levels, c),
         NEW j \in Slots(g.levels, c), NEW b \in Slots(g.levels, c),
         Alike(c, i, a), Alike(c, j, b),
         swept[c].at[<<i, j>>] # 0, swept[c].at[<<a, b>>] # 0
  PROVE  /\ swept[c].at[<<i, j>>] \in Slots(SweptLevels(swept), c)
         /\ swept[c].at[<<i, j>>] = swept[c].at[<<a, b>>] => i = a /\ j = b
         /\ Alike(c, swept[c].at[<<i, j>>], swept[c].at[<<a, b>>])
<1>1. swept[c].at[<<i, j>>] \in Slots(SweptLevels(swept), c)
  BY DEF Grid
<1>2. CASE c \notin Leaf
  BY <1>1, <1>2 DEF Grid, Alike
<1>3. CASE c \in Leaf
  <2>1. i \in {1, 2, 3} /\ a \in {1, 2, 3} /\ j \in {1, 2, 3} /\ b \in {1, 2, 3}
    BY <1>3, LeafSlots
  <2>2. swept[c].at[<<i, j>>] = LeafProduct(i, j) /\ swept[c].at[<<a, b>>] = LeafProduct(a, b)
    BY <1>3 DEF Grid
  <2>3. LeafProduct(i, j) # 0 /\ LeafProduct(a, b) # 0
    BY <2>2
  <2>4. LeafProduct(i, j) = LeafProduct(a, b) => i = a /\ j = b
    BY <1>3, <2>1, <2>3 DEF LeafProduct, One, Alike
  <2>5. LeafProduct(i, j) = 3 <=> LeafProduct(a, b) = 3
    BY <1>3, <2>1, <2>3 DEF LeafProduct, One, Alike
  <2> QED  BY <1>1, <2>2, <2>4, <2>5 DEF Alike
<1> QED  BY <1>2, <1>3

\* Nodes that share a pair.
Overlap(a, b) == a \cap b # {}

\* What two pairs of a product's nodes share.
LEMMA ProductsIs ==
  ASSUME NEW f, Sound(f), NEW g, Sound(g), NEW swept, NEW t \in Internal,
         Grid(f, g, swept, Left[t]), Grid(f, g, swept, Right[t]),
         NEW i \in DOMAIN f.levels[t], NEW a \in DOMAIN f.levels[t],
         NEW j \in DOMAIN g.levels[t], NEW b \in DOMAIN g.levels[t],
         OneForm(t, f.levels[t][i], f.levels[t][a]), OneForm(t, g.levels[t][j], g.levels[t][b]),
         NEW q, q \in ProductPairs(swept[Left[t]].at, swept[Right[t]].at, f.levels[t][i], g.levels[t][j]),
         NEW r, r \in ProductPairs(swept[Left[t]].at, swept[Right[t]].at, f.levels[t][a], g.levels[t][b])
  PROVE  /\ q = <<q[1], q[2]>>
         /\ q[1] \in Slots(SweptLevels(swept), Left[t]) /\ q[2] \in Slots(SweptLevels(swept), Right[t])
         /\ q = r => Overlap(f.levels[t][i], f.levels[t][a]) /\ Overlap(g.levels[t][j], g.levels[t][b])
         /\ Alike(Left[t], q[1], r[1]) /\ Alike(Right[t], q[2], r[2])
<1> DEFINE L == swept[Left[t]].at
           R == swept[Right[t]].at
           A == f.levels[t][i]
           B == f.levels[t][a]
           C == g.levels[t][j]
           D == g.levels[t][b]
<1>0. q \in ProductPairs(L, R, A, C) /\ r \in ProductPairs(L, R, B, D)
  OBVIOUS
<1> HIDE DEF L, R, A, B, C, D
<1>1. PICK p \in A, u \in C :
             Meets(L, R, p, u, q)
  BY <1>0, ProductPairsHas
<1>2. PICK s \in B, v \in D :
             Meets(L, R, s, v, r)
  BY <1>0, ProductPairsHas
<1>3. InRange(f.levels) /\ InRange(g.levels) /\ Left[t] \in Vtree /\ Right[t] \in Vtree
  BY SoundIs, InternalIs
<1>4. /\ p[1] \in Slots(f.levels, Left[t]) /\ p[2] \in Slots(f.levels, Right[t])
      /\ s[1] \in Slots(f.levels, Left[t]) /\ s[2] \in Slots(f.levels, Right[t])
      /\ u[1] \in Slots(g.levels, Left[t]) /\ u[2] \in Slots(g.levels, Right[t])
      /\ v[1] \in Slots(g.levels, Left[t]) /\ v[2] \in Slots(g.levels, Right[t])
  BY <1>3, PairIs DEF A, B, C, D
<1>10. p = <<p[1], p[2]>> /\ s = <<s[1], s[2]>> /\ u = <<u[1], u[2]>> /\ v = <<v[1], v[2]>>
  BY <1>3, PairIs DEF A, B, C, D
<1>5. /\ Alike(Left[t], p[1], s[1]) /\ Alike(Left[t], u[1], v[1])
      /\ Alike(Right[t], p[2], s[2]) /\ Alike(Right[t], u[2], v[2])
  BY DEF OneForm, Alike, A, B, C, D
<1>11. L[<<p[1], u[1]>>] # 0 /\ R[<<p[2], u[2]>>] # 0 /\ L[<<s[1], v[1]>>] # 0 /\ R[<<s[2], v[2]>>] # 0
  BY <1>1, <1>2 DEF Meets
<1>6. /\ L[<<p[1], u[1]>>] \in Slots(SweptLevels(swept), Left[t])
      /\ L[<<p[1], u[1]>>] = L[<<s[1], v[1]>>] => p[1] = s[1] /\ u[1] = v[1]
      /\ Alike(Left[t], L[<<p[1], u[1]>>], L[<<s[1], v[1]>>])
  BY <1>11, <1>3, <1>4, <1>5, HalfIs DEF L
<1>7. /\ R[<<p[2], u[2]>>] \in Slots(SweptLevels(swept), Right[t])
      /\ R[<<p[2], u[2]>>] = R[<<s[2], v[2]>>] => p[2] = s[2] /\ u[2] = v[2]
      /\ Alike(Right[t], R[<<p[2], u[2]>>], R[<<s[2], v[2]>>])
  BY <1>11, <1>3, <1>4, <1>5, HalfIs DEF R
<1>8. q[1] = L[<<p[1], u[1]>>] /\ q[2] = R[<<p[2], u[2]>>] /\ r[1] = L[<<s[1], v[1]>>] /\ r[2] = R[<<s[2], v[2]>>]
  BY <1>1, <1>2 DEF Meets
<1>9. q = r => p = s /\ u = v
  BY <1>10, <1>6, <1>7, <1>8
<1>12. q = <<q[1], q[2]>>
  BY <1>1 DEF Meets
<1>13. q = r => Overlap(A, B) /\ Overlap(C, D)
  BY <1>1, <1>2, <1>9 DEF Overlap
<1> QED  BY <1>12, <1>13, <1>6, <1>7, <1>8 DEF A, B, C, D

\* At a leaf the products are the leaf's own slots.
LEMMA GridLeaf ==
  ASSUME NEW f, NEW g, NEW t \in Leaf
  PROVE  Grid(f, g, Sweep(f, g, {}), t)
<1> DEFINE swept == Sweep(f, g, {})
<1>1. swept[t] = SweptLeaf(f, g, t)
  BY SweepIs
<1>2. Slots(f.levels, t) = {1, 2, 3} /\ Slots(g.levels, t) = {1, 2, 3} /\ Slots(SweptLevels(swept), t) = {1, 2, 3}
  BY LeafSlots
<1>3. \A i, j \in {1, 2, 3} : swept[t].at[<<i, j>>] = LeafProduct(i, j)
  BY <1>1 DEF SweptLeaf, Pos, Neg, One
<1>4. \A i, j \in {1, 2, 3} : LeafProduct(i, j) \in {0, 1, 2, 3}
  BY DEF LeafProduct, One
<1> HIDE DEF swept
<1>5. Grid(f, g, swept, t)
  BY <1>2, <1>3, <1>4 DEF Grid
<1> QED  BY <1>5 DEF swept

\* A level carried over: every product is the carried operand's node.
LEMMA CarriedFits ==
  ASSUME NEW f, Sound(f), NEW t \in Internal, NEW levels, levels[t] = f.levels[t],
         Slots(levels, Left[t]) = Slots(f.levels, Left[t]), Slots(levels, Right[t]) = Slots(f.levels, Right[t])
  PROVE  LevelFits(levels, t)
<1>1. InRange(f.levels) /\ Deterministic(f.levels)
  BY SoundIs
<1>2. /\ f.levels[t] \in Seq(SUBSET (Nat \X Nat)) /\ Len(f.levels[t]) \in Nat
      /\ DOMAIN f.levels[t] = 1 .. Len(f.levels[t])
  BY <1>1, LevelIs
<1>3. IsSequence(f.levels[t])
  <2>1. f.levels[t] = [k \in 1 .. Len(f.levels[t]) |-> f.levels[t][k]]
    BY <1>2
  <2> QED  BY <1>2, <2>1 DEF IsSequence
<1>4. \A k \in DOMAIN f.levels[t] : \A q \in f.levels[t][k] :
        q = <<q[1], q[2]>> /\ q[1] \in Slots(f.levels, Left[t]) /\ q[2] \in Slots(f.levels, Right[t])
  BY <1>1, PairIs
<1>5. \A i, j \in DOMAIN f.levels[t] :
       /\ t # Root /\ i # j => f.levels[t][i] \cap f.levels[t][j] = {}
       /\ t # Root \/ i = j => OneForm(t, f.levels[t][i], f.levels[t][j])
  BY <1>1, DeterministicIs
<1> QED  BY <1>3, <1>4, <1>5 DEF LevelFits

\* A level of products.
OfProducts(f, g, swept, t) ==
  /\ IsSequence(swept[t].level)
  /\ \A k \in DOMAIN swept[t].level : \E i \in DOMAIN f.levels[t], j \in DOMAIN g.levels[t] :
       /\ swept[t].level[k] = ProductPairs(swept[Left[t]].at, swept[Right[t]].at, f.levels[t][i], g.levels[t][j])
       /\ swept[t].at[<<i, j>>] = k

\* A level of products fits above levels of products.
LEMMA BuiltFits ==
  ASSUME NEW f, Sound(f), NEW g, Sound(g), NEW swept, NEW t \in Internal,
         Grid(f, g, swept, Left[t]), Grid(f, g, swept, Right[t]), OfProducts(f, g, swept, t)
  PROVE  LevelFits(SweptLevels(swept), t)
<1> DEFINE levels == SweptLevels(swept)
           level == swept[t].level
           P(i, j) == ProductPairs(swept[Left[t]].at, swept[Right[t]].at, f.levels[t][i], g.levels[t][j])
<1>0. /\ IsSequence(level)
      /\ \A k \in DOMAIN level : \E i \in DOMAIN f.levels[t], j \in DOMAIN g.levels[t] :
           level[k] = P(i, j) /\ swept[t].at[<<i, j>>] = k
  BY DEF OfProducts
<1>5. level = levels[t]
  BY DEF SweptLevels
<1> HIDE DEF level, P
<1>1. Deterministic(f.levels) /\ Deterministic(g.levels)
  BY SoundIs
<1>2. ASSUME NEW k \in DOMAIN level, NEW q \in level[k]
      PROVE  q = <<q[1], q[2]>> /\ q[1] \in Slots(levels, Left[t]) /\ q[2] \in Slots(levels, Right[t])
  <2>1. PICK i \in DOMAIN f.levels[t], j \in DOMAIN g.levels[t] : level[k] = P(i, j)
    BY <1>0
  <2>2. q \in P(i, j)
    BY <2>1
  <2>3. OneForm(t, f.levels[t][i], f.levels[t][i]) /\ OneForm(t, g.levels[t][j], g.levels[t][j])
    BY <1>1, DeterministicIs
  <2> QED  BY <2>2, <2>3, ProductsIs DEF P
<1>3. ASSUME NEW k \in DOMAIN level, NEW m \in DOMAIN level, t # Root \/ k = m
      PROVE  OneForm(t, level[k], level[m]) /\ (k # m => level[k] \cap level[m] = {})
  <2>1. PICK i \in DOMAIN f.levels[t], j \in DOMAIN g.levels[t] : level[k] = P(i, j) /\ swept[t].at[<<i, j>>] = k
    BY <1>0
  <2>2. PICK a \in DOMAIN f.levels[t], b \in DOMAIN g.levels[t] : level[m] = P(a, b) /\ swept[t].at[<<a, b>>] = m
    BY <1>0
  <2>3. CASE t # Root
    <3>1. OneForm(t, f.levels[t][i], f.levels[t][a]) /\ OneForm(t, g.levels[t][j], g.levels[t][b])
      BY <1>1, <2>3, DeterministicIs
    <3>2. ASSUME NEW q \in level[k], NEW r \in level[m]
          PROVE  /\ q = r => Overlap(f.levels[t][i], f.levels[t][a]) /\ Overlap(g.levels[t][j], g.levels[t][b])
                 /\ Alike(Left[t], q[1], r[1]) /\ Alike(Right[t], q[2], r[2])
      <4>1. q \in P(i, j) /\ r \in P(a, b)
        BY <2>1, <2>2
      <4> QED  BY <4>1, <3>1, ProductsIs DEF P
    <3>3. OneForm(t, level[k], level[m])
      BY <3>2 DEF OneForm, Alike
    <3>4. ASSUME k # m, NEW q, q \in level[k], q \in level[m] PROVE FALSE
      <4>1. f.levels[t][i] \cap f.levels[t][a] # {} /\ g.levels[t][j] \cap g.levels[t][b] # {}
        BY <3>2, <3>4 DEF Overlap
      <4>2. i = a /\ j = b
        BY <4>1, <1>1, <2>3, DeterministicIs
      <4> QED  BY <4>2, <2>1, <2>2, <3>4
    <3> QED  BY <3>3, <3>4
  <2>4. CASE k = m
    <3>1. OneForm(t, f.levels[t][i], f.levels[t][i]) /\ OneForm(t, g.levels[t][j], g.levels[t][j])
      BY <1>1, DeterministicIs
    <3>2. ASSUME NEW q \in level[k], NEW r \in level[k]
          PROVE  Alike(Left[t], q[1], r[1]) /\ Alike(Right[t], q[2], r[2])
      <4>1. q \in P(i, j) /\ r \in P(i, j)
        BY <2>1
      <4> QED  BY <4>1, <3>1, ProductsIs DEF P
    <3>3. OneForm(t, level[k], level[m])
      BY <2>4, <3>2 DEF OneForm, Alike
    <3> QED  BY <2>4, <3>3
  <2> QED  BY <1>3, <2>3, <2>4
<1> HIDE DEF levels
<1>4. /\ IsSequence(levels[t])
      /\ \A k \in DOMAIN levels[t] : \A q \in levels[t][k] :
           q = <<q[1], q[2]>> /\ q[1] \in Slots(levels, Left[t]) /\ q[2] \in Slots(levels, Right[t])
      /\ \A i, j \in DOMAIN levels[t] :
           /\ t # Root /\ i # j => levels[t][i] \cap levels[t][j] = {}
           /\ t # Root \/ i = j => OneForm(t, levels[t][i], levels[t][j])
  BY <1>0, <1>2, <1>3, <1>5
<1> QED  BY <1>4 DEF LevelFits, levels

\* Where the first operand is carried over, its slots are the products.
LEMMA FirstCarried ==
  ASSUME NEW f, NEW g, NEW swept, NEW t \in Internal, t \notin Leaf,
         Slots(SweptLevels(swept), t) = Slots(f.levels, t),
         swept[t].fIs => Slots(f.levels, t) = Slots(g.levels, t),
         \A i \in Slots(f.levels, t), j \in Slots(g.levels, t) : swept[t].at[<<i, j>>] = i,
         \A j, b \in Slots(g.levels, t) : j = b
  PROVE  Grid(f, g, swept, t)
BY DEF Grid

\* Where the second operand is carried over, its slots are the products.
LEMMA SecondCarried ==
  ASSUME NEW f, NEW g, NEW swept, NEW t \in Internal, t \notin Leaf,
         Slots(SweptLevels(swept), t) = Slots(g.levels, t), ~swept[t].gIs,
         \A i \in Slots(f.levels, t), j \in Slots(g.levels, t) : swept[t].at[<<i, j>>] = j,
         \A i, a \in Slots(f.levels, t) : i = a
  PROVE  Grid(f, g, swept, t)
BY DEF Grid

\* One level of the sweep, from its children's.
LEMMA GridStep ==
  ASSUME NEW f, Sound(f), NEW g, Sound(g), NEW t \in Internal,
         Grid(f, g, Sweep(f, g, {}), Left[t]), Grid(f, g, Sweep(f, g, {}), Right[t])
  PROVE  Grid(f, g, Sweep(f, g, {}), t) /\ LevelFits(SweptLevels(Sweep(f, g, {})), t)
<1> DEFINE swept == Sweep(f, g, {})
           levels == SweptLevels(swept)
           F == f.levels[t]
           G == g.levels[t]
           l == swept[Left[t]]
           r == swept[Right[t]]
           grid == (DOMAIN F) \X (DOMAIN G)
           pairs == [ij \in grid |-> ProductPairs(l.at, r.at, F[ij[1]], G[ij[2]])]
           fTrue == IdentityLevel(F, l.fIs, r.fIs)
           gTrue == IdentityLevel(G, l.gIs, r.gIs)
           yes == TRUE
           no == FALSE
<1>1. /\ InRange(f.levels) /\ InRange(g.levels) /\ Len(F) \in Nat /\ Len(G) \in Nat
      /\ DOMAIN F = 1 .. Len(F) /\ DOMAIN G = 1 .. Len(G)
      /\ Slots(f.levels, t) = DOMAIN F /\ Slots(g.levels, t) = DOMAIN G
  BY SoundIs, LevelIs
<1>2. t \notin Leaf /\ Slots(levels, t) = DOMAIN swept[t].level /\ levels[t] = swept[t].level
  BY InternalIs DEF Slots, SweptLevels
<1>3. swept[t] = SweptLevel(f, g, {}, t, l, r)
  BY SweepIs
<1>4. swept[t] = IF gTrue THEN [fIs |-> fTrue, gIs |-> yes, carrier |-> 1, level |-> F,
                                at |-> [ij \in grid |-> ij[1]]]
                 ELSE IF fTrue THEN [fIs |-> yes, gIs |-> no, carrier |-> 2, level |-> G,
                                     at |-> [ij \in grid |-> ij[2]]]
                 ELSE BuiltLevel(F, G, pairs)
  <2>1. Table(pairs) = pairs
    BY TableIs
  <2> QED  BY <1>3, <2>1 DEF SweptLevel
<1>5. /\ l.gIs => Slots(levels, Left[t]) = Slots(f.levels, Left[t])
      /\ l.fIs => Slots(levels, Left[t]) = Slots(g.levels, Left[t])
      /\ r.gIs => Slots(levels, Right[t]) = Slots(f.levels, Right[t])
      /\ r.fIs => Slots(levels, Right[t]) = Slots(g.levels, Right[t])
  BY DEF Grid
<1>6. fTrue => Len(F) = 1 /\ l.fIs /\ r.fIs
  BY DEF IdentityLevel
<1>7. gTrue => Len(G) = 1 /\ l.gIs /\ r.gIs
  BY DEF IdentityLevel
<1>8. CASE gTrue
  <2>1. swept[t].fIs = fTrue /\ swept[t].level = F /\ swept[t].at = [ij \in grid |-> ij[1]]
    <3> HIDE DEF swept, fTrue, yes, F, grid
    <3> QED  BY <1>4, <1>8
  <2>2. \A i \in DOMAIN F, j \in DOMAIN G : swept[t].at[<<i, j>>] = i
    <3> HIDE DEF swept, F, G
    <3> QED  BY <2>1
  <2>3. \A j, b \in DOMAIN G : j = b
    <3>1. DOMAIN G = 1 .. 1
      BY <1>1, <1>7, <1>8
    <3> HIDE DEF G
    <3> QED  BY <3>1
  <2>4. swept[t].fIs => DOMAIN F = DOMAIN G
    BY <1>1, <1>6, <1>7, <1>8, <2>1
  <2>5. Slots(levels, t) = DOMAIN F
    BY <1>2, <2>1
  <2>6. LevelFits(levels, t)
    <3>1. levels[t] = f.levels[t]
      BY <1>2, <2>1
    <3>2. Slots(levels, Left[t]) = Slots(f.levels, Left[t]) /\ Slots(levels, Right[t]) = Slots(f.levels, Right[t])
      BY <1>5, <1>7, <1>8
    <3> HIDE DEF levels
    <3> QED  BY <3>1, <3>2, CarriedFits
  <2> HIDE DEF F, G, swept
  <2>7. Grid(f, g, swept, t)
    <3>1. /\ \A i \in Slots(f.levels, t), j \in Slots(g.levels, t) : swept[t].at[<<i, j>>] = i
          /\ \A j, b \in Slots(g.levels, t) : j = b
          /\ Slots(SweptLevels(swept), t) = Slots(f.levels, t)
          /\ swept[t].fIs => Slots(f.levels, t) = Slots(g.levels, t)
      BY <1>1, <2>2, <2>3, <2>4, <2>5
    <3> QED  BY <1>2, <3>1, FirstCarried
  <2> QED  BY <2>6, <2>7 DEF swept
<1>9. CASE ~gTrue /\ fTrue
  <2>1. ~swept[t].gIs /\ swept[t].level = G /\ swept[t].at = [ij \in grid |-> ij[2]]
    <3>1. swept[t] = [fIs |-> yes, gIs |-> no, carrier |-> 2, level |-> G, at |-> [ij \in grid |-> ij[2]]]
      BY <1>4, <1>9
    <3>2. swept[t].gIs = no /\ ~no
      <4>1. ~no
        OBVIOUS
      <4> HIDE DEF swept, yes, no, G, grid
      <4> QED  BY <3>1, <4>1
    <3>3. ~swept[t].gIs
      BY <3>2
    <3> HIDE DEF swept, yes, no, G, grid
    <3> QED  BY <3>1, <3>3
  <2>2. \A i \in DOMAIN F, j \in DOMAIN G : swept[t].at[<<i, j>>] = j
    <3> HIDE DEF swept, F, G
    <3> QED  BY <2>1
  <2>3. \A j, b \in DOMAIN F : j = b
    <3>1. DOMAIN F = 1 .. 1
      BY <1>1, <1>6, <1>9
    <3> HIDE DEF F
    <3> QED  BY <3>1
  <2>5. Slots(levels, t) = DOMAIN G
    BY <1>2, <2>1
  <2>6. LevelFits(levels, t)
    <3>1. levels[t] = g.levels[t]
      BY <1>2, <2>1
    <3>2. Slots(levels, Left[t]) = Slots(g.levels, Left[t]) /\ Slots(levels, Right[t]) = Slots(g.levels, Right[t])
      BY <1>5, <1>6, <1>9
    <3> HIDE DEF levels
    <3> QED  BY <3>1, <3>2, CarriedFits
  <2> HIDE DEF F, G, swept
  <2>7. Grid(f, g, swept, t)
    <3>1. /\ \A i \in Slots(f.levels, t), j \in Slots(g.levels, t) : swept[t].at[<<i, j>>] = j
          /\ \A i, a \in Slots(f.levels, t) : i = a
          /\ Slots(SweptLevels(swept), t) = Slots(g.levels, t)
      BY <1>1, <2>2, <2>3, <2>5
    <3> QED  BY <1>2, <2>1, <3>1, SecondCarried
  <2> QED  BY <2>6, <2>7 DEF swept
<1>10. CASE ~gTrue /\ ~fTrue
  <2>1. swept[t] = BuiltLevel(F, G, pairs)
    BY <1>4, <1>10
  <2>2. OnGrid(pairs, F, G)
    BY DEF OnGrid
  <2>3. \A i \in DOMAIN F, j \in DOMAIN G : pairs[<<i, j>>] = ProductPairs(l.at, r.at, F[i], G[j])
    <3> HIDE DEF l, r, F, G
    <3> QED  OBVIOUS
  <2> HIDE DEF pairs
  <2>4. /\ ~swept[t].fIs /\ ~swept[t].gIs
        /\ IsSequence(swept[t].level)
        /\ \A k \in DOMAIN swept[t].level : \E i \in DOMAIN F, j \in DOMAIN G :
             swept[t].level[k] = pairs[<<i, j>>] /\ swept[t].at[<<i, j>>] = k
        /\ \A i \in DOMAIN F, j \in DOMAIN G : swept[t].at[<<i, j>>] \in {0} \cup DOMAIN swept[t].level
        /\ \A i, a \in DOMAIN F, j, b \in DOMAIN G :
             swept[t].at[<<i, j>>] = swept[t].at[<<a, b>>] /\ swept[t].at[<<i, j>>] # 0 => i = a /\ j = b
    <3> DEFINE made == BuiltLevel(F, G, pairs)
    <3>1. Numbered(F) /\ Numbered(G)
      BY <1>1 DEF Numbered
    <3> HIDE DEF F, G, swept
    <3>2. /\ ~made.fIs /\ ~made.gIs
          /\ IsSequence(made.level)
          /\ \A k \in DOMAIN made.level : \E i \in DOMAIN F, j \in DOMAIN G :
               made.level[k] = pairs[<<i, j>>] /\ made.at[<<i, j>>] = k
          /\ \A i \in DOMAIN F, j \in DOMAIN G : made.at[<<i, j>>] \in {0} \cup DOMAIN made.level
          /\ \A i, a \in DOMAIN F, j, b \in DOMAIN G :
               made.at[<<i, j>>] = made.at[<<a, b>>] /\ made.at[<<i, j>>] # 0 => i = a /\ j = b
          /\ \A i \in DOMAIN F, j \in DOMAIN G : made.at[<<i, j>>] = 0 <=> pairs[<<i, j>>] = {}
      BY <3>1, <2>2, BuiltLevelIs
    <3> QED  BY <2>1, <3>2
  <2>5. Grid(f, g, swept, t)
    <3> HIDE DEF F, G, swept, levels
    <3>1. \A i \in DOMAIN F, j \in DOMAIN G : swept[t].at[<<i, j>>] \in {0} \cup Slots(levels, t)
      BY <1>2, <2>4
    <3> QED  BY <3>1, <1>1, <1>2, <2>4 DEF Grid, levels
  <2>6. \A k \in DOMAIN swept[t].level : \E i \in DOMAIN F, j \in DOMAIN G :
          swept[t].level[k] = ProductPairs(l.at, r.at, F[i], G[j]) /\ swept[t].at[<<i, j>>] = k
    <3> HIDE DEF l, r, F, G, swept
    <3>1. ASSUME NEW k \in DOMAIN swept[t].level
          PROVE  \E i \in DOMAIN F, j \in DOMAIN G :
                   swept[t].level[k] = ProductPairs(l.at, r.at, F[i], G[j]) /\ swept[t].at[<<i, j>>] = k
      <4>1. PICK i \in DOMAIN F, j \in DOMAIN G : swept[t].level[k] = pairs[<<i, j>>] /\ swept[t].at[<<i, j>>] = k
        BY <2>4
      <4>2. pairs[<<i, j>>] = ProductPairs(l.at, r.at, F[i], G[j])
        BY <2>3
      <4> QED  BY <4>1, <4>2
    <3> QED  BY <3>1
  <2>7. LevelFits(levels, t)
    <3>1. OfProducts(f, g, swept, t)
      BY <2>4, <2>6 DEF OfProducts
    <3>2. Grid(f, g, swept, Left[t]) /\ Grid(f, g, swept, Right[t])
      OBVIOUS
    <3> HIDE DEF swept
    <3> QED  BY <3>1, <3>2, BuiltFits
  <2> QED  BY <2>5, <2>7
<1> QED  BY <1>8, <1>9, <1>10

\* The levels of a conjunction, and where its output lies.
LEMMA SweepSound ==
  ASSUME NEW f, Sound(f), NEW g, Sound(g), f.out # Zero, g.out # Zero
  PROVE  LET swept == Sweep(f, g, {})
         IN  /\ InRange(SweptLevels(swept)) /\ Deterministic(SweptLevels(swept))
             /\ swept[Root].at[<<f.out, g.out>>] \in {Zero} \cup DOMAIN SweptLevels(swept)[Root]
<1> DEFINE swept == Sweep(f, g, {})
           levels == SweptLevels(swept)
           P == {t \in Vtree : Grid(f, g, swept, t) /\ (t \in Internal => LevelFits(levels, t))}
<1>1. Leaf \subseteq P
  <2>1. \A t \in Leaf : t \in Vtree /\ t \notin Internal
    BY InternalIs DEF Vtree
  <2> QED  BY <2>1, GridLeaf
<1>2. ASSUME NEW t \in Internal, Left[t] \in P, Right[t] \in P PROVE t \in P
  <2>1. Grid(f, g, swept, t) /\ LevelFits(levels, t)
    BY <1>2, GridStep
  <2> QED  BY <2>1 DEF Vtree
<1>3. Vtree \subseteq P
  <2> HIDE DEF P
  <2> QED  BY <1>1, <1>2, UpInduction
<1>4. \A t \in Internal : Grid(f, g, swept, t) /\ LevelFits(levels, t)
  BY <1>3 DEF Vtree
<1>5. levels = [t \in Internal |-> levels[t]]
  BY DEF SweptLevels
<1>6. InRange(levels) /\ Deterministic(levels)
  <2> HIDE DEF levels
  <2> QED  BY <1>4, <1>5, AllFit
<1>7. Slots(levels, Root) = DOMAIN levels[Root] /\ Root \notin Leaf
  BY RootIs, InternalIs DEF Slots
<1>8. f.out \in Slots(f.levels, Root) /\ g.out \in Slots(g.levels, Root)
  BY <1>7, SoundIs DEF Slots
<1>9. swept[Root].at[<<f.out, g.out>>] \in {0} \cup Slots(levels, Root)
  <2> HIDE DEF swept
  <2> QED  BY <1>4, <1>8, RootIs DEF Grid
<1> QED  BY <1>6, <1>7, <1>9 DEF Zero

\* The levels a conjunction lists as loose lie below the root.
LEMMA LooseLevelsAre ==
  ASSUME NEW f, NEW g, NEW swept, NEW as, NEW loose, loose \in LooseLevels(f, g, swept, as)
  PROVE  loose \subseteq Internal \ {Root}
<1> DEFINE tab     == Table(<<SettleLoose(f), SettleLoose(g)>>)
           carried == {c \in Internal \ {Root} : swept[Parent[c]].carrier # 0}
           open    == {c \in Internal \ ({Root} \cup carried) : ~Tight(f, g, tab, swept, as, c)}
           ifHeld  == {c \in open : TightIfHeld(f, g, tab, swept, c)}
           stays   == {c \in carried : c \in tab[swept[Parent[c]].carrier]}
<1>1. LooseLevels(f, g, swept, as) = {stays \cup (open \ h) : h \in SUBSET ifHeld}
  BY DEF LooseLevels
<1>2. stays \subseteq Internal \ {Root} /\ open \subseteq Internal \ {Root}
  OBVIOUS
<1> HIDE DEF stays, open, ifHeld
<1>3. PICK h : loose = stays \cup (open \ h)
  BY <1>1
<1> QED  BY <1>2, <1>3

\* A conjunction of two diagrams that are not false is sound (apply/conjoin).
LEMMA ProductsSound ==
  ASSUME NEW f, Sound(f), NEW g, Sound(g), f.out # Zero, g.out # Zero,
         NEW made, made \in Products(f, g, Sweep(f, g, {}))
  PROVE  LET swept == Sweep(f, g, {})
         IN  Sound(made) /\ made.levels = SweptLevels(swept) /\ made.out = swept[Root].at[<<f.out, g.out>>]
<1> DEFINE swept  == Sweep(f, g, {})
           levels == SweptLevels(swept)
           out    == swept[Root].at[<<f.out, g.out>>]
           cs     == g.contract \cup f.contract
           vs     == g.leaves \cup f.leaves
           known  == f.loose # Unknown /\ g.loose # Unknown
           no     == FALSE
           of(as) == {Diagram(levels, out, cs \cup OwedTwins(swept, as), vs \cup Built(swept), loose, no) :
                        loose \in IF known THEN LooseLevels(f, g, swept, as) ELSE {Unknown}}
<1>1. \E as : made \in of(as)
  <2> DEFINE may   == Table([t \in Internal |-> MayBeAs(f, g, swept, t)])
             notes == {[t \in Internal |-> IF t \in noted THEN may[t] ELSE 0] :
                          noted \in SUBSET {t \in Internal : may[t] # 0}}
  <2>1. Products(f, g, swept) = UNION {of(as) : as \in notes}
    BY DEF Products, OwedByOperands, SweptLevels
  <2> HIDE DEF of, notes, swept
  <2>2. made \in UNION {of(as) : as \in notes}
    BY <2>1 DEF swept
  <2> QED  BY <2>2
<1>2. PICK as : made \in of(as)
  BY <1>1
<1>3. /\ InRange(levels) /\ Deterministic(levels) /\ out \in {Zero} \cup DOMAIN levels[Root]
  BY SweepSound
<1>4. /\ f.contract \subseteq Internal /\ f.leaves \subseteq Internal
      /\ g.contract \subseteq Internal /\ g.leaves \subseteq Internal
  BY SoundIs
<1> HIDE DEF swept, levels, out
<1>5. cs \cup OwedTwins(swept, as) \subseteq Internal /\ vs \cup Built(swept) \subseteq Internal
  <2>1. Built(swept) \subseteq Internal /\ OwedTwins(swept, as) \subseteq Internal
    BY DEF Built, OwedTwins
  <2> QED  BY <1>4, <2>1
<1> DEFINE a == cs \cup OwedTwins(swept, as)
           b == vs \cup Built(swept)
<1> HIDE DEF known
<1>6. PICK loose : /\ made = Diagram(levels, out, a, b, loose, no)
                   /\ loose \in IF known THEN LooseLevels(f, g, swept, as) ELSE {Unknown}
  BY <1>2
<1>7. loose = Unknown \/ loose \subseteq Internal \ {Root}
  BY <1>6, LooseLevelsAre
<1>8. no \in BOOLEAN /\ ~no
  OBVIOUS
<1> HIDE DEF a, b, no
<1>9. Sound(Diagram(levels, out, a, b, loose, no))
  <2>1. a \subseteq Internal /\ b \subseteq Internal
    BY <1>5 DEF a, b
  <2> QED  BY <1>3, <1>7, <1>8, <2>1, SoundDiagram
<1>10. made.levels = levels /\ made.out = out
  BY <1>6, DiagramIs
<1> QED  BY <1>6, <1>9, <1>10 DEF levels, out, swept

\* A constant false with every pass owed.
LEMMA FalseListedSound == Sound(AllListed(NoLevels, Zero))
<1> DEFINE no == FALSE
           z == Zero
           u == Unknown
<1>1. no \in BOOLEAN /\ ~no /\ z \in {Zero} \cup DOMAIN NoLevels[Root] /\ u = Unknown
  OBVIOUS
<1> HIDE DEF no, z, u
<1>2. Sound(Diagram(NoLevels, z, Internal, Internal, u, no))
  BY <1>1, NothingIs, SoundDiagram
<1> QED  BY <1>2 DEF AllListed, no, z, u

\* Every conjunction is sound, the shortcuts included.
LEMMA ConjunctionsSound ==
  ASSUME NEW x, Sound(x), NEW y, Sound(y), NEW made, made \in Conjunctions(x, y)
  PROVE  Sound(made)
<1> DEFINE swap == MaxWidth(y) > MaxWidth(x)
           f == IF swap THEN y ELSE x
           g == IF swap THEN x ELSE y
<1>1. Conjunctions(x, y) = IF f.levels = g.levels /\ f.out = g.out THEN {f}
                           ELSE IF f.out = Zero \/ g.out = Zero THEN {AllListed(NoLevels, Zero)}
                           ELSE Products(f, g, Sweep(f, g, {}))
  BY DEF Conjunctions
<1>2. Sound(f) /\ Sound(g)
  OBVIOUS
<1> HIDE DEF f, g
<1>3. \/ made = f
      \/ made = AllListed(NoLevels, Zero)
      \/ f.out # Zero /\ g.out # Zero /\ made \in Products(f, g, Sweep(f, g, {}))
  BY <1>1
<1> QED  BY <1>2, <1>3, ProductsSound, FalseListedSound

\* What a caller hands in is sound.
LEMMA OperandSound ==
  ASSUME NEW d \in Operand
  PROVE  Sound(d)
<1>1. WellFormed(d) /\ Deterministic(d.levels) /\ (d.certified => Canonical(d))
  BY OperandAssumption DEF Tidy
<1>2. InRange(d.levels) /\ d.out \in {Zero} \cup DOMAIN d.levels[Root]
  BY <1>1 DEF WellFormed
<1>3. ASSUME d.certified PROVE Len(d.levels[Root]) <= 1
  <2>1. Reached(d.levels, d.out)[Root] = DOMAIN d.levels[Root]
    BY <1>1, <1>3, RootIs DEF Canonical, AllReached
  <2>2. Reached(d.levels, d.out)[Root] = {d.out} \ {Zero}
    BY <1>2, ReachedIs
  <2>3. Len(d.levels[Root]) \in Nat /\ DOMAIN d.levels[Root] = 1 .. Len(d.levels[Root])
    BY <1>2, RootIs, LevelIs
  <2> DEFINE n == Len(d.levels[Root])
  <2>4. n \in Nat /\ 1 .. n = {d.out} \ {Zero}
    BY <2>1, <2>2, <2>3
  <2> HIDE DEF n
  <2>5. n <= 1
    <3>1. SUFFICES ASSUME n >= 2 PROVE FALSE
      BY <2>4
    <3>2. 1 \in 1 .. n /\ 2 \in 1 .. n
      BY <2>4, <3>1
    <3> QED  BY <2>4, <3>2
  <2> QED  BY <2>5 DEF n
<1> QED  BY <1>1, <1>3 DEF Sound

-------------------------------------------------------------------------------
(* Completion and complements (apply/negate). *)

\* The sides of a vnode's children.
LEMMA SidesOf ==
  ASSUME NEW t \in Internal
  PROVE  Side(Left[t]) = 1 /\ Side(Right[t]) = 2
BY InternalIs, ParentOf DEF Children

\* The cells no node of a level covers, in the level's form.
LEMMA MissingIs ==
  ASSUME NEW levels, NEW t \in Internal, NEW pairs, OneForm(t, pairs, pairs),
         NEW cells, cells \subseteq Missing(levels, t, pairs)
  PROVE  /\ \A q \in cells : q = <<q[1], q[2]>> /\ q[1] \in Slots(levels, Left[t]) /\ q[2] \in Slots(levels, Right[t])
         /\ cells \cap pairs = {}
         /\ OneForm(t, cells, cells) /\ OneForm(t, cells, pairs) /\ OneForm(t, pairs, cells)
<1> DEFINE L == Basis(levels, Left[t], pairs)
           R == Basis(levels, Right[t], pairs)
<1>1. cells \subseteq (L \X R) \ pairs
  BY DEF Missing
<1>2. \A q \in cells : q = <<q[1], q[2]>> /\ q[1] \in L /\ q[2] \in R /\ q \notin pairs
  <2> HIDE DEF L, R
  <2> QED  BY <1>1
<1>3. Left[t] \in Vtree /\ Right[t] \in Vtree
  BY InternalIs
<1>4. Left[t] \in Leaf => L = IF \E p \in pairs : p[1] = 3 THEN {3} ELSE {1, 2}
  BY SidesOf DEF Basis, One, Pos, Neg
<1>5. Right[t] \in Leaf => R = IF \E p \in pairs : p[2] = 3 THEN {3} ELSE {1, 2}
  BY SidesOf DEF Basis, One, Pos, Neg
<1>6. Left[t] \notin Leaf => L = Slots(levels, Left[t])
  BY DEF Basis, Slots
<1>7. Right[t] \notin Leaf => R = Slots(levels, Right[t])
  BY DEF Basis, Slots
<1> HIDE DEF L, R
<1>8. L \subseteq Slots(levels, Left[t])
  BY <1>4, <1>6, LeafSlots
<1>9. R \subseteq Slots(levels, Right[t])
  BY <1>5, <1>7, LeafSlots
<1>10. ASSUME Left[t] \in Leaf
       PROVE  /\ \A p, q \in cells : p[1] = 3 <=> q[1] = 3
              /\ \A p \in cells, q \in pairs : p[1] = 3 <=> q[1] = 3
  <2>1. \A p, q \in pairs : p[1] = 3 <=> q[1] = 3
    BY <1>10 DEF OneForm
  <2>2. CASE \E p \in pairs : p[1] = 3
    BY <1>2, <1>4, <1>10, <2>1, <2>2
  <2>3. CASE ~\E p \in pairs : p[1] = 3
    BY <1>2, <1>4, <1>10, <2>3
  <2> QED  BY <2>2, <2>3
<1>11. ASSUME Right[t] \in Leaf
       PROVE  /\ \A p, q \in cells : p[2] = 3 <=> q[2] = 3
              /\ \A p \in cells, q \in pairs : p[2] = 3 <=> q[2] = 3
  <2>1. \A p, q \in pairs : p[2] = 3 <=> q[2] = 3
    BY <1>11 DEF OneForm
  <2>2. CASE \E p \in pairs : p[2] = 3
    BY <1>2, <1>5, <1>11, <2>1, <2>2
  <2>3. CASE ~\E p \in pairs : p[2] = 3
    BY <1>2, <1>5, <1>11, <2>3
  <2> QED  BY <2>2, <2>3
<1>12. OneForm(t, cells, cells) /\ OneForm(t, cells, pairs) /\ OneForm(t, pairs, cells)
  BY <1>10, <1>11 DEF OneForm
<1> QED  BY <1>2, <1>8, <1>9, <1>12

\* Completed levels, each from its children's.
Completed(d, levels, t) ==
  FullLevel(d, t, IF Left[t] \in Leaf THEN <<>> ELSE levels[Left[t]],
                  IF Right[t] \in Leaf THEN <<>> ELSE levels[Right[t]])

\* What a level may be.
LevelValues == Seq(SUBSET (Nat \X Nat))

\* A level is as it was, or holds one node more.
LEMMA FullLevelIs ==
  ASSUME NEW d, InRange(d.levels), NEW t \in Internal, NEW left, NEW right
  PROVE  LET pairs == PairsAt(d.levels, t)
             L == IF Left[t] \in Leaf THEN Basis(d.levels, Left[t], pairs) ELSE DOMAIN left
             R == IF Right[t] \in Leaf THEN Basis(d.levels, Right[t], pairs) ELSE DOMAIN right
             cells == (L \X R) \ pairs
         IN  FullLevel(d, t, left, right) = IF t = Root \/ cells = {} THEN d.levels[t] ELSE Append(d.levels[t], cells)
<1> DEFINE pairs == PairsAt(d.levels, t)
           L == IF Left[t] \in Leaf THEN Basis(d.levels, Left[t], pairs) ELSE DOMAIN left
           R == IF Right[t] \in Leaf THEN Basis(d.levels, Right[t], pairs) ELSE DOMAIN right
           with(levels, c, level) == IF c \in Leaf THEN levels ELSE [levels EXCEPT ![c] = level]
           one == with(d.levels, Left[t], left)
           new == with(one, Right[t], right)
<1>1. DOMAIN d.levels = Internal
  BY DEF InRange
<1>2. Left[t] # t /\ Right[t] # t /\ Left[t] # Right[t] /\ Left[t] \in Vtree /\ Right[t] \in Vtree
  BY InternalIs
<1>3. new = IF Right[t] \in Leaf THEN one ELSE [one EXCEPT ![Right[t]] = right]
  OBVIOUS
<1>4. DOMAIN one = Internal /\ one[t] = d.levels[t] /\ (Left[t] \notin Leaf => one[Left[t]] = left)
  BY <1>1, <1>2 DEF Vtree
<1> HIDE DEF one, new
<1>5. /\ new[t] = d.levels[t]
      /\ Left[t] \notin Leaf => new[Left[t]] = left
      /\ Right[t] \notin Leaf => new[Right[t]] = right
  BY <1>2, <1>3, <1>4 DEF Vtree
<1>6. PairsAt(new, t) = pairs
  BY <1>5 DEF PairsAt
<1>7. Basis(new, Left[t], pairs) = L /\ Basis(new, Right[t], pairs) = R
  BY <1>5 DEF Basis
<1>8. Fill(new, t) = (L \X R) \ pairs
  BY <1>6, <1>7 DEF Fill, Missing
<1>9. FullLevel(d, t, left, right)
        = IF t = Root \/ Fill(new, t) = {} THEN d.levels[t] ELSE Append(d.levels[t], Fill(new, t))
  BY DEF FullLevel, new, one
<1> QED  BY <1>8, <1>9

\* A completed level is a level.
LEMMA FullLevelValue ==
  ASSUME NEW d, InRange(d.levels), NEW t \in Internal, NEW left \in LevelValues, NEW right \in LevelValues
  PROVE  FullLevel(d, t, left, right) \in LevelValues
<1> DEFINE pairs == PairsAt(d.levels, t)
           L == IF Left[t] \in Leaf THEN Basis(d.levels, Left[t], pairs) ELSE DOMAIN left
           R == IF Right[t] \in Leaf THEN Basis(d.levels, Right[t], pairs) ELSE DOMAIN right
           cells == (L \X R) \ pairs
<1>1. \A c \in Leaf : Basis(d.levels, c, pairs) \subseteq Nat
  BY DEF Basis, One, Pos, Neg
<1>2. DOMAIN left \subseteq Nat /\ DOMAIN right \subseteq Nat
  BY DEF LevelValues
<1>3. L \subseteq Nat /\ R \subseteq Nat
  BY <1>1, <1>2
<1>4. FullLevel(d, t, left, right) = IF t = Root \/ cells = {} THEN d.levels[t] ELSE Append(d.levels[t], cells)
  BY FullLevelIs
<1> HIDE DEF L, R, pairs
<1>5. cells \in SUBSET (Nat \X Nat)
  BY <1>3
<1>6. d.levels[t] \in LevelValues
  BY LevelIs DEF LevelValues
<1>7. Append(d.levels[t], cells) \in LevelValues
  BY <1>5, <1>6 DEF LevelValues
<1> QED  BY <1>4, <1>6, <1>7

\* Completion works from the leaves up.
LEMMA ExpandFullIs ==
  ASSUME NEW d, InRange(d.levels)
  PROVE  LET levels == ExpandFull(d)
         IN  levels = [t \in Internal |-> levels[t]] /\ \A t \in Internal : levels[t] = Completed(d, levels, t)
<1> DEFINE empty == <<>>
           base == [t \in Leaf |-> empty]
           step == [x \in Internal \X LevelValues \X LevelValues |-> FullLevel(d, x[1], x[2], x[3])]
           body(full) == [t \in Leaf \cup Internal |->
                            IF t \in Leaf THEN <<>> ELSE FullLevel(d, t, full[Left[t]], full[Right[t]])]
<1>1. LevelValues # {} /\ base \in [Leaf -> LevelValues]
  <2>1. empty \in LevelValues
    BY DEF LevelValues
  <2> HIDE DEF empty
  <2> QED  BY <2>1
<1>2. step \in StepsUp(LevelValues)
  <2>1. \A x \in Internal \X LevelValues \X LevelValues : FullLevel(d, x[1], x[2], x[3]) \in LevelValues
    <3>1. SUFFICES ASSUME NEW x \in Internal \X LevelValues \X LevelValues
                   PROVE  FullLevel(d, x[1], x[2], x[3]) \in LevelValues
      OBVIOUS
    <3>2. x[1] \in Internal /\ x[2] \in LevelValues /\ x[3] \in LevelValues
      OBVIOUS
    <3> QED  BY <3>2, FullLevelValue
  <2> QED  BY <2>1 DEF StepsUp
<1>3. \A t \in Internal : \A l, r \in LevelValues : step[<<t, l, r>>] = FullLevel(d, t, l, r)
  OBVIOUS
<1>4. \A t \in Leaf : base[t] = <<>>
  OBVIOUS
<1> HIDE DEF base, step
<1>5. PICK f \in [Vtree -> LevelValues] : /\ \A t \in Leaf : f[t] = base[t]
                                          /\ \A t \in Internal : f[t] = step[<<t, f[Left[t]], f[Right[t]]>>]
  BY <1>1, <1>2, UpExists
<1>6. f = body(f)
  <2>1. \A t \in Internal : f[t] = FullLevel(d, t, f[Left[t]], f[Right[t]]) /\ t \notin Leaf
    <3>1. ASSUME NEW t \in Internal PROVE f[t] = FullLevel(d, t, f[Left[t]], f[Right[t]]) /\ t \notin Leaf
      <4>1. Left[t] \in Vtree /\ Right[t] \in Vtree /\ t \notin Leaf
        BY InternalIs
      <4>2. f[Left[t]] \in LevelValues /\ f[Right[t]] \in LevelValues
        BY <4>1
      <4>3. f[t] = step[<<t, f[Left[t]], f[Right[t]]>>]
        BY <1>5
      <4>4. step[<<t, f[Left[t]], f[Right[t]]>>] = FullLevel(d, t, f[Left[t]], f[Right[t]])
        BY <1>3, <4>2
      <4> QED  BY <4>1, <4>3, <4>4
    <3> QED  BY <3>1
  <2>2. \A t \in Vtree : f[t] = IF t \in Leaf THEN <<>> ELSE FullLevel(d, t, f[Left[t]], f[Right[t]])
    BY <1>4, <1>5, <2>1 DEF Vtree
  <2>3. f = [t \in Vtree |-> f[t]]
    OBVIOUS
  <2>4. f = [t \in Vtree |-> IF t \in Leaf THEN <<>> ELSE FullLevel(d, t, f[Left[t]], f[Right[t]])]
    BY <2>2, <2>3
  <2> QED  BY <2>4 DEF Vtree
<1> DEFINE full == CHOOSE g : g = body(g)
<1>7. full = body(full)
  <2> HIDE DEF body
  <2> QED  BY <1>6
<1>8. ExpandFull(d) = [t \in Internal |-> full[t]]
  BY TableIs DEF ExpandFull
<1> HIDE DEF full
<1>9. /\ \A t \in Leaf : full[t] = <<>>
      /\ \A t \in Internal : full[t] = FullLevel(d, t, full[Left[t]], full[Right[t]])
  BY <1>7, InternalIs
<1> DEFINE levels == ExpandFull(d)
<1>10. levels = [t \in Internal |-> levels[t]] /\ \A t \in Internal : levels[t] = full[t]
  BY <1>8
<1> HIDE DEF levels
<1>11. \A t \in Internal : levels[t] = Completed(d, levels, t)
  <2>1. ASSUME NEW c \in Vtree PROVE full[c] = IF c \in Leaf THEN <<>> ELSE levels[c]
    BY <1>9, <1>10 DEF Vtree
  <2>2. ASSUME NEW t \in Internal PROVE levels[t] = Completed(d, levels, t)
    BY <1>9, <1>10, <2>1, InternalIs DEF Completed
  <2> QED  BY <2>2
<1> QED  BY <1>10, <1>11 DEF levels

\* Cells beside a level's nodes, in its form.
Apart(old, t, cells) ==
  \A i \in DOMAIN old[t] : /\ cells \cap old[t][i] = {}
                           /\ OneForm(t, cells, old[t][i]) /\ OneForm(t, old[t][i], cells)

\* The levels of the children only grew.
Wider(old, levels, t) ==
  Slots(old, Left[t]) \subseteq Slots(levels, Left[t]) /\ Slots(old, Right[t]) \subseteq Slots(levels, Right[t])

\* A sequence is its table.
LEMMA SeqIs ==
  ASSUME NEW V, NEW s \in Seq(V)
  PROVE  IsSequence(s)
<1> DEFINE n == Len(s)
<1>1. n \in Nat /\ DOMAIN s = 1 .. n /\ s = [k \in 1 .. n |-> s[k]]
  OBVIOUS
<1> HIDE DEF n
<1> QED  BY <1>1 DEF IsSequence

\* An unchanged level fits above levels that only grew.
LEMMA SameFits ==
  ASSUME NEW old, InRange(old), Deterministic(old), NEW t \in Internal, NEW levels,
         levels[t] = old[t], Wider(old, levels, t)
  PROVE  LevelFits(levels, t)
<1>1. Len(old[t]) \in Nat /\ DOMAIN old[t] = 1 .. Len(old[t]) /\ old[t] \in Seq(SUBSET (Nat \X Nat))
  BY LevelIs
<1>2. IsSequence(levels[t])
  BY <1>1, SeqIs
<1>3. ASSUME NEW k \in DOMAIN levels[t], NEW q \in levels[t][k]
      PROVE  q = <<q[1], q[2]>> /\ q[1] \in Slots(levels, Left[t]) /\ q[2] \in Slots(levels, Right[t])
  BY <1>3, PairIs DEF Wider
<1>4. ASSUME NEW i \in DOMAIN levels[t], NEW j \in DOMAIN levels[t]
      PROVE  /\ t # Root /\ i # j => levels[t][i] \cap levels[t][j] = {}
             /\ t # Root \/ i = j => OneForm(t, levels[t][i], levels[t][j])
  BY <1>4, DeterministicIs
<1> QED  BY <1>2, <1>3, <1>4 DEF LevelFits

\* A level with one node more fits, when the node's cells are its own and in form.
LEMMA AppendFits ==
  ASSUME NEW old, InRange(old), Deterministic(old), NEW t \in Internal, NEW levels, NEW cells,
         levels[t] = Append(old[t], cells), Wider(old, levels, t),
         \A q \in cells : q = <<q[1], q[2]>> /\ q[1] \in Slots(levels, Left[t]) /\ q[2] \in Slots(levels, Right[t]),
         OneForm(t, cells, cells), t = Root \/ Apart(old, t, cells)
  PROVE  LevelFits(levels, t)
<1> DEFINE s == old[t]
           n == Len(s)
           made == levels[t]
<1>1. n \in Nat /\ DOMAIN s = 1 .. n /\ s \in Seq(SUBSET (Nat \X Nat))
  BY LevelIs
<1>2. /\ DOMAIN made = 1 .. (n + 1) /\ made = [k \in 1 .. (n + 1) |-> made[k]]
      /\ \A k \in 1 .. n : made[k] = old[t][k] /\ k \in DOMAIN old[t]
      /\ made[n + 1] = cells
  BY <1>1
<1>3. IsSequence(made)
  BY <1>1, <1>2 DEF IsSequence
<1> HIDE DEF made, n
<1>4. ASSUME NEW k \in DOMAIN made, NEW q \in made[k]
      PROVE  q = <<q[1], q[2]>> /\ q[1] \in Slots(levels, Left[t]) /\ q[2] \in Slots(levels, Right[t])
  <2>1. CASE k = n + 1
    BY <1>2, <1>4, <2>1
  <2>2. CASE k # n + 1
    <3>1. k \in 1 .. n
      BY <1>1, <1>2, <2>2
    <3>2. k \in DOMAIN old[t] /\ q \in old[t][k]
      BY <1>2, <1>4, <3>1
    <3> QED  BY <3>2, PairIs DEF Wider
  <2> QED  BY <2>1, <2>2
<1>5. ASSUME NEW i \in DOMAIN made, NEW j \in DOMAIN made
      PROVE  /\ t # Root /\ i # j => made[i] \cap made[j] = {}
             /\ t # Root \/ i = j => OneForm(t, made[i], made[j])
  <2>1. \A k \in DOMAIN made : k # n + 1 => made[k] = old[t][k] /\ k \in DOMAIN old[t]
    <3>1. \A k \in DOMAIN made : k # n + 1 => k \in 1 .. n
      BY <1>1, <1>2
    <3> QED  BY <1>2, <3>1
  <2>2. \A a, b \in DOMAIN old[t] : /\ t # Root /\ a # b => old[t][a] \cap old[t][b] = {}
                                    /\ t # Root \/ a = b => OneForm(t, old[t][a], old[t][b])
    BY DeterministicIs
  <2>3. CASE i = n + 1 /\ j = n + 1
    BY <1>2, <2>3
  <2>4. CASE i = n + 1 /\ j # n + 1
    <3>1. made[i] = cells /\ made[j] = old[t][j] /\ j \in DOMAIN old[t]
      BY <1>2, <2>1, <2>4
    <3> QED  BY <2>4, <3>1 DEF Apart
  <2>5. CASE i # n + 1 /\ j = n + 1
    <3>1. made[j] = cells /\ made[i] = old[t][i] /\ i \in DOMAIN old[t]
      BY <1>2, <2>1, <2>5
    <3> QED  BY <2>5, <3>1 DEF Apart
  <2>6. CASE i # n + 1 /\ j # n + 1
    BY <2>1, <2>2, <2>6
  <2> QED  BY <2>3, <2>4, <2>5, <2>6
<1> QED  BY <1>3, <1>4, <1>5 DEF LevelFits, made

\* All the pairs of a level below the root are in one form.
LEMMA PairsForm ==
  ASSUME NEW levels, Deterministic(levels), NEW t \in Internal, t # Root
  PROVE  OneForm(t, PairsAt(levels, t), PairsAt(levels, t))
<1>1. \A i, j \in DOMAIN levels[t] : OneForm(t, levels[t][i], levels[t][j])
  BY DeterministicIs
<1>2. \A p \in PairsAt(levels, t) : \E i \in DOMAIN levels[t] : p \in levels[t][i]
  BY DEF PairsAt, PairsOf
<1> QED  BY <1>1, <1>2 DEF OneForm

\* What a completed level is.
LEMMA ExpandAt ==
  ASSUME NEW d, InRange(d.levels), NEW t \in Internal
  PROVE  LET levels == ExpandFull(d)
             cells  == Missing(levels, t, PairsAt(d.levels, t))
         IN  levels[t] = IF t = Root \/ cells = {} THEN d.levels[t] ELSE Append(d.levels[t], cells)
<1> DEFINE levels == ExpandFull(d)
           pairs  == PairsAt(d.levels, t)
           empty  == <<>>
           left   == IF Left[t] \in Leaf THEN empty ELSE levels[Left[t]]
           right  == IF Right[t] \in Leaf THEN empty ELSE levels[Right[t]]
           L == IF Left[t] \in Leaf THEN Basis(d.levels, Left[t], pairs) ELSE DOMAIN left
           R == IF Right[t] \in Leaf THEN Basis(d.levels, Right[t], pairs) ELSE DOMAIN right
           cells == (L \X R) \ pairs
<1>1. levels[t] = FullLevel(d, t, left, right)
  BY ExpandFullIs DEF Completed
<1> HIDE DEF left, right
<1>2. FullLevel(d, t, left, right) = IF t = Root \/ cells = {} THEN d.levels[t] ELSE Append(d.levels[t], cells)
  BY FullLevelIs
<1>3. L = Basis(levels, Left[t], pairs) /\ R = Basis(levels, Right[t], pairs)
  BY DEF Basis, left, right
<1>4. cells = Missing(levels, t, pairs)
  BY <1>3 DEF Missing
<1> HIDE DEF cells, levels, pairs
<1> QED  BY <1>1, <1>2, <1>4 DEF levels, pairs

\* Completion leaves the levels in range and deterministic, and moves no node (expand_full).
LEMMA ExpandSound ==
  ASSUME NEW d, InRange(d.levels), Deterministic(d.levels)
  PROVE  LET levels == ExpandFull(d)
         IN  /\ InRange(levels) /\ Deterministic(levels)
             /\ levels[Root] = d.levels[Root]
             /\ \A t \in Internal : DOMAIN d.levels[t] \subseteq DOMAIN levels[t]
<1> DEFINE levels == ExpandFull(d)
           cells(t) == Missing(levels, t, PairsAt(d.levels, t))
<1>1. levels = [t \in Internal |-> levels[t]]
  BY ExpandFullIs
<1>2. \A t \in Internal : levels[t] = IF t = Root \/ cells(t) = {} THEN d.levels[t] ELSE Append(d.levels[t], cells(t))
  BY ExpandAt
<1> HIDE DEF levels, cells
<1>3. levels[Root] = d.levels[Root]
  BY <1>2, RootIs
<1>4. ASSUME NEW t \in Internal PROVE DOMAIN d.levels[t] \subseteq DOMAIN levels[t]
  <2>1. Len(d.levels[t]) \in Nat /\ DOMAIN d.levels[t] = 1 .. Len(d.levels[t])
    BY LevelIs
  <2>2. d.levels[t] \in Seq(SUBSET (Nat \X Nat))
    BY LevelIs
  <2>3. DOMAIN d.levels[t] \subseteq DOMAIN Append(d.levels[t], cells(t))
    BY <2>1, <2>2
  <2> QED  BY <1>2, <2>3
<1>5. ASSUME NEW t \in Internal PROVE Wider(d.levels, levels, t)
  <2>1. Left[t] \in Vtree /\ Right[t] \in Vtree
    BY InternalIs
  <2>2. \A c \in Vtree : Slots(d.levels, c) \subseteq Slots(levels, c)
    BY <1>4 DEF Slots, Vtree
  <2> QED  BY <2>1, <2>2 DEF Wider
<1>6. ASSUME NEW t \in Internal PROVE LevelFits(levels, t)
  <2>1. CASE levels[t] = d.levels[t]
    BY <1>5, <2>1, SameFits
  <2>2. CASE t # Root /\ levels[t] = Append(d.levels[t], cells(t))
    <3> DEFINE pairs == PairsAt(d.levels, t)
               new == cells(t)
    <3>1. OneForm(t, pairs, pairs)
      BY <2>2, PairsForm
    <3>2. new \subseteq Missing(levels, t, pairs)
      BY DEF cells
    <3> HIDE DEF pairs, new
    <3>3. /\ \A q \in new : q = <<q[1], q[2]>> /\ q[1] \in Slots(levels, Left[t]) /\ q[2] \in Slots(levels, Right[t])
          /\ new \cap pairs = {}
          /\ OneForm(t, new, new) /\ OneForm(t, new, pairs) /\ OneForm(t, pairs, new)
      BY <3>1, <3>2, MissingIs
    <3>4. Apart(d.levels, t, new)
      <4>1. \A i \in DOMAIN d.levels[t] : d.levels[t][i] \subseteq pairs
        BY DEF pairs, PairsAt, PairsOf
      <4>2. ASSUME NEW i \in DOMAIN d.levels[t]
            PROVE  /\ new \cap d.levels[t][i] = {}
                   /\ OneForm(t, new, d.levels[t][i]) /\ OneForm(t, d.levels[t][i], new)
        BY <3>3, <4>1 DEF OneForm
      <4> QED  BY <4>2 DEF Apart
    <3>5. levels[t] = Append(d.levels[t], new)
      BY <2>2 DEF new
    <3> QED  BY <1>5, <3>3, <3>4, <3>5, AppendFits
  <2> QED  BY <1>2, <2>1, <2>2
<1>7. InRange(levels) /\ Deterministic(levels)
  BY <1>1, <1>6, AllFit
<1> QED  BY <1>3, <1>4, <1>7 DEF levels

\* cube_levels: one node a level.
Labels == {1, 2, 3}

\* A cube is sound (cube_levels).
LEMMA CubeSound ==
  ASSUME NEW label, \A v \in Leaf : label[v] \in Labels
  PROVE  Sound(Cube(label)) /\ Len(Cube(label).levels[Root]) = 1
<1> DEFINE at(c) == IF c \in Leaf THEN label[c] ELSE 1
           pair(t) == <<at(Left[t]), at(Right[t])>>
           node(t) == <<{pair(t)}>>
           levels == [t \in Internal |-> node(t)]
           yes == TRUE
           none == {}
           out == 1
<1>1. Cube(label) = Diagram(levels, out, none, none, none, yes)
  BY DEF Cube, Seated
<1>2. \A t \in Internal : /\ DOMAIN levels[t] = {1} /\ IsSequence(levels[t])
                          /\ levels[t][1] = {pair(t)} /\ Len(levels[t]) = 1
  <2>1. ASSUME NEW t \in Internal
        PROVE  /\ DOMAIN levels[t] = {1} /\ IsSequence(levels[t])
               /\ levels[t][1] = {pair(t)} /\ Len(levels[t]) = 1
    <3> DEFINE x == {pair(t)}
    <3>1. levels[t] = <<x>>
      OBVIOUS
    <3> HIDE DEF x, levels
    <3>2. DOMAIN <<x>> = 1 .. 1 /\ <<x>> = [k \in 1 .. 1 |-> <<x>>[k]] /\ 1 .. 1 = {1} /\ 1 \in Nat
      OBVIOUS
    <3>3. IsSequence(<<x>>)
      BY <3>2 DEF IsSequence
    <3>4. DOMAIN levels[t] = {1} /\ levels[t][1] = x /\ Len(levels[t]) = 1 /\ IsSequence(levels[t])
      BY <3>1, <3>2, <3>3
    <3> QED  BY <3>4 DEF x
  <2> QED  BY <2>1
<1>3. \A t \in Internal : pair(t) = <<pair(t)[1], pair(t)[2]>> /\ pair(t)[1] = at(Left[t]) /\ pair(t)[2] = at(Right[t])
  OBVIOUS
<1>4. levels = [t \in Internal |-> levels[t]]
  OBVIOUS
<1> HIDE DEF levels, pair, node
<1>5. \A c \in Vtree : at(c) \in Slots(levels, c)
  <2>1. ASSUME NEW c \in Leaf PROVE at(c) \in Slots(levels, c)
    BY LeafSlots DEF Labels
  <2>2. ASSUME NEW c \in Internal PROVE at(c) \in Slots(levels, c)
    BY <1>2, InternalIs DEF Slots
  <2> QED  BY <2>1, <2>2 DEF Vtree
<1>6. ASSUME NEW t \in Internal PROVE LevelFits(levels, t)
  <2>1. IsSequence(levels[t])
    BY <1>2
  <2>2. Left[t] \in Vtree /\ Right[t] \in Vtree
    BY InternalIs
  <2>3. \A k \in DOMAIN levels[t] : k = 1
    BY <1>2
  <2>4. ASSUME NEW k \in DOMAIN levels[t], NEW q \in levels[t][k]
        PROVE  q = <<q[1], q[2]>> /\ q[1] \in Slots(levels, Left[t]) /\ q[2] \in Slots(levels, Right[t])
    BY <1>2, <1>3, <1>5, <2>2, <2>3, <2>4
  <2>5. OneForm(t, levels[t][1], levels[t][1])
    BY <1>2 DEF OneForm
  <2> QED  BY <2>1, <2>3, <2>4, <2>5 DEF LevelFits
<1>7. InRange(levels) /\ Deterministic(levels)
  BY <1>4, <1>6, AllFit
<1>8. out \in DOMAIN levels[Root] /\ Len(levels[Root]) = 1
  BY <1>2, RootIs
<1>9. none \subseteq Internal /\ none \subseteq Internal \ {Root} /\ yes \in BOOLEAN
  OBVIOUS
<1> HIDE DEF yes, none, out
<1>10. Sound(Diagram(levels, out, none, none, none, yes))
  <2>1. out \in {Zero} \cup DOMAIN levels[Root] /\ Len(levels[Root]) <= 1
    BY <1>8
  <2> QED  BY <1>7, <1>9, <2>1, SoundDiagram
<1>11. Diagram(levels, out, none, none, none, yes).levels = levels
  BY DiagramIs
<1> QED  BY <1>1, <1>8, <1>10, <1>11

\* The constants are sound.
LEMMA ConstantsSound == Sound(ConstantTrue) /\ Sound(ConstantFalse)
<1>1. Sound(ConstantTrue)
  <2> DEFINE label == [v \in Leaf |-> One]
  <2>1. \A v \in Leaf : label[v] \in Labels
    BY DEF Labels, One
  <2> HIDE DEF label
  <2>2. Sound(Cube(label))
    BY <2>1, CubeSound
  <2> QED  BY <2>2 DEF ConstantTrue, label
<1>2. Sound(ConstantFalse)
  <2> DEFINE z == Zero
             none == {}
             yes == TRUE
  <2>1. /\ z \in {Zero} \cup DOMAIN NoLevels[Root] /\ none \subseteq Internal /\ none \subseteq Internal \ {Root}
        /\ yes \in BOOLEAN /\ Len(NoLevels[Root]) <= 1
    BY NothingIs
  <2> HIDE DEF z, none, yes
  <2>2. Sound(Diagram(NoLevels, z, none, none, none, yes))
    BY <2>1, NothingIs, SoundDiagram
  <2> QED  BY <2>2 DEF ConstantFalse, Seated, z, none, yes
<1> QED  BY <1>1, <1>2

\* The complement's root level: a node beside the old output.
Complemented(d, cells) == [ExpandFull(d) EXCEPT ![Root] = Append(@, cells)]

\* The levels of a complement are in range and deterministic.
LEMMA ComplementedSound ==
  ASSUME NEW d, Sound(d), d.out # Zero, NEW cells,
         cells \subseteq Missing(ExpandFull(d), Root, ExpandFull(d)[Root][d.out])
  PROVE  LET new == Complemented(d, cells)
         IN  /\ InRange(new) /\ Deterministic(new)
             /\ Len(d.levels[Root]) \in Nat /\ DOMAIN new[Root] = 1 .. (Len(d.levels[Root]) + 1)
             /\ d.certified => /\ DOMAIN new[Root] = {1, 2} /\ new[Root] # <<>> /\ d.out = 1
                               /\ Strict(new)
<1> DEFINE old   == ExpandFull(d)
           new   == Complemented(d, cells)
           n     == Len(d.levels[Root])
           pairs == old[Root][d.out]
<1>1. InRange(d.levels) /\ Deterministic(d.levels) /\ d.out \in {Zero} \cup DOMAIN d.levels[Root]
      /\ (d.certified => n <= 1)
  BY SoundIs
<1>2. /\ InRange(old) /\ Deterministic(old) /\ old[Root] = d.levels[Root]
  BY <1>1, ExpandSound
<1>3. Root \in Internal /\ \A t \in Internal : Left[t] # Root /\ Right[t] # Root
  BY RootIs, InternalIs
<1>4. DOMAIN old = Internal
  BY <1>2 DEF InRange
<1> HIDE DEF old
<1>5. /\ new = [t \in Internal |-> new[t]]
      /\ new[Root] = Append(old[Root], cells)
      /\ \A t \in Internal \ {Root} : new[t] = old[t]
  <2>1. new = [old EXCEPT ![Root] = Append(old[Root], cells)]
    BY DEF Complemented, old
  <2> QED  BY <1>3, <1>4, <2>1
<1> HIDE DEF new
<1>6. /\ n \in Nat /\ DOMAIN old[Root] = 1 .. n /\ Len(old[Root]) = n
      /\ old[Root] \in Seq(SUBSET (Nat \X Nat))
      /\ DOMAIN new[Root] = 1 .. (n + 1)
      /\ \A k \in 1 .. n : new[Root][k] = old[Root][k]
      /\ new[Root][n + 1] = cells
  <2>1. n \in Nat /\ DOMAIN old[Root] = 1 .. n /\ Len(old[Root]) = n /\ old[Root] \in Seq(SUBSET (Nat \X Nat))
    BY <1>2, <1>3, LevelIs
  <2> DEFINE s == old[Root]
             r == new[Root]
  <2>2. r = Append(s, cells) /\ s \in Seq(SUBSET (Nat \X Nat)) /\ n = Len(s) /\ n \in Nat
    BY <1>5, <2>1
  <2> HIDE DEF s, r, n
  <2>3. DOMAIN r = 1 .. (n + 1) /\ (\A k \in 1 .. n : r[k] = s[k]) /\ r[n + 1] = cells
    BY <2>2
  <2> QED  BY <2>1, <2>3 DEF s, r
<1>7. DOMAIN old[Root] \subseteq DOMAIN new[Root]
  BY <1>6
<1>8. d.out \in DOMAIN old[Root]
  BY <1>1, <1>2
<1>9. OneForm(Root, pairs, pairs)
  BY <1>2, <1>3, <1>8, DeterministicIs
<1>10. ASSUME NEW t \in Internal PROVE Wider(old, new, t) /\ Wider(new, old, t)
  <2>1. \A c \in Vtree \ {Root} : Slots(old, c) = Slots(new, c)
    BY <1>5 DEF Slots, Vtree
  <2> QED  BY <1>3, <2>1, InternalIs DEF Wider
<1> DEFINE all == Missing(old, Root, pairs)
<1>11. cells \subseteq all
  BY DEF old
<1> HIDE DEF pairs
<1>12. /\ \A q \in cells : q = <<q[1], q[2]>> /\ q[1] \in Slots(old, Left[Root]) /\ q[2] \in Slots(old, Right[Root])
       /\ cells \cap pairs = {}
       /\ OneForm(Root, cells, cells) /\ OneForm(Root, cells, pairs) /\ OneForm(Root, pairs, cells)
  BY <1>3, <1>9, <1>11, MissingIs
<1>13. \A q \in cells : q = <<q[1], q[2]>> /\ q[1] \in Slots(new, Left[Root]) /\ q[2] \in Slots(new, Right[Root])
  BY <1>3, <1>10, <1>12 DEF Wider
<1>14. ASSUME NEW t \in Internal PROVE LevelFits(new, t)
  <2>1. CASE t = Root
    BY <1>2, <1>3, <1>5, <1>10, <1>12, <1>13, <2>1, AppendFits
  <2>2. CASE t # Root
    BY <1>2, <1>5, <1>10, <2>2, SameFits
  <2> QED  BY <2>1, <2>2
<1>15. InRange(new) /\ Deterministic(new)
  BY <1>5, <1>14, AllFit
<1>16. ASSUME d.certified
       PROVE  DOMAIN new[Root] = {1, 2} /\ new[Root] # <<>> /\ d.out = 1 /\ Strict(new)
  <2>1. n = 1 /\ d.out = 1
    <3>1. n \in Nat /\ n <= 1 /\ d.out \in 1 .. n
      BY <1>1, <1>6, <1>8, <1>16
    <3> HIDE DEF n
    <3> QED  BY <3>1
  <2>2. DOMAIN new[Root] = {1, 2}
    BY <1>6, <2>1
  <2>3. new[Root][1] = pairs /\ new[Root][2] = cells
    BY <1>6, <2>1 DEF pairs
  <2>4. new[Root] # <<>>
    <3>1. DOMAIN <<>> = {}
      OBVIOUS
    <3> QED  BY <2>2, <3>1
  <2>5. ASSUME NEW t \in Internal, NEW i \in DOMAIN new[t], NEW j \in DOMAIN new[t]
        PROVE  (i # j => new[t][i] \cap new[t][j] = {}) /\ OneForm(t, new[t][i], new[t][j])
    <3>1. CASE t # Root
      BY <1>15, <2>5, <3>1, DeterministicIs
    <3>2. CASE t = Root
      <4>1. i \in {1, 2} /\ j \in {1, 2}
        BY <2>2, <2>5, <3>2
      <4> QED  BY <1>9, <1>12, <2>3, <3>2, <4>1
    <3> QED  BY <3>1, <3>2
  <2> QED  BY <2>1, <2>2, <2>4, <2>5 DEF Strict
<1> QED  BY <1>6, <1>15, <1>16 DEF new

\* A complement is sound, and beside the old output when the operand was canonical (negate).
LEMMA ComplementSound ==
  ASSUME NEW d, Sound(d)
  PROVE  /\ Sound(Complement(d).result) /\ Complement(d).old \in Nat
         /\ d.certified /\ Complement(d).old # 0 => Beside(Complement(d).result, Complement(d).old)
<1>1. CASE d.out = Zero
  <2>1. Complement(d) = [result |-> ConstantTrue, old |-> 0]
    BY <1>1 DEF Complement
  <2>2. Complement(d).result = ConstantTrue /\ Complement(d).old = 0
    BY <2>1
  <2> QED  BY <2>2, ConstantsSound
<1>2. CASE d.out # Zero
  <2> DEFINE levels == ExpandFull(d)
             alive(p) == /\ Left[Root] \in Leaf \/ levels[Left[Root]][p[1]] # {}
                         /\ Right[Root] \in Leaf \/ levels[Right[Root]][p[2]] # {}
             cells  == {p \in Missing(levels, Root, levels[Root][d.out]) : alive(p)}
             owed   == Owes(d, levels)
             no     == FALSE
             loose  == Children(Root) \ Leaf
             out    == Len(levels[Root]) + 1
             made   == Diagram(Complemented(d, cells), out, d.contract \cup owed, d.leaves \cup owed, loose, no)
             full   == [result |-> made, old |-> d.out]
             empty  == [result |-> ConstantFalse, old |-> 0]
  <2>1. Complement(d) = IF cells = {} THEN empty ELSE full
    BY <1>2 DEF Complement, Complemented
  <2>2. InRange(d.levels) /\ Deterministic(d.levels) /\ d.out \in {Zero} \cup DOMAIN d.levels[Root]
        /\ d.contract \subseteq Internal /\ d.leaves \subseteq Internal
    BY SoundIs
  <2>3. cells \subseteq Missing(ExpandFull(d), Root, ExpandFull(d)[Root][d.out])
    OBVIOUS
  <2>4. levels[Root] = d.levels[Root]
    BY <2>2, ExpandSound
  <2>5. owed \subseteq Internal
    BY RootIs DEF Owes, Filled
  <2>6. loose \subseteq Internal \ {Root}
    BY RootIs, InternalIs DEF Children, Vtree
  <2>7. no \in BOOLEAN /\ ~no
    OBVIOUS
  <2> HIDE DEF cells, owed, no, loose
  <2> DEFINE new == Complemented(d, cells)
  <2>8. /\ InRange(new) /\ Deterministic(new)
        /\ Len(d.levels[Root]) \in Nat /\ DOMAIN new[Root] = 1 .. (Len(d.levels[Root]) + 1)
        /\ d.certified => /\ DOMAIN new[Root] = {1, 2} /\ new[Root] # <<>> /\ d.out = 1
                          /\ Strict(new)
    BY <1>2, <2>3, ComplementedSound
  <2>9. out = Len(d.levels[Root]) + 1
    BY <2>4
  <2> HIDE DEF new, levels, out
  <2>10. out \in DOMAIN new[Root]
    BY <2>8, <2>9
  <2>11. d.contract \cup owed \subseteq Internal /\ d.leaves \cup owed \subseteq Internal
    BY <2>2, <2>5
  <2> DEFINE a == d.contract \cup owed
             b == d.leaves \cup owed
  <2>12. a \subseteq Internal /\ b \subseteq Internal
    BY <2>11
  <2> HIDE DEF a, b
  <2>13. Sound(Diagram(new, out, a, b, loose, no))
    BY <2>6, <2>7, <2>8, <2>10, <2>12, SoundDiagram
  <2>14. made = Diagram(new, out, a, b, loose, no)
    BY DEF new, a, b
  <2>15. made.levels = new /\ made.out = out
    BY <2>14, DiagramIs
  <2>16. Sound(made)
    BY <2>13, <2>14
  <2> HIDE DEF made
  <2>17. d.certified => out = 2
    <3>1. ASSUME d.certified PROVE out = 2
      <4> DEFINE n == Len(d.levels[Root])
      <4>1. n \in Nat /\ 1 .. (n + 1) = {1, 2} /\ out = n + 1
        BY <2>8, <2>9, <3>1
      <4> HIDE DEF n
      <4>2. n + 1 \in {1, 2} /\ 2 \in 1 .. (n + 1)
        BY <4>1
      <4> QED  BY <4>1, <4>2
    <3> QED  BY <3>1
  <2>18. d.certified => Beside(made, d.out)
    BY <2>8, <2>15, <2>17 DEF Beside
  <2>19. d.out \in Nat
    BY <2>2, LevelIs, RootIs DEF Zero
  <2>20. CASE cells = {}
    <3>1. Complement(d).result = ConstantFalse /\ Complement(d).old = 0
      BY <2>1, <2>20
    <3> QED  BY <3>1, ConstantsSound
  <2>21. CASE cells # {}
    <3>1. Complement(d).result = made /\ Complement(d).old = d.out
      BY <2>1, <2>21
    <3> QED  BY <2>16, <2>18, <2>19, <3>1
  <2> QED  BY <2>20, <2>21
<1> QED  BY <1>1, <1>2

-------------------------------------------------------------------------------
(* Conditioning (apply/condition). *)

\* Restricting a leaf leaves a sound diagram.
LEMMA RestrictedSound ==
  ASSUME NEW d, Sound(d), NEW c \in Leaf, NEW value
  PROVE  /\ Sound(Restricted(d, c, value)) /\ Restricted(d, c, value).out = d.out
         /\ \A u \in Internal : DOMAIN Restricted(d, c, value).levels[u] = DOMAIN d.levels[u]
<1> DEFINE t == Parent[c]
           level == d.levels[t]
           gone == IF value THEN Neg ELSE Pos
           node == [k \in DOMAIN level |-> Cofactor(level[k], c, value)]
           made == Releveled(d, t, node)
<1>0. t \in Internal /\ c \in Children(t)
  BY HasParent, RootIs, InternalIs DEF Vtree
<1>1. Restricted(d, c, value) = IF level = <<>> THEN d ELSE made
  BY DEF Restricted, Releveled
<1>2. InRange(d.levels) /\ Deterministic(d.levels)
  BY SoundIs
<1> HIDE DEF t
<1>3. DOMAIN level = 1 .. Len(level) /\ Len(level) \in Nat
  BY <1>0, <1>2, LevelIs
<1>4. DOMAIN node = DOMAIN level /\ IsSequence(node)
  BY <1>3 DEF IsSequence
<1>5. \A k \in DOMAIN node : \A q \in node[k] : \E p \in level[k] : p[Side(c)] # gone /\ q = Renamed(p, c, One)
  BY DEF Cofactor
<1>6. gone \in {1, 2}
  BY DEF Neg, Pos
<1> HIDE DEF node, gone
<1>7. ASSUME t # Root, NEW i \in DOMAIN level, NEW j \in DOMAIN level, i # j, NEW q \in node[i], q \in node[j]
      PROVE  FALSE
  <2>1. PICK p1 \in level[i] : q = Renamed(p1, c, One) /\ p1[Side(c)] # gone
    BY <1>4, <1>5
  <2>2. PICK p2 \in level[j] : q = Renamed(p2, c, One) /\ p2[Side(c)] # gone
    BY <1>4, <1>5, <1>7
  <2>3. Renamed(p1, c, One)[Side(Sibling(c))] = p1[Side(Sibling(c))]
    BY <1>0, RenamedIs
  <2>4. Renamed(p2, c, One)[Side(Sibling(c))] = p2[Side(Sibling(c))]
    BY <1>0, RenamedIs
  <2>5. p1[Side(Sibling(c))] = p2[Side(Sibling(c))]
    BY <2>1, <2>2, <2>3, <2>4
  <2>6. level[i] \cap level[j] = {} /\ OneForm(t, level[i], level[j])
    BY <1>0, <1>2, <1>7, DeterministicIs
  <2>7. p1[Side(c)] = 3 <=> p2[Side(c)] = 3
    BY <1>0, <2>6, OneFormSides
  <2>8. p1[Side(c)] \in {1, 2, 3} /\ p2[Side(c)] \in {1, 2, 3}
    BY <1>0, <1>2, SidesIs, LeafSlots
  <2>9. p1[Side(c)] = p2[Side(c)]
    BY <1>6, <2>1, <2>2, <2>7, <2>8
  <2> QED  BY <1>0, <1>2, <2>5, <2>6, <2>9, SidesIs
<1>8. Ones(d, t, c, node)
  <2>1. \A k \in DOMAIN node : \A q \in node[k] : \E p \in d.levels[t][k] : q = Renamed(p, c, One)
    BY <1>5
  <2>2. t # Root => \A i, j \in DOMAIN node : i # j => node[i] \cap node[j] = {}
    BY <1>4, <1>7
  <2> QED  BY <1>4, <2>1, <2>2 DEF Ones
<1>9. /\ Sound(made) /\ made.out = d.out
      /\ \A u \in Internal : DOMAIN made.levels[u] = DOMAIN d.levels[u]
  BY <1>0, <1>8, ReleveledSound
<1> HIDE DEF made
<1> QED  BY <1>1, <1>9

\* Levels each of which holds some pairs of each node.
Thinned(old, levels) ==
  \A t \in Internal : /\ DOMAIN levels[t] = DOMAIN old[t] /\ IsSequence(levels[t])
                      /\ \A k \in DOMAIN old[t] : levels[t][k] \subseteq old[t][k]

\* Levels with pairs taken away stay in range and deterministic.
LEMMA ThinnedSound ==
  ASSUME NEW old, InRange(old), Deterministic(old), NEW levels, levels = [t \in Internal |-> levels[t]],
         Thinned(old, levels)
  PROVE  InRange(levels) /\ Deterministic(levels)
<1>1. \A c \in Vtree : Slots(levels, c) = Slots(old, c)
  BY DEF Slots, Vtree, Thinned
<1>2. ASSUME NEW t \in Internal PROVE LevelFits(levels, t)
  <2>1. Left[t] \in Vtree /\ Right[t] \in Vtree
    BY InternalIs
  <2>2. ASSUME NEW k \in DOMAIN levels[t], NEW q \in levels[t][k]
        PROVE  q = <<q[1], q[2]>> /\ q[1] \in Slots(levels, Left[t]) /\ q[2] \in Slots(levels, Right[t])
    <3>1. k \in DOMAIN old[t] /\ q \in old[t][k]
      BY <2>2 DEF Thinned
    <3> QED  BY <1>1, <2>1, <3>1, PairIs
  <2>3. ASSUME NEW i \in DOMAIN levels[t], NEW j \in DOMAIN levels[t]
        PROVE  /\ t # Root /\ i # j => levels[t][i] \cap levels[t][j] = {}
               /\ t # Root \/ i = j => OneForm(t, levels[t][i], levels[t][j])
    <3>1. /\ i \in DOMAIN old[t] /\ j \in DOMAIN old[t]
          /\ levels[t][i] \subseteq old[t][i] /\ levels[t][j] \subseteq old[t][j]
      BY <2>3 DEF Thinned
    <3>2. /\ t # Root /\ i # j => old[t][i] \cap old[t][j] = {}
          /\ t # Root \/ i = j => OneForm(t, old[t][i], old[t][j])
      BY <3>1, DeterministicIs
    <3>3. OneForm(t, old[t][i], old[t][j]) => OneForm(t, levels[t][i], levels[t][j])
      BY <3>1 DEF OneForm
    <3> QED  BY <3>1, <3>2, <3>3
  <2>4. IsSequence(levels[t])
    BY DEF Thinned
  <2> QED  BY <2>2, <2>3, <2>4 DEF LevelFits
<1> QED  BY <1>2, AllFit

\* The pairs that name no false node are some of the pairs.
LEMMA LivePairsIs ==
  ASSUME NEW level \in LevelValues, NEW t, NEW left, NEW right
  PROVE  LET made == LivePairs(level, t, left, right)
         IN  /\ made \in LevelValues /\ DOMAIN made = DOMAIN level /\ IsSequence(made)
             /\ \A k \in DOMAIN level : made[k] \subseteq level[k]
<1> DEFINE keep(k) == {p \in level[k] : /\ Left[t] \in Leaf \/ left[p[1]] # {}
                                        /\ Right[t] \in Leaf \/ right[p[2]] # {}}
           n == Len(level)
           made == [k \in DOMAIN level |-> keep(k)]
<1>1. LivePairs(level, t, left, right) = made
  BY DEF LivePairs
<1>2. \A k : keep(k) \subseteq level[k]
  OBVIOUS
<1>3. n \in Nat /\ DOMAIN level = 1 .. n /\ \A k \in 1 .. n : level[k] \in SUBSET (Nat \X Nat)
  BY DEF LevelValues
<1> HIDE DEF keep, n
<1>4. \A k \in 1 .. n : keep(k) \in SUBSET (Nat \X Nat)
  BY <1>2, <1>3
<1> DEFINE V == SUBSET (Nat \X Nat)
<1>5. made \in Seq(V)
  <2>1. made = [k \in 1 .. n |-> keep(k)]
    BY <1>3
  <2>2. \A k \in 1 .. n : keep(k) \in V
    BY <1>4
  <2> HIDE DEF V
  <2>3. [k \in 1 .. n |-> keep(k)] \in [1 .. n -> V]
    BY <2>2
  <2>4. [k \in 1 .. n |-> keep(k)] \in Seq(V)
    BY <1>3, <2>3
  <2> QED  BY <2>1, <2>4
<1>6. DOMAIN made = DOMAIN level /\ \A k \in DOMAIN level : made[k] \subseteq level[k]
  BY <1>2
<1> HIDE DEF made
<1>7. IsSequence(made)
  BY <1>5, SeqIs
<1> QED  BY <1>1, <1>5, <1>6, <1>7 DEF LevelValues

\* The pairs that name no empty node.
Unfalse(levels, t, pairs) ==
  {p \in pairs : /\ Left[t] \in Leaf \/ levels[Left[t]][p[1]] # {}
                 /\ Right[t] \in Leaf \/ levels[Right[t]][p[2]] # {}}

\* Dropping false nodes thins the levels.
LEMMA DroppedIs ==
  ASSUME NEW levels, InRange(levels)
  PROVE  LET made == FalseNodesDropped(levels)
         IN  /\ made = [t \in Internal |-> made[t]] /\ Thinned(levels, made)
             /\ \A t \in Internal : \A k \in DOMAIN levels[t] : made[t][k] = Unfalse(made, t, levels[t][k])
<1> DEFINE empty == <<>>
           base == [t \in Leaf |-> empty]
           step == [x \in Internal \X LevelValues \X LevelValues |-> LivePairs(levels[x[1]], x[1], x[2], x[3])]
           body(live) == [t \in Leaf \cup Internal |->
              IF t \in Leaf THEN <<>> ELSE Table(LivePairs(levels[t], t, live[Left[t]], live[Right[t]]))]
<1>0. \A t \in Internal : levels[t] \in LevelValues
  BY LevelIs DEF LevelValues
<1>1. LevelValues # {} /\ base \in [Leaf -> LevelValues]
  <2>1. empty \in LevelValues
    BY DEF LevelValues
  <2> HIDE DEF empty
  <2> QED  BY <2>1
<1>2. step \in StepsUp(LevelValues)
  <2>1. \A x \in Internal \X LevelValues \X LevelValues : LivePairs(levels[x[1]], x[1], x[2], x[3]) \in LevelValues
    <3>1. SUFFICES ASSUME NEW x \in Internal \X LevelValues \X LevelValues
                   PROVE  LivePairs(levels[x[1]], x[1], x[2], x[3]) \in LevelValues
      OBVIOUS
    <3>2. levels[x[1]] \in LevelValues
      BY <1>0
    <3> QED  BY <3>2, LivePairsIs
  <2> QED  BY <2>1 DEF StepsUp
<1>3. \A t \in Internal : \A l, r \in LevelValues : step[<<t, l, r>>] = LivePairs(levels[t], t, l, r)
  OBVIOUS
<1>4. \A t \in Leaf : base[t] = <<>>
  OBVIOUS
<1> HIDE DEF base, step
<1>5. PICK f \in [Vtree -> LevelValues] : /\ \A t \in Leaf : f[t] = base[t]
                                          /\ \A t \in Internal : f[t] = step[<<t, f[Left[t]], f[Right[t]]>>]
  BY <1>1, <1>2, UpExists
<1>6. f = body(f)
  <2>1. \A t \in Internal : f[t] = Table(LivePairs(levels[t], t, f[Left[t]], f[Right[t]])) /\ t \notin Leaf
    <3>1. ASSUME NEW t \in Internal
          PROVE  f[t] = Table(LivePairs(levels[t], t, f[Left[t]], f[Right[t]])) /\ t \notin Leaf
      <4>1. Left[t] \in Vtree /\ Right[t] \in Vtree /\ t \notin Leaf
        BY InternalIs
      <4>2. f[Left[t]] \in LevelValues /\ f[Right[t]] \in LevelValues
        BY <4>1
      <4>3. f[t] = step[<<t, f[Left[t]], f[Right[t]]>>]
        BY <1>5
      <4>4. step[<<t, f[Left[t]], f[Right[t]]>>] = LivePairs(levels[t], t, f[Left[t]], f[Right[t]])
        BY <1>3, <4>2
      <4> QED  BY <4>1, <4>3, <4>4, TableIs
    <3> QED  BY <3>1
  <2>2. \A t \in Vtree : f[t] = IF t \in Leaf THEN <<>> ELSE Table(LivePairs(levels[t], t, f[Left[t]], f[Right[t]]))
    BY <1>4, <1>5, <2>1 DEF Vtree
  <2>3. f = [t \in Vtree |-> f[t]]
    OBVIOUS
  <2>4. f = [t \in Vtree |-> IF t \in Leaf THEN <<>> ELSE Table(LivePairs(levels[t], t, f[Left[t]], f[Right[t]]))]
    BY <2>2, <2>3
  <2> QED  BY <2>4 DEF Vtree
<1> DEFINE live == CHOOSE g : g = body(g)
<1>7. live = body(live)
  <2> HIDE DEF body
  <2> QED  BY <1>6
<1>8. FalseNodesDropped(levels) = [t \in Internal |-> live[t]]
  BY TableIs DEF FalseNodesDropped
<1> HIDE DEF live
<1>9. \A t \in Internal : live[t] = LivePairs(levels[t], t, live[Left[t]], live[Right[t]])
  BY <1>7, InternalIs, TableIs
<1> DEFINE made == FalseNodesDropped(levels)
<1>10. made = [t \in Internal |-> made[t]] /\ \A t \in Internal : made[t] = live[t]
  BY <1>8
<1> HIDE DEF made
<1>11. ASSUME NEW t \in Internal
       PROVE  /\ DOMAIN made[t] = DOMAIN levels[t] /\ IsSequence(made[t])
              /\ \A k \in DOMAIN levels[t] : made[t][k] \subseteq levels[t][k]
  BY <1>0, <1>9, <1>10, LivePairsIs
<1>12. Thinned(levels, made)
  BY <1>11 DEF Thinned
<1>13. ASSUME NEW t \in Internal, NEW k \in DOMAIN levels[t]
       PROVE  made[t][k] = Unfalse(made, t, levels[t][k])
  <2>1. made[t] = LivePairs(levels[t], t, live[Left[t]], live[Right[t]])
    BY <1>9, <1>10
  <2>2. made[t][k] = {p \in levels[t][k] : /\ Left[t] \in Leaf \/ live[Left[t]][p[1]] # {}
                                           /\ Right[t] \in Leaf \/ live[Right[t]][p[2]] # {}}
    BY <2>1 DEF LivePairs
  <2>3. (Left[t] \in Leaf \/ live[Left[t]] = made[Left[t]]) /\ (Right[t] \in Leaf \/ live[Right[t]] = made[Right[t]])
    BY <1>10, InternalIs DEF Vtree
  <2> QED  BY <2>2, <2>3 DEF Unfalse
<1> QED  BY <1>10, <1>12, <1>13 DEF made

\* Propagating false nodes leaves a sound diagram.
LEMMA PropagateFalseSound ==
  ASSUME NEW d, Sound(d), d.out # Zero
  PROVE  Sound(PropagateFalse(d))
<1> DEFINE levels == FalseNodesDropped(d.levels)
           swept  == {t \in Internal : \E c \in Children(t) \ Leaf : {} \in {levels[c][i] : i \in DOMAIN levels[c]}}
           owed   == {t \in swept : levels[t] # <<>>}
           loose  == IF owed = {} THEN d.loose ELSE Unknown
           flag   == IF owed = {} THEN d.certified ELSE FALSE
           a      == d.contract \cup owed
           b      == d.leaves \cup owed
           out    == IF levels[Root][d.out] = {} THEN Zero ELSE d.out
<1>1. /\ d = Diagram(d.levels, d.out, d.contract, d.leaves, d.loose, d.certified)
      /\ InRange(d.levels) /\ Deterministic(d.levels) /\ d.out \in {Zero} \cup DOMAIN d.levels[Root]
      /\ d.contract \subseteq Internal /\ d.leaves \subseteq Internal
      /\ d.loose = Unknown \/ d.loose \subseteq Internal \ {Root}
      /\ d.certified \in BOOLEAN /\ (d.certified => Len(d.levels[Root]) <= 1)
  BY SoundIs
<1>2. levels = [t \in Internal |-> levels[t]] /\ Thinned(d.levels, levels)
  BY <1>1, DroppedIs
<1> DEFINE inv == Invalidate(d, owed)
<1>3. PropagateFalse(d) = [inv EXCEPT !.levels = levels, !.out = IF levels[Root][inv.out] = {} THEN Zero ELSE inv.out]
  BY DEF PropagateFalse
<1>4. owed \subseteq Internal
  OBVIOUS
<1> HIDE DEF levels, owed
<1>5. inv = Diagram(d.levels, d.out, a, b, loose, flag)
  BY <1>1, InvalidateIs
<1>6. (loose = Unknown \/ loose \subseteq Internal \ {Root}) /\ flag \in BOOLEAN /\ (flag => d.certified)
  BY <1>1
<1>7. a \subseteq Internal /\ b \subseteq Internal
  BY <1>1, <1>4
<1> HIDE DEF a, b, loose, flag
<1>8. inv.out = d.out
  BY <1>5, DiagramIs
<1> DEFINE one == [inv EXCEPT !.levels = levels]
<1>9. PropagateFalse(d) = [one EXCEPT !.out = out]
  BY <1>3, <1>8
<1>10. one = Diagram(levels, d.out, a, b, loose, flag)
  BY <1>5, DiagramWith
<1> HIDE DEF one, inv
<1>11. out \in {Zero} \cup DOMAIN levels[Root]
  BY <1>1, <1>2, RootIs DEF Thinned
<1> HIDE DEF out
<1>12. PropagateFalse(d) = Diagram(levels, out, a, b, loose, flag)
  BY <1>9, <1>10, DiagramWith
<1>13. InRange(levels) /\ Deterministic(levels)
  BY <1>1, <1>2, ThinnedSound
<1>14. flag => Len(levels[Root]) <= 1
  <2> DEFINE m == Len(levels[Root])
             n == Len(d.levels[Root])
  <2>1. m \in Nat /\ n \in Nat /\ DOMAIN levels[Root] = 1 .. m /\ DOMAIN d.levels[Root] = 1 .. n
    BY <1>1, <1>13, RootIs, LevelIs
  <2>2. 1 .. m = 1 .. n
    BY <1>2, <2>1, RootIs DEF Thinned
  <2>3. flag => n <= 1
    BY <1>1, <1>6
  <2> HIDE DEF m, n
  <2>4. m = n
    BY <2>1, <2>2, SameInterval
  <2>5. flag => m <= 1
    BY <2>3, <2>4
  <2> QED  BY <2>5 DEF m
<1>15. Sound(Diagram(levels, out, a, b, loose, flag))
  BY <1>6, <1>7, <1>11, <1>13, <1>14, SoundDiagram
<1> QED  BY <1>12, <1>15

\* Conditioning leaves a sound diagram (condition).
LEMMA ConditionSound ==
  ASSUME NEW d, Sound(d), NEW c \in Leaf, NEW value
  PROVE  Sound(Condition(d, c, value))
<1> DEFINE cut == Restricted(d, c, value)
<1>1. Sound(cut) /\ cut.out = d.out
  BY RestrictedSound
<1>2. Condition(d, c, value) = IF d.out = Zero THEN d ELSE IF Emptied(d, cut) THEN PropagateFalse(cut) ELSE cut
  BY DEF Condition
<1> HIDE DEF cut
<1>3. CASE d.out = Zero
  BY <1>2, <1>3
<1>4. CASE d.out # Zero
  BY <1>1, <1>2, <1>4, PropagateFalseSound
<1> QED  BY <1>3, <1>4

-------------------------------------------------------------------------------
(***************************************************************************)
(* The calls.                                                              *)
(***************************************************************************)
\* A sweep's working set and a call in flight, their fields as parameters.
Working(pending, whole, changed, at, left, listed) ==
  [pending |-> pending, whole |-> whole, changed |-> changed, at |-> at, left |-> left, listed |-> listed]

InFlight(name, ask, plan, scope, step, old, rewrote, leaves, sweep) ==
  [name |-> name, ask |-> ask, plan |-> plan, scope |-> scope, step |-> step, old |-> old,
   rewrote |-> rewrote, leaves |-> leaves, sweep |-> sweep]

\* The fields of a working set.
LEMMA WorkingIs ==
  ASSUME NEW p, NEW w, NEW ch, NEW a, NEW l, NEW li
  PROVE  LET s == Working(p, w, ch, a, l, li)
         IN  /\ s.pending = p /\ s.whole = w /\ s.changed = ch /\ s.at = a /\ (s.left <=> l) /\ (s.listed <=> li)
             /\ s.left = l /\ s.listed = li
BY DEF Working

\* The fields of a call in flight.
LEMMA InFlightIs ==
  ASSUME NEW n, NEW k, NEW p, NEW sc, NEW st, NEW o, NEW r, NEW lv, NEW w
  PROVE  LET c == InFlight(n, k, p, sc, st, o, r, lv, w)
         IN  /\ c.name = n /\ c.ask = k /\ c.plan = p /\ c.scope = sc /\ c.step = st /\ c.old = o
             /\ c.rewrote = r /\ c.leaves = lv /\ c.sweep = w
             /\ c # Idle
<1> DEFINE c == InFlight(n, k, p, sc, st, o, r, lv, w)
<1>1. "step" \in DOMAIN c
  BY DEF InFlight
<1>2. "step" \notin DOMAIN Idle
  BY DEF Idle
<1>3. c # Idle
  <2> HIDE DEF c
  <2> QED  BY <1>1, <1>2
<1> QED  BY <1>3 DEF InFlight

\* A call in flight at another step.
LEMMA InFlightStep ==
  ASSUME NEW n, NEW k, NEW p, NEW sc, NEW st, NEW o, NEW r, NEW lv, NEW w, NEW x
  PROVE  [InFlight(n, k, p, sc, st, o, r, lv, w) EXCEPT !.step = x] = InFlight(n, k, p, sc, x, o, r, lv, w)
BY DEF InFlight

\* A call in flight with other leaf levels to do.
LEMMA InFlightLeaves ==
  ASSUME NEW n, NEW k, NEW p, NEW sc, NEW st, NEW o, NEW r, NEW lv, NEW w, NEW x
  PROVE  [InFlight(n, k, p, sc, st, o, r, lv, w) EXCEPT !.leaves = x] = InFlight(n, k, p, sc, st, o, r, x, w)
BY DEF InFlight

\* A call in flight that did or did not rewrite a leaf.
LEMMA InFlightRewrote ==
  ASSUME NEW n, NEW k, NEW p, NEW sc, NEW st, NEW o, NEW r, NEW lv, NEW w, NEW x
  PROVE  [InFlight(n, k, p, sc, st, o, r, lv, w) EXCEPT !.rewrote = x] = InFlight(n, k, p, sc, st, o, x, lv, w)
BY DEF InFlight

\* A call in flight with another working set.
LEMMA InFlightSweep ==
  ASSUME NEW n, NEW k, NEW p, NEW sc, NEW st, NEW o, NEW r, NEW lv, NEW w, NEW x
  PROVE  [InFlight(n, k, p, sc, st, o, r, lv, w) EXCEPT !.sweep = x] = InFlight(n, k, p, sc, st, o, r, lv, x)
BY DEF InFlight

(***************************************************************************)
(* The inductive invariant.                                                *)
(***************************************************************************)
\* Between two pops of a sweep: the parent at hand is above those pending, and
\* nodes are noted as changed below none still to be searched, so that what a
\* search reads of its parent is as the notes say.
Sweeping(d, s) ==
  /\ s.at \in Internal \cup {0} /\ s.left \in BOOLEAN
  /\ s.at # 0 => \A q \in s.pending : q < s.at
  /\ s.changed = [t \in Leaf \cup Internal |-> s.changed[t]]
  /\ \A t \in Internal : s.changed[t] \subseteq DOMAIN d.levels[t]
  /\ \A t \in Internal \ {Root} : s.changed[t] # {} =>
       /\ \A q \in s.pending : q < Parent[t]
       /\ s.at # 0 => s.at <= Parent[t] /\ (s.at = Parent[t] => t = Left[s.at] /\ ~s.left)

\* The steps that follow a prune.
Pruned(plan, step) == \/ step \in {"leaves", "contracting", "finish"}
                      \/ step \in {"sweep", "sweeping", "swept"} /\ plan # "Contract"

\* What the step a call is at asks of its diagram.
AsTheStep(d, plan, step, old, sweep) ==
  /\ step = "sweeping" => Sweeping(d, sweep)
  /\ Pruned(plan, step) => OneRoot(d)
  /\ step = "complement" /\ old # 0 => Beside(d, old)

\* The working set's shape, the call's, and both together with the step's demand.
SweepTyped(s) ==
  /\ s = Working(s.pending, s.whole, s.changed, s.at, s.left, s.listed)
  /\ s.pending \subseteq Internal

CallTyped(plan, old, leaves, sweep) ==
  /\ plan \in Plans \cup {"none", "Full"} /\ old \in Nat /\ leaves \subseteq Internal
  /\ SweepTyped(sweep)

Ready(d, c) ==
  /\ c = InFlight(c.name, c.ask, c.plan, c.scope, c.step, c.old, c.rewrote, c.leaves, c.sweep)
  /\ CallTyped(c.plan, c.old, c.leaves, c.sweep)
  /\ AsTheStep(d, c.plan, c.step, c.old, c.sweep)

\* Both diagrams sound, and the call in flight ready for its step.
IInv == /\ Sound(held) /\ Sound(work)
        /\ calls \in 0 .. MaxCalls
        /\ call # Idle => Ready(work, call)

\* What a call ready for its next step is made from.
LEMMA InFlightReady ==
  ASSUME NEW d, NEW n, NEW k, NEW p, NEW sc, NEW st, NEW o, NEW r, NEW lv, NEW w,
         CallTyped(p, o, lv, w), AsTheStep(d, p, st, o, w)
  PROVE  Ready(d, InFlight(n, k, p, sc, st, o, r, lv, w)) /\ InFlight(n, k, p, sc, st, o, r, lv, w) # Idle
<1> DEFINE c == InFlight(n, k, p, sc, st, o, r, lv, w)
<1>1. /\ c.name = n /\ c.ask = k /\ c.plan = p /\ c.scope = sc /\ c.step = st /\ c.old = o
      /\ c.rewrote = r /\ c.leaves = lv /\ c.sweep = w
      /\ c # Idle
  BY InFlightIs
<1>2. c = InFlight(n, k, p, sc, st, o, r, lv, w)
  OBVIOUS
<1> HIDE DEF c
<1>3. c = InFlight(c.name, c.ask, c.plan, c.scope, c.step, c.old, c.rewrote, c.leaves, c.sweep)
  BY <1>1, <1>2
<1>4. CallTyped(c.plan, c.old, c.leaves, c.sweep) /\ AsTheStep(d, c.plan, c.step, c.old, c.sweep)
  BY <1>1
<1> QED  BY <1>1, <1>3, <1>4 DEF c, Ready

\* The working set between sweeps.
LEMMA NotSweepingTyped == SweepTyped(NotSweeping) /\ NotSweeping.pending = {}
<1> DEFINE none == {}
           zero == 0
           yes == TRUE
           no == FALSE
           ch == [t \in Leaf \cup Internal |-> {}]
           s == Working(none, none, ch, zero, yes, no)
<1>1. NotSweeping = s
  BY DEF NotSweeping, Working
<1> HIDE DEF none, zero, yes, no, ch
<1>2. s.pending = none /\ s.whole = none /\ s.changed = ch /\ s.at = zero /\ s.left = yes /\ s.listed = no
  BY WorkingIs
<1>3. s = Working(none, none, ch, zero, yes, no)
  OBVIOUS
<1> HIDE DEF s
<1>4. s = Working(s.pending, s.whole, s.changed, s.at, s.left, s.listed)
  BY <1>2, <1>3
<1>5. s.pending = {}
  BY <1>2 DEF none
<1> QED  BY <1>1, <1>4, <1>5 DEF SweepTyped

\* A call in flight, taken to another step.
LEMMA StepTo ==
  ASSUME NEW d, NEW e, NEW c, Ready(d, c), NEW step, AsTheStep(e, c.plan, step, c.old, c.sweep)
  PROVE  Ready(e, [c EXCEPT !.step = step]) /\ [c EXCEPT !.step = step] # Idle
<1>1. /\ c = InFlight(c.name, c.ask, c.plan, c.scope, c.step, c.old, c.rewrote, c.leaves, c.sweep)
      /\ CallTyped(c.plan, c.old, c.leaves, c.sweep)
  BY DEF Ready
<1>2. [c EXCEPT !.step = step] = InFlight(c.name, c.ask, c.plan, c.scope, step, c.old, c.rewrote, c.leaves, c.sweep)
  BY <1>1, InFlightStep
<1> QED  BY <1>1, <1>2, InFlightReady

\* At a step that neither sweeps nor follows a prune nothing more is asked.
LEMMA FreeStep ==
  ASSUME NEW d, NEW plan, NEW step, NEW old, NEW sweep,
         step \in {"done", "prune"} \/ (step = "sweep" /\ plan = "Contract")
  PROVE  AsTheStep(d, plan, step, old, sweep)
BY DEF AsTheStep, Pruned

\* After a prune every step but the sweep's own is ready.
LEMMA PrunedStep ==
  ASSUME NEW d, OneRoot(d), NEW plan, NEW step, NEW old, NEW sweep,
         step \notin {"sweeping", "complement"}
  PROVE  AsTheStep(d, plan, step, old, sweep)
BY DEF AsTheStep

\* A call begun on a sound diagram keeps the invariant.
LEMMA BeginReady ==
  ASSUME IInv, NEW ask, NEW plan, NEW scope, NEW step, NEW old, NEW diagram,
         Begin(ask, plan, scope, step, old, diagram), Sound(diagram),
         plan \in Plans \cup {"none", "Full"}, old \in Nat,
         AsTheStep(diagram, plan, step, old, NotSweeping)
  PROVE  IInv'
<1> DEFINE no == FALSE
           none == {}
           c == InFlight(ask.name, ask, plan, scope, step, old, no, none, NotSweeping)
<1>1. call' = c
  BY DEF Begin, InFlight
<1>2. none \subseteq Internal
  OBVIOUS
<1> HIDE DEF no, none
<1>3. CallTyped(plan, old, none, NotSweeping)
  BY <1>2, NotSweepingTyped DEF CallTyped
<1>4. Ready(diagram, c)
  BY <1>3, InFlightReady
<1> HIDE DEF c
<1>5. work' = diagram /\ held' = held /\ calls' = calls + 1 /\ calls < MaxCalls
  BY DEF Begin
<1>6. calls' \in 0 .. MaxCalls
  BY <1>5, ReductionAssumption DEF IInv
<1> QED  BY <1>1, <1>4, <1>5, <1>6 DEF IInv

\* Where a reduction starts.
LEMMA FirstStepIs ==
  ASSUME NEW plan, NEW d
  PROVE  FirstStep(plan, d) \in {"done", "prune"} \/ (FirstStep(plan, d) = "sweep" /\ plan = "Contract")
BY DEF FirstStep

\* The calls' first steps keep the invariant.
LEMMA CallsKeep ==
  ASSUME IInv, Load \/ And \/ Minimize \/ Negate \/ ConditionOn
  PROVE  IInv'
<1> USE DEF IInv
<1>1. CASE Load
  <2>1. PICK d \in Operand : Begin([name |-> "load", operand |-> d], "none", "none", "done", 0, d)
    BY <1>1 DEF Load
  <2> DEFINE ask == [name |-> "load", operand |-> d]
  <2> HIDE DEF ask
  <2>2. Begin(ask, "none", "none", "done", 0, d)
    BY <2>1 DEF ask
  <2>3. Sound(d)
    BY OperandSound
  <2>4. AsTheStep(d, "none", "done", 0, NotSweeping)
    BY FreeStep
  <2> QED  BY <2>2, <2>3, <2>4, BeginReady
<1>2. CASE And
  <2>1. PICK d \in Operand : \E made \in Conjunctions(held, d) :
          Begin([name |-> "and", operand |-> d], "none", "none", "done", 0, made)
    BY <1>2 DEF And
  <2> DEFINE ask == [name |-> "and", operand |-> d]
  <2> HIDE DEF ask
  <2>2. PICK made : made \in Conjunctions(held, d) /\ Begin(ask, "none", "none", "done", 0, made)
    BY <2>1 DEF ask
  <2>3. Sound(made)
    BY <2>2, OperandSound, ConjunctionsSound
  <2>4. AsTheStep(made, "none", "done", 0, NotSweeping)
    BY FreeStep
  <2> QED  BY <2>2, <2>3, <2>4, BeginReady
<1>3. CASE Minimize
  <2>1. PICK plan \in Plans : Begin([name |-> "minimize"], plan, "Whole", FirstStep(plan, held), 0, held)
    BY <1>3 DEF Minimize
  <2> DEFINE ask == [name |-> "minimize"]
             step == FirstStep(plan, held)
  <2>2. Begin(ask, plan, "Whole", step, 0, held)
    BY <2>1
  <2> HIDE DEF ask
  <2>3. step \in {"done", "prune"} \/ (step = "sweep" /\ plan = "Contract")
    BY FirstStepIs
  <2> HIDE DEF step
  <2>4. AsTheStep(held, plan, step, 0, NotSweeping)
    BY <2>3, FreeStep
  <2> QED  BY <2>2, <2>4, BeginReady
<1>4. CASE Negate
  <2> DEFINE made == Complement(held)
             ask == [name |-> "negate"]
  <2>1. PICK plan \in Plans :
          Begin(ask, plan, "BelowRoot",
                IF Certifies(held, plan) THEN "complement" ELSE FirstStep(plan, made.result),
                made.old, made.result)
    BY <1>4 DEF Negate
  <2>2. /\ Sound(made.result) /\ made.old \in Nat
        /\ held.certified /\ made.old # 0 => Beside(made.result, made.old)
    BY ComplementSound
  <2> HIDE DEF made, ask
  <2> DEFINE step == IF Certifies(held, plan) THEN "complement" ELSE FirstStep(plan, made.result)
  <2>3. AsTheStep(made.result, plan, step, made.old, NotSweeping)
    <3>1. CASE Certifies(held, plan)
      <4>1. step = "complement" /\ held.certified
        BY <3>1 DEF Certifies
      <4> HIDE DEF step
      <4> QED  BY <2>2, <4>1 DEF AsTheStep, Pruned
    <3>2. CASE ~Certifies(held, plan)
      <4>1. step = FirstStep(plan, made.result)
        BY <3>2
      <4> HIDE DEF step
      <4>2. step \in {"done", "prune"} \/ (step = "sweep" /\ plan = "Contract")
        BY <4>1, FirstStepIs
      <4> QED  BY <4>2, FreeStep
    <3> QED  BY <3>1, <3>2
  <2>4. Begin(ask, plan, "BelowRoot", step, made.old, made.result)
    BY <2>1
  <2> HIDE DEF step
  <2> QED  BY <2>2, <2>3, <2>4, BeginReady
<1>5. CASE ConditionOn
  <2>1. PICK c \in Leaf, value \in BOOLEAN :
          LET cut == Condition(held, c, value)
              ask == [name |-> "condition", var |-> c, value |-> value]
          IN  IF held.out = Zero THEN Begin(ask, "none", "none", "done", 0, held)
              ELSE Begin(ask, "Full", "Whole", FirstStep("Full", cut), 0, cut)
    BY <1>5 DEF ConditionOn
  <2> DEFINE cut == Condition(held, c, value)
             ask == [name |-> "condition", var |-> c, value |-> value]
             step == FirstStep("Full", cut)
  <2>2. \/ Begin(ask, "none", "none", "done", 0, held)
        \/ Begin(ask, "Full", "Whole", step, 0, cut)
    BY <2>1
  <2>3. Sound(cut)
    BY ConditionSound
  <2>4. step \in {"done", "prune"} \/ (step = "sweep" /\ "Full" = "Contract")
    BY FirstStepIs
  <2> HIDE DEF cut, ask, step
  <2>5. AsTheStep(cut, "Full", step, 0, NotSweeping) /\ AsTheStep(held, "none", "done", 0, NotSweeping)
    BY <2>4, FreeStep
  <2> QED  BY <2>2, <2>3, <2>5, BeginReady
<1> QED  BY <1>1, <1>2, <1>3, <1>4, <1>5

-------------------------------------------------------------------------------
(* Each step keeps the invariant. *)

\* A certified diagram is sound when it has one root node.
LEMMA CertifiedSound ==
  ASSUME NEW d, Sound(d), OneRoot(d)
  PROVE  Sound(Certified(d))
<1> DEFINE none == {}
           yes == TRUE
<1>1. /\ d = Diagram(d.levels, d.out, d.contract, d.leaves, d.loose, d.certified)
      /\ InRange(d.levels) /\ Deterministic(d.levels) /\ d.out \in {Zero} \cup DOMAIN d.levels[Root]
  BY SoundIs
<1> DEFINE a == [d EXCEPT !.loose = none]
           b == [a EXCEPT !.contract = none]
           c == [b EXCEPT !.leaves = none]
           e == [c EXCEPT !.certified = yes]
<1>2. Certified(d) = Diagram(d.levels, d.out, none, none, none, yes)
  <2>1. Certified(d) = e
    BY DEF Certified
  <2> HIDE DEF none, yes
  <2>2. a = Diagram(d.levels, d.out, d.contract, d.leaves, none, d.certified)
    BY <1>1 DEF Diagram
  <2> HIDE DEF a
  <2>3. b = Diagram(d.levels, d.out, none, d.leaves, none, d.certified)
    BY <2>2 DEF Diagram
  <2> HIDE DEF b
  <2>4. c = Diagram(d.levels, d.out, none, none, none, d.certified)
    BY <2>3 DEF Diagram
  <2> HIDE DEF c
  <2>5. e = Diagram(d.levels, d.out, none, none, none, yes)
    BY <2>4 DEF Diagram
  <2> QED  BY <2>1, <2>5
<1>3. none \subseteq Internal /\ none \subseteq Internal \ {Root} /\ yes \in BOOLEAN
  OBVIOUS
<1> HIDE DEF none, yes
<1>4. yes => Len(d.levels[Root]) <= 1
  BY DEF OneRoot
<1>5. Sound(Diagram(d.levels, d.out, none, none, none, yes))
  BY <1>1, <1>3, <1>4, SoundDiagram
<1> QED  BY <1>2, <1>5

\* What an error leaves behind.
LEMMA RefusalKeeps ==
  ASSUME IInv, NEW left, Sound(left), RefuseWith(left)
  PROVE  IInv'
BY DEF IInv, RefuseWith

\* A step of the call in flight keeps the invariant when it leaves a sound diagram and a ready call.
LEMMA Advance ==
  ASSUME IInv, Sound(work'), UNCHANGED <<held, calls>>, call' = Idle \/ Ready(work', call')
  PROVE  IInv'
BY DEF IInv

\* Return keeps the invariant.
LEMMA ReturnKeeps == IInv /\ Return => IInv'
BY DEF IInv, Return

\* PrunePass keeps the invariant.
LEMMA PrunePassKeeps == IInv /\ PrunePass => IInv'
<1> SUFFICES ASSUME IInv, PrunePass PROVE IInv'
  OBVIOUS
<1> DEFINE made == Prune(work, call.scope = "BelowRoot")
           step == IF call.plan = "Prune" THEN "done" ELSE "sweep"
<1>1. work' = made /\ call' = [call EXCEPT !.step = step] /\ UNCHANGED <<held, calls>> /\ Ready(work, call) /\ Sound(work)
  BY DEF PrunePass, Goto, Stay, At, IInv
<1>2. Sound(made) /\ OneRoot(made)
  BY <1>1, PruneSound
<1>3. step \notin {"sweeping", "complement"}
  OBVIOUS
<1> HIDE DEF made, step
<1>4. AsTheStep(made, call.plan, step, call.old, call.sweep)
  BY <1>2, <1>3, PrunedStep
<1>5. Ready(made, [call EXCEPT !.step = step])
  BY <1>1, <1>4, StepTo
<1> QED  BY <1>1, <1>2, <1>5, Advance

\* CertifyComplement keeps the invariant.
LEMMA CertifyComplementKeeps == IInv /\ CertifyComplement => IInv'
<1> SUFFICES ASSUME IInv, CertifyComplement PROVE IInv'
  OBVIOUS
<1> DEFINE pruned == IF call.old # 0 THEN PruneComplement(work, call.old) ELSE Prune(work, TRUE)
<1>1. /\ work' = Certified(pruned) /\ call' = [call EXCEPT !.step = "done"] /\ UNCHANGED <<held, calls>>
      /\ Ready(work, call) /\ Sound(work) /\ call.step = "complement"
  BY DEF CertifyComplement, Goto, Stay, At, IInv
<1>2. Sound(pruned) /\ OneRoot(pruned)
  <2>1. CASE call.old = 0
    <3>1. pruned = Prune(work, TRUE)
      BY <2>1
    <3> QED  BY <1>1, <3>1, PruneSound
  <2>2. CASE call.old # 0
    <3>1. Beside(work, call.old)
      BY <1>1, <2>2 DEF Ready, AsTheStep
    <3> QED  BY <1>1, <2>2, <3>1, PruneComplementSound
  <2> QED  BY <2>1, <2>2
<1> HIDE DEF pruned
<1>3. Sound(Certified(pruned))
  BY <1>2, CertifiedSound
<1> DEFINE made == Certified(pruned)
<1> HIDE DEF made
<1>4. AsTheStep(made, call.plan, "done", call.old, call.sweep)
  BY FreeStep
<1>5. Ready(made, [call EXCEPT !.step = "done"])
  BY <1>1, <1>4, StepTo
<1> QED  BY <1>1, <1>3, <1>5, Advance DEF made

\* Steps that leave the diagram.
LEMMA AfterSweepKeeps == IInv /\ AfterSweep => IInv'
<1> SUFFICES ASSUME IInv, AfterSweep PROVE IInv'
  OBVIOUS
<1> DEFINE step == IF call.plan = "Contract" THEN "done" ELSE IF call.rewrote THEN "finish" ELSE "leaves"
<1>1. /\ work' = work /\ call' = [call EXCEPT !.step = step] /\ UNCHANGED <<held, calls>>
      /\ Ready(work, call) /\ Sound(work) /\ call.step = "swept"
  BY DEF AfterSweep, Goto, Stay, At, IInv
<1>2. AsTheStep(work, call.plan, step, call.old, call.sweep)
  <2>1. CASE call.plan = "Contract"
    BY <2>1, FreeStep
  <2>2. CASE call.plan # "Contract"
    <3>1. OneRoot(work)
      BY <1>1, <2>2 DEF Ready, AsTheStep, Pruned
    <3>2. step \notin {"sweeping", "complement"}
      BY <2>2
    <3> HIDE DEF step
    <3> QED  BY <3>1, <3>2, PrunedStep
  <2> QED  BY <2>1, <2>2
<1> HIDE DEF step
<1>3. Ready(work, [call EXCEPT !.step = step])
  BY <1>1, <1>2, StepTo
<1> QED  BY <1>1, <1>3, Advance

\* LeavesEnd keeps the invariant.
LEMMA LeavesEndKeeps == IInv /\ LeavesEnd => IInv'
<1> SUFFICES ASSUME IInv, LeavesEnd PROVE IInv'
  OBVIOUS
<1> DEFINE step == IF call.rewrote THEN "sweep" ELSE "finish"
<1>1. /\ work' = work /\ call' = [call EXCEPT !.step = step] /\ UNCHANGED <<held, calls>>
      /\ Ready(work, call) /\ Sound(work) /\ call.step = "contracting"
  BY DEF LeavesEnd, Goto, Stay, At, IInv
<1>2. AsTheStep(work, call.plan, step, call.old, call.sweep)
  <2>1. OneRoot(work)
    BY <1>1 DEF Ready, AsTheStep, Pruned
  <2>2. step \notin {"sweeping", "complement"}
    OBVIOUS
  <2> HIDE DEF step
  <2> QED  BY <2>1, <2>2, PrunedStep
<1> HIDE DEF step
<1>3. Ready(work, [call EXCEPT !.step = step])
  BY <1>1, <1>2, StepTo
<1> QED  BY <1>1, <1>3, Advance

\* Finish keeps the invariant.
LEMMA FinishKeeps == IInv /\ Finish => IInv'
<1> SUFFICES ASSUME IInv, Finish PROVE IInv'
  OBVIOUS
<1> DEFINE bare == [work EXCEPT !.loose = {}]
           made == IF call.scope = "Whole" THEN Certified(work) ELSE bare
<1>1. /\ work' = made /\ call' = [call EXCEPT !.step = "done"] /\ UNCHANGED <<held, calls>>
      /\ Ready(work, call) /\ Sound(work) /\ call.step = "finish"
  BY DEF Finish, Goto, Stay, At, IInv
<1>2. OneRoot(work)
  BY <1>1 DEF Ready, AsTheStep, Pruned
<1>3. Sound(Certified(work))
  BY <1>1, <1>2, CertifiedSound
<1>4. Sound(bare)
  BY <1>1, WithoutLoose
<1>5. Sound(made)
  BY <1>3, <1>4
<1> HIDE DEF made
<1>6. AsTheStep(made, call.plan, "done", call.old, call.sweep)
  BY FreeStep
<1>7. Ready(made, [call EXCEPT !.step = "done"])
  BY <1>1, <1>6, StepTo
<1> QED  BY <1>1, <1>5, <1>7, Advance

(***************************************************************************)
(* The leaf pass.                                                          *)
(***************************************************************************)
\* A call in flight with its own leaves and whether it rewrote one replaced.
LEMMA LeavesReady ==
  ASSUME NEW d, NEW e, NEW c, Ready(d, c), NEW lv, lv \subseteq Internal, NEW st, NEW r,
         AsTheStep(e, c.plan, st, c.old, c.sweep)
  PROVE  LET made == InFlight(c.name, c.ask, c.plan, c.scope, st, c.old, r, lv, c.sweep)
         IN  Ready(e, made) /\ made # Idle
<1>1. CallTyped(c.plan, c.old, lv, c.sweep)
  BY DEF Ready, CallTyped
<1> QED  BY <1>1, InFlightReady

\* LeavesStart keeps the invariant.
LEMMA LeavesStartKeeps == IInv /\ LeavesStart => IInv'
<1> SUFFICES ASSUME IInv, LeavesStart PROVE IInv'
  OBVIOUS
<1> DEFINE none == {}
           made == [work EXCEPT !.leaves = none]
           step == IF work.leaves = {} THEN "finish" ELSE "contracting"
           one  == [call EXCEPT !.step = step]
           lv   == work.leaves
<1>1. /\ work' = made /\ call' = [call EXCEPT !.step = step, !.leaves = lv] /\ UNCHANGED <<held, calls>>
      /\ Ready(work, call) /\ Sound(work) /\ call.step = "leaves"
  BY DEF LeavesStart, Stay, At, IInv
<1>2. step \notin {"sweeping", "complement"}
  OBVIOUS
<1>3. none \subseteq Internal /\ lv \subseteq Internal
  BY <1>1, SoundIs
<1> HIDE DEF none, step, lv
<1>4. Sound(made) /\ made.levels = work.levels
  BY <1>1, <1>3, WithLists
<1>5. call' = [one EXCEPT !.leaves = lv]
  BY <1>1
<1>6. call = InFlight(call.name, call.ask, call.plan, call.scope, call.step, call.old, call.rewrote, call.leaves, call.sweep)
  BY <1>1 DEF Ready
<1>7. one = InFlight(call.name, call.ask, call.plan, call.scope, step, call.old, call.rewrote, call.leaves, call.sweep)
  BY <1>6, InFlightStep
<1> HIDE DEF one, made
<1>8. call' = InFlight(call.name, call.ask, call.plan, call.scope, step, call.old, call.rewrote, lv, call.sweep)
  BY <1>5, <1>7, InFlightLeaves
<1>9. OneRoot(made)
  BY <1>1, <1>4 DEF Ready, AsTheStep, Pruned, OneRoot
<1>10. AsTheStep(made, call.plan, step, call.old, call.sweep)
  BY <1>2, <1>9, PrunedStep
<1>11. Ready(made, call')
  BY <1>1, <1>3, <1>8, <1>10, LeavesReady
<1> QED  BY <1>1, <1>4, <1>11, Advance

\* The leaf pass takes one of its levels.
LEMMA NextLeafIs ==
  ASSUME call.leaves # {}, call.leaves \subseteq Internal
  PROVE  NextLeaf \in call.leaves /\ NextLeaf \in Internal
<1>1. call.leaves \subseteq Nat
  BY VtreeAssumption
<1>2. \E t \in call.leaves : \A u \in call.leaves : t <= u
  BY <1>1, LeastNumber
<1> QED  BY <1>2 DEF NextLeaf

\* LeafLevel keeps the invariant.
LEMMA LeafLevelKeeps == IInv /\ LeafLevel => IInv'
<1> SUFFICES ASSUME IInv, LeafLevel PROVE IInv'
  OBVIOUS
<1> DEFINE made == ContractLeafSides(work, NextLeaf)
           lv   == call.leaves \ {NextLeaf}
           r    == call.rewrote \/ work'.levels # work.levels
           one  == [call EXCEPT !.leaves = lv]
<1>1. /\ work' = made /\ call' = [call EXCEPT !.leaves = lv, !.rewrote = r] /\ UNCHANGED <<held, calls>>
      /\ Ready(work, call) /\ Sound(work) /\ call.step = "contracting" /\ call.leaves # {}
  BY DEF LeafLevel, Stay, At, IInv
<1>2. call.leaves \subseteq Internal /\ NextLeaf \in Internal
  BY <1>1, NextLeafIs DEF Ready, CallTyped
<1>3. Sound(made) /\ \A u \in Internal : DOMAIN made.levels[u] = DOMAIN work.levels[u]
  BY <1>1, <1>2, ContractLeafSidesSound
<1>4. call' = [one EXCEPT !.rewrote = r]
  BY <1>1
<1>5. lv \subseteq Internal
  BY <1>2
<1> HIDE DEF made, lv, r
<1>6. call = InFlight(call.name, call.ask, call.plan, call.scope, call.step, call.old, call.rewrote, call.leaves, call.sweep)
  BY <1>1 DEF Ready
<1>7. one = InFlight(call.name, call.ask, call.plan, call.scope, call.step, call.old, call.rewrote, lv, call.sweep)
  BY <1>6, InFlightLeaves
<1> HIDE DEF one
<1>8. call' = InFlight(call.name, call.ask, call.plan, call.scope, call.step, call.old, r, lv, call.sweep)
  BY <1>4, <1>7, InFlightRewrote
<1>9. OneRoot(made)
  <2>1. SameRoot(made, work)
    BY <1>3, RootIs DEF SameRoot
  <2>2. Len(made.levels[Root]) = Len(work.levels[Root])
    BY <1>1, <1>3, <2>1, SameRootIs
  <2> QED  BY <1>1, <2>2 DEF Ready, AsTheStep, Pruned, OneRoot
<1>10. AsTheStep(made, call.plan, call.step, call.old, call.sweep)
  BY <1>1, <1>9, PrunedStep
<1>11. Ready(made, call')
  BY <1>1, <1>5, <1>8, <1>10, LeavesReady
<1> QED  BY <1>1, <1>3, <1>11, Advance

\* LeafRefused keeps the invariant.
LEMMA LeafRefusedKeeps == IInv /\ LeafRefused => IInv'
<1> SUFFICES ASSUME IInv, LeafRefused PROVE IInv'
  OBVIOUS
<1>1. Ready(work, call) /\ Sound(work) /\ call.leaves # {}
  BY DEF LeafRefused, At, IInv
<1>2. call.leaves \subseteq Internal /\ NextLeaf \in Internal
  BY <1>1, NextLeafIs DEF Ready, CallTyped
<1>3. PICK d : /\ d = work \/ (Left[NextLeaf] \in Leaf /\ d = ContractLeaf(work, Left[NextLeaf]))
               /\ RefuseWith([d EXCEPT !.leaves = @ \cup LeafQueue])
  BY DEF LeafRefused
<1>4. Sound(d)
  BY <1>1, <1>2, <1>3, ContractLeafSound DEF Children
<1> DEFINE x == d.leaves \cup LeafQueue
<1>5. RefuseWith([d EXCEPT !.leaves = x])
  BY <1>3
<1>6. x \subseteq Internal
  BY <1>2, <1>4, SoundIs DEF LeafQueue
<1> HIDE DEF x
<1>7. Sound([d EXCEPT !.leaves = x])
  BY <1>4, <1>6, WithLists
<1> QED  BY <1>5, <1>7, RefusalKeeps

(***************************************************************************)
(* The twin sweep.                                                         *)
(***************************************************************************)
LEMMA WorkingWith ==
  ASSUME NEW p, NEW w, NEW ch, NEW a, NEW l, NEW li, NEW x
  PROVE  /\ [Working(p, w, ch, a, l, li) EXCEPT !.pending = x] = Working(x, w, ch, a, l, li)
         /\ [Working(p, w, ch, a, l, li) EXCEPT !.whole = x] = Working(p, x, ch, a, l, li)
         /\ [Working(p, w, ch, a, l, li) EXCEPT !.changed = x] = Working(p, w, x, a, l, li)
         /\ [Working(p, w, ch, a, l, li) EXCEPT !.at = x] = Working(p, w, ch, x, l, li)
         /\ [Working(p, w, ch, a, l, li) EXCEPT !.left = x] = Working(p, w, ch, a, x, li)
         /\ [Working(p, w, ch, a, l, li) EXCEPT !.listed = x] = Working(p, w, ch, a, l, x)
BY DEF Working

\* A working set of internal levels is one.
LEMMA WorkingTyped ==
  ASSUME NEW p, p \subseteq Internal, NEW w, NEW ch, NEW a, NEW l, NEW li
  PROVE  SweepTyped(Working(p, w, ch, a, l, li))
<1> DEFINE s == Working(p, w, ch, a, l, li)
<1>1. s.pending = p /\ s.whole = w /\ s.changed = ch /\ s.at = a /\ s.left = l /\ s.listed = li
  BY WorkingIs
<1>2. s = Working(p, w, ch, a, l, li)
  OBVIOUS
<1> HIDE DEF s
<1>3. s = Working(s.pending, s.whole, s.changed, s.at, s.left, s.listed)
  BY <1>1, <1>2
<1> QED  BY <1>1, <1>3 DEF SweepTyped, s

\* A call in flight with its working set and its step replaced.
LEMMA SweepReady ==
  ASSUME NEW d, NEW e, NEW c, Ready(d, c), NEW w, SweepTyped(w), NEW st, AsTheStep(e, c.plan, st, c.old, w)
  PROVE  LET made == InFlight(c.name, c.ask, c.plan, c.scope, st, c.old, c.rewrote, c.leaves, w)
         IN  Ready(e, made) /\ made # Idle
<1>1. CallTyped(c.plan, c.old, c.leaves, w)
  BY DEF Ready, CallTyped
<1> QED  BY <1>1, InFlightReady

\* PruneRefused keeps the invariant.
LEMMA PruneRefusedKeeps == IInv /\ PruneRefused => IInv'
<1> SUFFICES ASSUME IInv, PruneRefused PROVE IInv'
  OBVIOUS
<1>1. Sound(work) /\ RefuseWith(work)
  BY DEF IInv, PruneRefused
<1> QED  BY <1>1, RefusalKeeps

\* SweepRefused keeps the invariant.
LEMMA SweepRefusedKeeps == IInv /\ SweepRefused => IInv'
<1> SUFFICES ASSUME IInv, SweepRefused PROVE IInv'
  OBVIOUS
<1>1. Sound(work) /\ RefuseWith(work)
  BY DEF IInv, SweepRefused
<1> QED  BY <1>1, RefusalKeeps

\* A sweep that gives its parents back leaves a sound diagram (restore_pending_dirty).
LEMMA GivenBackSound ==
  ASSUME IInv, At("sweeping")
  PROVE  Sound(GivenBack(work))
<1> DEFINE x == work.contract \cup Sweeps.pending \cup (IF Sweeps.at = 0 THEN {} ELSE {Sweeps.at})
<1>1. Sound(work) /\ Ready(work, call) /\ call.step = "sweeping"
  BY DEF IInv, At
<1>2. Sweeping(work, call.sweep) /\ call.sweep.pending \subseteq Internal
  BY <1>1 DEF Ready, AsTheStep, CallTyped, SweepTyped
<1>3. work.contract \subseteq Internal
  BY <1>1, SoundIs
<1>4. x \subseteq Internal
  BY <1>2, <1>3 DEF Sweeping, Sweeps
<1>5. GivenBack(work) = [work EXCEPT !.contract = x]
  BY DEF GivenBack
<1> HIDE DEF x
<1>6. Sound([work EXCEPT !.contract = x])
  BY <1>1, <1>4, WithLists
<1> QED  BY <1>5, <1>6

\* SweepStopped keeps the invariant.
LEMMA SweepStoppedKeeps == IInv /\ SweepStopped => IInv'
<1> SUFFICES ASSUME IInv, SweepStopped PROVE IInv'
  OBVIOUS
<1>1. At("sweeping") /\ RefuseWith(GivenBack(work))
  BY DEF SweepStopped
<1> QED  BY <1>1, GivenBackSound, RefusalKeeps

\* ContractRefused keeps the invariant.
LEMMA ContractRefusedKeeps == IInv /\ ContractRefused => IInv'
<1> SUFFICES ASSUME IInv, ContractRefused PROVE IInv'
  OBVIOUS
<1>1. At("sweeping") /\ RefuseWith(GivenBack(work))
  BY DEF ContractRefused, Searching
<1> QED  BY <1>1, GivenBackSound, RefusalKeeps

\* SweepStart keeps the invariant.
LEMMA SweepStartKeeps == IInv /\ SweepStart => IInv'
<1> SUFFICES ASSUME IInv, SweepStart PROVE IInv'
  OBVIOUS
<1> DEFINE none == {}
           zero == 0
           yes  == TRUE
           no   == FALSE
           ch   == [t \in Leaf \cup Internal |-> {}]
           made == [work EXCEPT !.contract = none]
           step == IF work.contract = {} THEN "swept" ELSE "sweeping"
           p    == {q \in work.contract : MultiPair(work.levels, q)}
           w    == work.contract
           s0   == Working(none, none, ch, zero, yes, no)
           s1   == [s0 EXCEPT !.pending = p]
           s    == [s1 EXCEPT !.whole = w]
           c1   == [call EXCEPT !.step = step]
<1>1. /\ work' = made /\ UNCHANGED <<held, calls>>
      /\ Ready(work, call) /\ Sound(work) /\ call.step = "sweep"
  BY DEF SweepStart, Stay, At, IInv
<1>2. call' = [c1 EXCEPT !.sweep = s]
  BY DEF SweepStart, NotSweeping, Working
<1>3. p \subseteq Internal /\ none \subseteq Internal
  BY <1>1, SoundIs
<1>4. step \in {"swept", "sweeping"}
  OBVIOUS
<1>5. ch = [t \in Leaf \cup Internal |-> ch[t]] /\ \A t \in Internal : ch[t] = {}
  OBVIOUS
<1>6. zero = 0 /\ yes
  OBVIOUS
<1> HIDE DEF none, zero, yes, no, ch, step, p, w
<1>7. s1 = Working(p, none, ch, zero, yes, no)
  BY WorkingWith
<1> HIDE DEF s0, s1
<1>8. s = Working(p, w, ch, zero, yes, no)
  BY <1>7, WorkingWith
<1> HIDE DEF s
<1>9. SweepTyped(s)
  BY <1>3, <1>8, WorkingTyped
<1>10. s.pending = p /\ s.changed = ch /\ s.at = zero /\ s.left = yes
  BY <1>8, WorkingIs
<1>11. Sound(made) /\ made.levels = work.levels
  BY <1>1, <1>3, WithLists
<1> HIDE DEF made
<1>12. Sweeping(made, s)
  <2>1. s.at = 0 /\ s.left \in BOOLEAN
    BY <1>6, <1>10
  <2>2. s.changed = [t \in Leaf \cup Internal |-> s.changed[t]] /\ \A t \in Internal : s.changed[t] = {}
    BY <1>5, <1>10
  <2> QED  BY <2>1, <2>2 DEF Sweeping
<1>13. AsTheStep(made, call.plan, step, call.old, s)
  <2>1. call.plan # "Contract" => OneRoot(made)
    BY <1>1, <1>11 DEF Ready, AsTheStep, Pruned, OneRoot
  <2> QED  BY <1>4, <1>12, <2>1 DEF AsTheStep, Pruned
<1>14. call = InFlight(call.name, call.ask, call.plan, call.scope, call.step, call.old, call.rewrote, call.leaves, call.sweep)
  BY <1>1 DEF Ready
<1>15. c1 = InFlight(call.name, call.ask, call.plan, call.scope, step, call.old, call.rewrote, call.leaves, call.sweep)
  BY <1>14, InFlightStep
<1> HIDE DEF c1
<1>16. call' = InFlight(call.name, call.ask, call.plan, call.scope, step, call.old, call.rewrote, call.leaves, s)
  BY <1>2, <1>15, InFlightSweep
<1>17. Ready(made, call')
  BY <1>1, <1>9, <1>13, <1>16, SweepReady
<1> QED  BY <1>1, <1>11, <1>17, Advance

\* SweepEnd keeps the invariant.
LEMMA SweepEndKeeps == IInv /\ SweepEnd => IInv'
<1> SUFFICES ASSUME IInv, SweepEnd PROVE IInv'
  OBVIOUS
<1> DEFINE none == {}
           made == [work EXCEPT !.contract = none]
           c1   == [call EXCEPT !.step = "swept"]
<1>1. /\ work' = made /\ UNCHANGED <<held, calls>>
      /\ Ready(work, call) /\ Sound(work) /\ call.step = "sweeping"
  BY DEF SweepEnd, Stay, At, IInv
<1>2. call' = [c1 EXCEPT !.sweep = NotSweeping]
  BY DEF SweepEnd
<1>3. none \subseteq Internal
  OBVIOUS
<1> HIDE DEF none
<1>4. Sound(made) /\ made.levels = work.levels
  BY <1>1, <1>3, WithLists
<1> HIDE DEF made
<1>5. AsTheStep(made, call.plan, "swept", call.old, NotSweeping)
  BY <1>1, <1>4 DEF Ready, AsTheStep, Pruned, OneRoot
<1>6. call = InFlight(call.name, call.ask, call.plan, call.scope, call.step, call.old, call.rewrote, call.leaves, call.sweep)
  BY <1>1 DEF Ready
<1>7. c1 = InFlight(call.name, call.ask, call.plan, call.scope, "swept", call.old, call.rewrote, call.leaves, call.sweep)
  BY <1>6, InFlightStep
<1> HIDE DEF c1
<1>8. call' = InFlight(call.name, call.ask, call.plan, call.scope, "swept", call.old, call.rewrote, call.leaves, NotSweeping)
  BY <1>2, <1>7, InFlightSweep
<1>9. Ready(made, call')
  BY <1>1, <1>5, <1>8, NotSweepingTyped, SweepReady
<1> QED  BY <1>1, <1>4, <1>9, Advance

\* A working set after its parent was popped.
Popped(s, p, at, dear) == [s EXCEPT !.pending = @ \ {p}, !.at = at, !.left = TRUE, !.listed = p \notin s.whole /\ dear]

PoppedListed(s, p, dear) == p \notin s.whole /\ dear

\* The working set after a pop.
LEMMA PoppedIs ==
  ASSUME NEW s, s = Working(s.pending, s.whole, s.changed, s.at, s.left, s.listed), NEW p, NEW at, NEW dear
  PROVE  Popped(s, p, at, dear) = Working(s.pending \ {p}, s.whole, s.changed, at, TRUE, PoppedListed(s, p, dear))
<1> DEFINE li == p \notin s.whole /\ dear
           yes == TRUE
           rest == s.pending \ {p}
           s1 == [s EXCEPT !.pending = rest]
           s2 == [s1 EXCEPT !.at = at]
           s3 == [s2 EXCEPT !.left = yes]
           s4 == [s3 EXCEPT !.listed = li]
<1>1. Popped(s, p, at, dear) = s4
  BY DEF Popped
<1> HIDE DEF rest, yes, li
<1>2. s1 = Working(rest, s.whole, s.changed, s.at, s.left, s.listed)
  BY DEF Working
<1> HIDE DEF s1
<1>3. s2 = Working(rest, s.whole, s.changed, at, s.left, s.listed)
  BY <1>2 DEF Working
<1> HIDE DEF s2
<1>4. s3 = Working(rest, s.whole, s.changed, at, yes, s.listed)
  BY <1>3 DEF Working
<1> HIDE DEF s3
<1>5. s4 = Working(rest, s.whole, s.changed, at, yes, li)
  BY <1>4 DEF Working
<1> QED  BY <1>1, <1>5 DEF rest, yes, li, PoppedListed

\* PopParent keeps the invariant.
LEMMA PopParentKeeps == IInv /\ PopParent => IInv'
<1> SUFFICES ASSUME IInv, PopParent PROVE IInv'
  OBVIOUS
<1> DEFINE S == call.sweep
           p == CHOOSE p \in S.pending : \A q \in S.pending : q <= p
           rest == S.pending \ {p}
           at == IF MultiPair(work.levels, p) THEN p ELSE 0
           yes == TRUE
<1>1. /\ work' = work /\ UNCHANGED <<held, calls>>
      /\ Ready(work, call) /\ Sound(work) /\ call.step = "sweeping" /\ S.at = 0 /\ S.pending # {}
  BY DEF PopParent, Stay, At, IInv, Sweeps
<1>2. PICK dear \in {TRUE} \cup {~NoDearer(p)} :
        call' = [call EXCEPT !.sweep = Popped(S, p, at, dear)]
  <2>1. PICK dear \in {TRUE} \cup {~NoDearer(p)} :
          call' = [call EXCEPT !.sweep = [Sweeps EXCEPT !.pending = @ \ {p}, !.at = IF MultiPair(work.levels, p) THEN p ELSE 0,
                                                   !.left = TRUE, !.listed = p \notin Sweeps.whole /\ dear]]
    BY DEF PopParent, Sweeps
  <2> QED  BY <2>1 DEF Sweeps, Popped
<1>3. TRUE
  OBVIOUS
<1>4. S.pending \subseteq Internal /\ Sweeping(work, S)
      /\ S = Working(S.pending, S.whole, S.changed, S.at, S.left, S.listed)
  BY <1>1 DEF Ready, AsTheStep, CallTyped, SweepTyped
<1>5. p \in S.pending /\ \A q \in S.pending : q <= p
  <2>1. S.pending \subseteq Nat /\ Root \in Nat /\ \A q \in S.pending : q <= Root
    BY <1>4, RootIs, InternalIs
  <2>2. \E m \in S.pending : \A q \in S.pending : q <= m
    BY <1>1, <2>1, GreatestNumber
  <2> QED  BY <2>2
<1> HIDE DEF p
<1>6. at \in {0, p} /\ rest \subseteq Internal
  BY <1>4
<1>7. yes
  OBVIOUS
<1> DEFINE s == Popped(S, p, at, dear)
<1>8. call' = [call EXCEPT !.sweep = s]
  BY <1>2
<1> HIDE DEF at
<1>9. \E li : s = Working(rest, S.whole, S.changed, at, yes, li)
  <2> HIDE DEF S
  <2> DEFINE li == PoppedListed(S, p, dear)
  <2>1. Popped(S, p, at, dear) = Working(S.pending \ {p}, S.whole, S.changed, at, TRUE, li)
    BY <1>4, PoppedIs
  <2> HIDE DEF li
  <2> QED  BY <2>1
<1> HIDE DEF yes
<1> HIDE DEF s
<1>10. SweepTyped(s) /\ s.pending = rest /\ s.changed = S.changed /\ s.at = at /\ s.left = yes
  <2>1. PICK li : s = Working(rest, S.whole, S.changed, at, yes, li)
    BY <1>9
  <2> QED  BY <1>6, <2>1, WorkingTyped, WorkingIs
<1> HIDE DEF S
<1>11. Sweeping(work, s)
  <2>1. s.at \in Internal \cup {0} /\ s.left \in BOOLEAN
    BY <1>4, <1>5, <1>6, <1>7, <1>10
  <2>2. ASSUME s.at # 0 PROVE \A q \in s.pending : q < s.at
    <3>1. s.at = p /\ s.pending \subseteq S.pending /\ p \notin s.pending
      BY <1>6, <1>10, <2>2
    <3>2. \A q \in S.pending : q \in Nat /\ p \in Nat
      BY <1>4, <1>5, InternalIs
    <3> QED  BY <1>5, <3>1, <3>2
  <2>3. s.changed = [t \in Leaf \cup Internal |-> s.changed[t]] /\ \A t \in Internal : s.changed[t] \subseteq DOMAIN work.levels[t]
    BY <1>4, <1>10 DEF Sweeping
  <2>4. ASSUME NEW t \in Internal \ {Root}, s.changed[t] # {}
        PROVE  /\ \A q \in s.pending : q < Parent[t]
               /\ s.at # 0 => s.at <= Parent[t] /\ (s.at = Parent[t] => t = Left[s.at] /\ ~s.left)
    <3>1. \A q \in S.pending : q < Parent[t]
      BY <1>4, <1>10, <2>4 DEF Sweeping
    <3>2. p < Parent[t] /\ p \in Nat /\ Parent[t] \in Nat
      BY <1>4, <1>5, <3>1, InternalIs, HasParent DEF Vtree
    <3>3. s.at \in {0, p} /\ s.pending \subseteq S.pending
      BY <1>6, <1>10
    <3> QED  BY <3>1, <3>2, <3>3
  <2> QED  BY <2>1, <2>2, <2>3, <2>4 DEF Sweeping
<1>12. AsTheStep(work, call.plan, "sweeping", call.old, s)
  BY <1>1, <1>11 DEF Ready, AsTheStep, Pruned
<1>13. call = InFlight(call.name, call.ask, call.plan, call.scope, call.step, call.old, call.rewrote, call.leaves, call.sweep)
  BY <1>1 DEF Ready
<1>14. call' = InFlight(call.name, call.ask, call.plan, call.scope, call.step, call.old, call.rewrote, call.leaves, s)
  BY <1>8, <1>13, InFlightSweep
<1>15. Ready(work, call')
  BY <1>1, <1>10, <1>12, <1>14, SweepReady
<1> QED  BY <1>1, <1>15, Advance

-------------------------------------------------------------------------------
(* The search of one child. *)

\* A search changes the slots of the child alone.
LEMMA ContractChildKeeps ==
  ASSUME NEW d, Sound(d), NEW c \in Internal, c # Root, NEW among, among \subseteq DOMAIN d.levels[c],
         NEW finding, finding.dropped \subseteq Unnamed(d.levels, c)
  PROVE  /\ Sound(ContractChild(d, c, among, finding))
         /\ \A t \in Internal \ {c} : DOMAIN ContractChild(d, c, among, finding).levels[t] = DOMAIN d.levels[t]
<1> DEFINE made == ContractChild(d, c, among, finding)
<1>1. /\ Sound(made) /\ made.out = d.out
      /\ \A t \in Internal \ {c} : DOMAIN made.levels[t] = DOMAIN d.levels[t]
      /\ \/ made.levels = d.levels /\ ~HasTwins(d.levels, c, among) /\ finding.dropped = {}
         \/ \A i \in DOMAIN d.levels[c] : Context(d.levels, c, i) # {} =>
              Moved(Keeper(d.levels, c, among), finding.dropped, i) \in DOMAIN made.levels[c]
      /\ made.levels = d.levels \/ made.levels = MergedLevels(d.levels, c, among, finding.dropped)
  BY ContractChildSound
<1> HIDE DEF made
<1>2. Sound(made) /\ \A t \in Internal \ {c} : DOMAIN made.levels[t] = DOMAIN d.levels[t]
  BY <1>1
<1> QED  BY <1>2 DEF made

\* What a search may report: unnamed nodes only.
LEMMA FindingIs ==
  ASSUME NEW c, NEW finding, finding \in FindingsAt(c)
  PROVE  finding.dropped \subseteq Unnamed(work.levels, c)
<1> DEFINE none == {}
           no == FALSE
           unnamed == Unnamed(work.levels, c)
           listed  == IF Cardinality(unnamed) >= 2 THEN unnamed ELSE {}
           tight   == Cardinality(unnamed) # 1
           first   == [dropped |-> none, tight |-> no]
           second  == [dropped |-> listed, tight |-> no]
           third   == [dropped |-> listed, tight |-> tight]
<1>1. first.dropped = none /\ second.dropped = listed /\ third.dropped = listed
  <2> HIDE DEF none, no, listed, tight
  <2> QED  OBVIOUS
<1>2. none \subseteq unnamed /\ listed \subseteq unnamed
  OBVIOUS
<1>3. finding \in ListedFindings \/ finding \in Findings(work, c)
  BY DEF FindingsAt
<1>4. ListedFindings = {first}
  BY DEF ListedFindings
<1>5. Findings(work, c) \subseteq {first, second, third}
  <2> DEFINE screen == IF HasTwins(work.levels, c, DOMAIN work.levels[c]) THEN {} ELSE {first}
  <2>1. Findings(work, c) = screen \cup {second, third}
    BY DEF Findings
  <2> HIDE DEF first, second, third
  <2>2. screen \subseteq {first}
    OBVIOUS
  <2> HIDE DEF screen
  <2> QED  BY <2>1, <2>2
<1> HIDE DEF first, second, third, unnamed, listed
<1>6. finding = first \/ finding = second \/ finding = third
  BY <1>3, <1>4, <1>5
<1> QED  BY <1>1, <1>2, <1>6 DEF unnamed

\* How a search of one child leaves the working set.
SearchNotes(s, c, e, new) ==
  /\ ~new.left /\ new.left \in BOOLEAN
  /\ new.at = (IF Side(c) = 1 THEN s.at ELSE 0)
  /\ new.pending \subseteq s.pending \cup {c}
  /\ new.changed = [t \in Leaf \cup Internal |-> new.changed[t]]
  /\ \A t \in Internal : new.changed[t] \subseteq DOMAIN e.levels[t]
  /\ \A t \in Internal : t # c => new.changed[t] = s.changed[t]

\* A search of one child leaves the working set as the next pop needs it.
LEMMA SweepingNext ==
  ASSUME NEW d, NEW s, Sweeping(d, s), s.at # 0, s.pending \subseteq Internal,
         NEW c \in Children(s.at), c = Left[s.at] <=> s.left,
         NEW e, NEW new, SearchNotes(s, c, e, new)
  PROVE  Sweeping(e, new)
<1> USE DEF SearchNotes
<1>1. s.at \in Internal /\ s.at \in Nat
  BY InternalIs DEF Sweeping
<1>2. /\ c \in Vtree \ {Root} /\ Parent[c] = s.at /\ c < s.at /\ c \in Nat
      /\ Side(c) = 1 <=> c = Left[s.at]
  BY <1>1, ParentOf, InternalIs DEF Children
<1>3. \A q \in s.pending : q < s.at /\ q \in Nat
  BY InternalIs DEF Sweeping
<1>4. new.at \in {0, s.at} /\ (new.at # 0 => c = Left[s.at] /\ s.left /\ new.at = s.at)
  BY <1>2
<1>5. \A q \in new.pending : q < s.at
  BY <1>2, <1>3
<1>6. ASSUME NEW t \in Internal \ {Root}, new.changed[t] # {}
      PROVE  /\ \A q \in new.pending : q < Parent[t]
             /\ new.at # 0 => new.at <= Parent[t] /\ (new.at = Parent[t] => t = Left[new.at] /\ ~new.left)
  <2>1. CASE t = c
    BY <1>1, <1>2, <1>4, <1>5, <2>1
  <2>2. CASE t # c
    <3>1. s.changed[t] # {}
      BY <1>6, <2>2
    <3>2. /\ \A q \in s.pending : q < Parent[t]
          /\ s.at <= Parent[t] /\ (s.at = Parent[t] => t = Left[s.at] /\ ~s.left)
      BY <1>1, <3>1 DEF Sweeping
    <3>3. Parent[t] \in Nat
      BY HasParent, InternalIs DEF Vtree
    <3>4. c < Parent[t]
      BY <1>1, <1>2, <3>2, <3>3
    <3> QED  BY <1>4, <3>2, <3>3, <3>4
  <2> QED  BY <2>1, <2>2
<1> QED  BY <1>1, <1>4, <1>5, <1>6 DEF Sweeping

\* What a search at a node noted as changed nowhere notes of it.
Noted(keeper, dropped, among) ==
  LET groups == {i \in DOMAIN keeper : keeper[i] = i /\ \E j \in DOMAIN keeper : j # i /\ keeper[j] = i}
  IN  {Moved(keeper, dropped, i) : i \in among \cup groups}

\* What a search notes as changed are nodes of the level it leaves.
LEMMA NotedFits ==
  ASSUME NEW d, Sound(d), NEW c \in Internal, c # Root, NEW among, among \subseteq DOMAIN d.levels[c],
         NEW finding, finding.dropped \subseteq Unnamed(d.levels, c),
         HasTwins(d.levels, c, among) \/ finding.dropped # {}
  PROVE  Noted(Keeper(d.levels, c, among), finding.dropped, {}) \subseteq DOMAIN ContractChild(d, c, among, finding).levels[c]
<1> DEFINE keeper == Keeper(d.levels, c, among)
           made   == ContractChild(d, c, among, finding)
           groups == {i \in DOMAIN keeper : keeper[i] = i /\ \E j \in DOMAIN keeper : j # i /\ keeper[j] = i}
<1>1. InRange(d.levels)
  BY SoundIs
<1>2. \/ made.levels = d.levels /\ ~HasTwins(d.levels, c, among) /\ finding.dropped = {}
      \/ \A i \in DOMAIN d.levels[c] : Context(d.levels, c, i) # {} =>
           Moved(Keeper(d.levels, c, among), finding.dropped, i) \in DOMAIN made.levels[c]
  BY ContractChildSound
<1>3. \A i \in DOMAIN d.levels[c] : Context(d.levels, c, i) # {} => Moved(keeper, finding.dropped, i) \in DOMAIN made.levels[c]
  BY <1>2
<1>4. /\ keeper \in [DOMAIN d.levels[c] -> DOMAIN d.levels[c]]
      /\ \A i \in DOMAIN d.levels[c] :
           /\ Context(d.levels, c, keeper[i]) = Context(d.levels, c, i)
           /\ Context(d.levels, c, i) = {} => keeper[i] = i
  BY <1>1, KeeperIs
<1> HIDE DEF keeper, made
<1>5. ASSUME NEW i \in groups PROVE Moved(keeper, finding.dropped, i) \in DOMAIN made.levels[c]
  <2>1. PICK j \in DOMAIN keeper : j # i /\ keeper[j] = i
    OBVIOUS
  <2>2. i \in DOMAIN d.levels[c] /\ j \in DOMAIN d.levels[c]
    BY <1>4
  <2>3. Context(d.levels, c, j) # {}
    BY <1>4, <2>1, <2>2
  <2>4. Context(d.levels, c, i) # {}
    BY <1>4, <2>1, <2>2, <2>3
  <2> QED  BY <1>3, <2>2, <2>4
<1>6. Noted(keeper, finding.dropped, {}) = {Moved(keeper, finding.dropped, i) : i \in {} \cup groups}
  BY DEF Noted
<1> HIDE DEF groups
<1>7. Noted(keeper, finding.dropped, {}) \subseteq DOMAIN made.levels[c]
  <2>1. ASSUME NEW x, x \in Noted(keeper, finding.dropped, {}) PROVE x \in DOMAIN made.levels[c]
    <3>1. PICK i \in groups : x = Moved(keeper, finding.dropped, i)
      BY <1>6, <2>1
    <3> QED  BY <1>5, <3>1
  <2> QED  BY <2>1
<1> QED  BY <1>7 DEF keeper, made

\* A working set after a search.
StillListed(s, c) == Side(c) = 1 /\ s.listed

After(s, c, at, pending, changed, whole) ==
  [s EXCEPT !.left = FALSE, !.at = at, !.listed = StillListed(s, c), !.pending = pending, !.changed = changed, !.whole = whole]

\* A working set is its six fields.
Formed(s) == s = Working(s.pending, s.whole, s.changed, s.at, s.left, s.listed)

AfterFits(s, c, at, pending, changed, whole) ==
  After(s, c, at, pending, changed, whole) = Working(pending, whole, changed, at, FALSE, StillListed(s, c))

\* The working set after a search.
LEMMA AfterIs ==
  ASSUME NEW s, Formed(s), NEW c, NEW at, NEW pending, NEW changed, NEW whole
  PROVE  AfterFits(s, c, at, pending, changed, whole)
<1>f. s = Working(s.pending, s.whole, s.changed, s.at, s.left, s.listed)
  BY DEF Formed
<1> DEFINE no == FALSE
           listed == StillListed(s, c)
           s1 == [s EXCEPT !.left = no]
           s2 == [s1 EXCEPT !.at = at]
           s3 == [s2 EXCEPT !.listed = listed]
           s4 == [s3 EXCEPT !.pending = pending]
           s5 == [s4 EXCEPT !.changed = changed]
           s6 == [s5 EXCEPT !.whole = whole]
<1>1. After(s, c, at, pending, changed, whole) = s6
  BY DEF After
<1> HIDE DEF no, listed
<1>2. s1 = Working(s.pending, s.whole, s.changed, s.at, no, s.listed)
  BY <1>f DEF Working
<1> HIDE DEF s1
<1>3. s2 = Working(s.pending, s.whole, s.changed, at, no, s.listed)
  BY <1>2 DEF Working
<1> HIDE DEF s2
<1>4. s3 = Working(s.pending, s.whole, s.changed, at, no, listed)
  BY <1>3 DEF Working
<1> HIDE DEF s3
<1>5. s4 = Working(pending, s.whole, s.changed, at, no, listed)
  BY <1>4 DEF Working
<1> HIDE DEF s4
<1>6. s5 = Working(pending, s.whole, changed, at, no, listed)
  BY <1>5 DEF Working
<1> HIDE DEF s5
<1>7. s6 = Working(pending, whole, changed, at, no, listed)
  BY <1>6 DEF Working
<1> QED  BY <1>1, <1>7 DEF no, listed, AfterFits

\* A search looks among the nodes of its level.
LEMMA ReachIs ==
  ASSUME Sound(work), Sweeping(work, Sweeps), Sweeps.at # 0, NEW c \in Internal, c \in Children(Sweeps.at)
  PROVE  Reach(c) \subseteq DOMAIN work.levels[c]
<1>1. Sweeps.at \in Internal /\ Sweeps.changed[Sweeps.at] \subseteq DOMAIN work.levels[Sweeps.at]
  BY DEF Sweeping
<1>2. Parent[c] = Sweeps.at
  BY <1>1, ParentOf
<1>3. InRange(work.levels)
  BY SoundIs
<1> DEFINE above == Sweeps.changed[Sweeps.at]
<1> HIDE DEF above
<1>4. above \subseteq DOMAIN work.levels[Sweeps.at]
  BY <1>1 DEF above
<1>5. NamedFrom(work.levels, c, above) \subseteq Slots(work.levels, c)
  BY <1>1, <1>3, <1>4, NamedIs
<1>6. Slots(work.levels, c) = DOMAIN work.levels[c]
  BY InternalIs DEF Slots
<1> QED  BY <1>2, <1>5, <1>6 DEF Reach, above

\* Searching one child of the parent at hand keeps the invariant.
LEMMA ContractsKeeps ==
  ASSUME IInv, UNCHANGED <<held, calls>>, At("sweeping"), Sweeps.at # 0,
         NEW c \in Children(Sweeps.at), c = Left[Sweeps.at] <=> Sweeps.left,
         NEW finding, finding \in FindingsAt(c), Contracts(c, finding)
  PROVE  IInv'
<1> DEFINE S      == call.sweep
           among  == Reach(c)
           keeper == Keeper(work.levels, c, among)
           fires  == Fires(work, c, among, finding)
           made   == IF Searched(work, c) THEN ContractChild(work, c, among, finding) ELSE work
           groups == {i \in DOMAIN keeper : keeper[i] = i /\ \E j \in DOMAIN keeper : j # i /\ keeper[j] = i}
           notes  == {Moved(keeper, finding.dropped, i) : i \in S.changed[c] \cup groups}
           at     == IF Side(c) = 1 THEN S.at ELSE 0
           pending == IF fires /\ MultiPair(made.levels, c) THEN S.pending \cup {c} ELSE S.pending
           changed == IF fires THEN [S.changed EXCEPT ![c] = notes] ELSE S.changed
           whole   == IF finding.dropped # {} THEN S.whole \cup {c} ELSE S.whole
           s       == After(S, c, at, pending, changed, whole)
<1>1. /\ Sound(work) /\ Ready(work, call) /\ call.step = "sweeping"
  BY DEF IInv, At
<1>2. S.pending \subseteq Internal /\ Sweeping(work, S)
      /\ S = Working(S.pending, S.whole, S.changed, S.at, S.left, S.listed)
  BY <1>1 DEF Ready, AsTheStep, CallTyped, SweepTyped
<1>3. work' = made
  BY DEF Contracts
<1>4. call' = [call EXCEPT !.sweep = s]
  BY <1>3 DEF Contracts, Sweeps, After, StillListed
<1>5. S.at # 0 /\ S.at \in Internal /\ c \in Children(S.at) /\ (c = Left[S.at] <=> S.left)
  BY <1>2 DEF Sweeping, Sweeps
<1>6. c \in Vtree \ {Root} /\ Parent[c] = S.at
  BY <1>5, ParentOf
<1>7. finding.dropped \subseteq Unnamed(work.levels, c)
  BY FindingIs
<1>8. ASSUME c \in Internal PROVE among \subseteq DOMAIN work.levels[c]
  BY <1>1, <1>2, <1>5, <1>8, ReachIs DEF Sweeps
<1>9. fires => Searched(work, c) /\ (HasTwins(work.levels, c, among) \/ finding.dropped # {})
  BY DEF Fires
<1>10. Searched(work, c) => c \in Internal
  BY <1>6 DEF Searched, Vtree
<1> DEFINE child == ContractChild(work, c, among, finding)
<1>11. ASSUME c \in Internal
       PROVE  Sound(child) /\ \A t \in Internal \ {c} : DOMAIN child.levels[t] = DOMAIN work.levels[t]
  <2> HIDE DEF among
  <2>1. c # Root /\ among \subseteq DOMAIN work.levels[c]
    BY <1>6, <1>8, <1>11
  <2> QED  BY <1>1, <1>7, <1>11, <2>1, ContractChildKeeps
<1>12. ASSUME c \in Internal PROVE S.changed[c] = {}
  BY <1>2, <1>5, <1>6, <1>12, InternalIs DEF Sweeping, Children
<1>13. ASSUME fires PROVE notes \subseteq DOMAIN child.levels[c]
  <2>1. c \in Internal
    BY <1>9, <1>10, <1>13
  <2>2. HasTwins(work.levels, c, among) \/ finding.dropped # {}
    BY <1>9, <1>13
  <2>3. Noted(keeper, finding.dropped, {}) \subseteq DOMAIN child.levels[c]
    <3> HIDE DEF among
    <3> QED  BY <1>1, <1>6, <1>7, <1>8, <2>1, <2>2, NotedFits
  <2>4. S.changed[c] \cup groups = {} \cup groups
    BY <1>12, <2>1
  <2>5. Noted(keeper, finding.dropped, {}) = notes
    BY <2>4 DEF Noted
  <2> QED  BY <2>3, <2>5
<1> HIDE DEF fires, child, notes, groups, keeper, among
<1>14. made = IF Searched(work, c) THEN child ELSE work
  BY DEF child, among
<1> HIDE DEF made
<1>15. Sound(made)
  BY <1>1, <1>10, <1>11, <1>14
<1>16. \A t \in Internal : t # c \/ ~Searched(work, c) => DOMAIN made.levels[t] = DOMAIN work.levels[t]
  BY <1>10, <1>11, <1>14
<1>17. /\ changed = [t \in Leaf \cup Internal |-> changed[t]]
       /\ \A t \in Internal : t # c => changed[t] = S.changed[t]
       /\ fires => changed[c] = notes
       /\ ~fires => changed = S.changed
  <2>1. S.changed = [t \in Leaf \cup Internal |-> S.changed[t]]
    BY <1>2 DEF Sweeping
  <2> DEFINE old == S.changed
             new == [old EXCEPT ![c] = notes]
  <2>2. old = [t \in Leaf \cup Internal |-> old[t]] /\ DOMAIN old = Leaf \cup Internal /\ c \in Leaf \cup Internal
    BY <1>6, <2>1 DEF Vtree
  <2> HIDE DEF old
  <2>3. /\ new = [t \in Leaf \cup Internal |-> new[t]]
        /\ \A t \in Internal : t # c => new[t] = old[t]
        /\ new[c] = notes
    BY <2>2
  <2> HIDE DEF new
  <2>4. changed = IF fires THEN new ELSE old
    BY DEF new, old
  <2> HIDE DEF changed
  <2> QED  BY <2>2, <2>3, <2>4 DEF old
<1>18. ASSUME NEW t \in Internal PROVE changed[t] \subseteq DOMAIN made.levels[t]
  <2>1. S.changed[t] \subseteq DOMAIN work.levels[t]
    BY <1>2 DEF Sweeping
  <2> HIDE DEF changed
  <2>2. CASE t # c
    BY <1>16, <1>17, <2>1, <2>2
  <2>3. CASE t = c /\ fires
    BY <1>9, <1>13, <1>14, <1>17, <2>3
  <2>4. CASE t = c /\ ~fires
    <3>1. changed[t] = {}
      BY <1>12, <1>17, <2>4
    <3> QED  BY <3>1
  <2> QED  BY <2>2, <2>3, <2>4
<1>19. pending \subseteq S.pending \cup {c} /\ pending \subseteq Internal
  <2>1. fires => c \in Internal
    BY <1>9, <1>10
  <2> QED  BY <1>2, <2>1
<1> HIDE DEF at, pending, changed, whole
<1> DEFINE no == FALSE
<1>20. s = Working(pending, whole, changed, at, no, StillListed(S, c))
  <2> HIDE DEF S
  <2>1. S = Working(S.pending, S.whole, S.changed, S.at, S.left, S.listed)
    BY <1>2
  <2>2. After(S, c, at, pending, changed, whole) = Working(pending, whole, changed, at, FALSE, StillListed(S, c))
    <3>1. Formed(S)
      BY <2>1 DEF Formed
    <3> HIDE DEF at, pending, changed, whole
    <3>2. AfterFits(S, c, at, pending, changed, whole)
      BY <3>1, AfterIs
    <3> QED  BY <3>2 DEF AfterFits
  <2> QED  BY <2>2
<1>21. ~no /\ no \in BOOLEAN
  OBVIOUS
<1> HIDE DEF s, no
<1>22. SweepTyped(s) /\ s.pending = pending /\ s.changed = changed /\ s.at = at /\ s.left = no
  BY <1>19, <1>20, WorkingTyped, WorkingIs
<1>23. Sweeping(made, s)
  <2> HIDE DEF S
  <2>1. s.at = (IF Side(c) = 1 THEN S.at ELSE 0)
    BY <1>22 DEF at
  <2>2. ~s.left /\ s.left \in BOOLEAN
    BY <1>21, <1>22
  <2>3. s.pending \subseteq S.pending \cup {c} /\ s.changed = [t \in Leaf \cup Internal |-> s.changed[t]]
    BY <1>17, <1>19, <1>22
  <2>4. \A t \in Internal : s.changed[t] \subseteq DOMAIN made.levels[t]
    BY <1>18, <1>22
  <2>5. \A t \in Internal : t # c => s.changed[t] = S.changed[t]
    BY <1>17, <1>22
  <2>6. SearchNotes(S, c, made, s)
    BY <2>1, <2>2, <2>3, <2>4, <2>5 DEF SearchNotes
  <2> QED  BY <1>2, <1>5, <2>6, SweepingNext
<1>24. OneRoot(work) => OneRoot(made)
  <2>1. SameRoot(made, work)
    <3>1. Root # c
      BY <1>6
    <3> QED  BY <1>16, <3>1, RootIs DEF SameRoot
  <2>2. Len(made.levels[Root]) = Len(work.levels[Root])
    BY <1>1, <1>15, <2>1, SameRootIs
  <2> QED  BY <2>2 DEF OneRoot
<1>25. AsTheStep(made, call.plan, "sweeping", call.old, s)
  BY <1>1, <1>23, <1>24 DEF Ready, AsTheStep, Pruned
<1>26. call = InFlight(call.name, call.ask, call.plan, call.scope, call.step, call.old, call.rewrote, call.leaves, call.sweep)
  BY <1>1 DEF Ready
<1>27. call' = InFlight(call.name, call.ask, call.plan, call.scope, call.step, call.old, call.rewrote, call.leaves, s)
  BY <1>4, <1>26, InFlightSweep
<1>28. Ready(made, call')
  BY <1>1, <1>22, <1>25, <1>27, SweepReady
<1> QED  BY <1>3, <1>15, <1>28, Advance

\* ContractLeft keeps the invariant.
LEMMA ContractLeftKeeps == IInv /\ ContractLeft => IInv'
<1> SUFFICES ASSUME IInv, ContractLeft PROVE IInv'
  OBVIOUS
<1> DEFINE c == Left[Sweeps.at]
<1>1. /\ At("sweeping") /\ Sweeps.at # 0 /\ (Sweeps.left <=> TRUE) /\ UNCHANGED <<held, calls>>
  BY DEF ContractLeft, Searching, Stay
<1>2. PICK finding : finding \in FindingsAt(c) /\ Contracts(c, finding)
  BY DEF ContractLeft
<1>3. c \in Children(Sweeps.at) /\ (c = Left[Sweeps.at] <=> Sweeps.left)
  BY <1>1 DEF Children
<1> HIDE DEF c
<1> QED  BY <1>1, <1>2, <1>3, ContractsKeeps

\* ContractRight keeps the invariant.
LEMMA ContractRightKeeps == IInv /\ ContractRight => IInv'
<1> SUFFICES ASSUME IInv, ContractRight PROVE IInv'
  OBVIOUS
<1> DEFINE c == Right[Sweeps.at]
<1>1. /\ At("sweeping") /\ Sweeps.at # 0 /\ Sweeps.left = (2 = 1) /\ UNCHANGED <<held, calls>>
  BY DEF ContractRight, Searching, Stay
<1>2. PICK finding : finding \in FindingsAt(c) /\ Contracts(c, finding)
  BY DEF ContractRight
<1>3. Sweeps.at \in Internal
  BY <1>1 DEF IInv, At, Ready, AsTheStep, Sweeping, Sweeps
<1>4. c \in Children(Sweeps.at) /\ (c = Left[Sweeps.at] <=> Sweeps.left)
  <2>1. c # Left[Sweeps.at]
    BY <1>3, InternalIs
  <2>2. ~Sweeps.left
    <3>1. (2 = 1) = FALSE
      OBVIOUS
    <3>2. Sweeps.left = FALSE
      BY <1>1, <3>1, Zenon
    <3> QED  BY <3>2
  <2> QED  BY <2>1, <2>2 DEF Children
<1> HIDE DEF c
<1> QED  BY <1>1, <1>2, <1>4, ContractsKeeps

\* The invariant holds at first.
LEMMA InitKeeps == Init => IInv
<1>1. 0 \in 0 .. MaxCalls
  BY ReductionAssumption
<1> QED  BY <1>1, OperandSound DEF Init, IInv

\* Every step keeps the invariant.
LEMMA NextKeeps == IInv /\ [Next]_vars => IInv'
<1> SUFFICES ASSUME IInv, [Next]_vars PROVE IInv'
  OBVIOUS
<1>1. CASE Load \/ And \/ Minimize \/ Negate \/ ConditionOn
  BY <1>1, CallsKeep
<1>2. CASE Return
  BY <1>2, ReturnKeeps
<1>3. CASE PrunePass
  BY <1>3, PrunePassKeeps
<1>4. CASE CertifyComplement
  BY <1>4, CertifyComplementKeeps
<1>5. CASE SweepStart
  BY <1>5, SweepStartKeeps
<1>6. CASE PopParent
  BY <1>6, PopParentKeeps
<1>7. CASE ContractLeft
  BY <1>7, ContractLeftKeeps
<1>8. CASE ContractRight
  BY <1>8, ContractRightKeeps
<1>9. CASE SweepEnd
  BY <1>9, SweepEndKeeps
<1>10. CASE AfterSweep
  BY <1>10, AfterSweepKeeps
<1>11. CASE LeavesStart
  BY <1>11, LeavesStartKeeps
<1>12. CASE LeafLevel
  BY <1>12, LeafLevelKeeps
<1>13. CASE LeavesEnd
  BY <1>13, LeavesEndKeeps
<1>14. CASE Finish
  BY <1>14, FinishKeeps
<1>15. CASE PruneRefused
  BY <1>15, PruneRefusedKeeps
<1>16. CASE SweepRefused
  BY <1>16, SweepRefusedKeeps
<1>17. CASE SweepStopped
  BY <1>17, SweepStoppedKeeps
<1>18. CASE ContractRefused
  BY <1>18, ContractRefusedKeeps
<1>19. CASE LeafRefused
  BY <1>19, LeafRefusedKeeps
<1>20. CASE UNCHANGED vars
  BY <1>20 DEF vars, IInv
<1> QED  BY <1>1, <1>2, <1>3, <1>4, <1>5, <1>6, <1>7, <1>8, <1>9, <1>10, <1>11, <1>12, <1>13, <1>14, <1>15,
            <1>16, <1>17, <1>18, <1>19, <1>20 DEF Next, Steps, Refusals

\* The invariant holds throughout.
LEMMA Invariance == Spec => []IInv
BY InitKeeps, NextKeeps, PTL DEF Spec

(***************************************************************************)
(* Every diagram a caller holds, and the one a call is at work on, is well *)
(* formed and deterministic between any two steps: after any sequence of   *)
(* operations, refusals and stops (diagram/mod.rs and                      *)
(* test_helpers/check/soundness.rs check it where they are asked to).      *)
(***************************************************************************)
THEOREM TypeCorrect == Spec => []TypeOK
<1>1. IInv => TypeOK
  <2> SUFFICES ASSUME IInv PROVE TypeOK
    OBVIOUS
  <2>1. /\ WellFormed(held) /\ Deterministic(held.levels)
        /\ WellFormed(work) /\ Deterministic(work.levels)
        /\ calls \in 0 .. MaxCalls
    BY DEF IInv, Sound
  <2>2. ASSUME call # Idle
        PROVE  /\ call.plan \in Plans \cup {"none", "Full"}
               /\ call.old \in Nat
               /\ call.leaves \subseteq Internal /\ Sweeps.pending \subseteq Internal
    BY <2>2 DEF IInv, Ready, CallTyped, SweepTyped, Sweeps
  <2> QED  BY <2>1, <2>2 DEF TypeOK
<1> QED  BY <1>1, Invariance, PTL

-------------------------------------------------------------------------------
(* Counting models (query/count): scopes, joins, models, counts. *)

\* The variables below each vnode.
ScopesOf(f) == /\ \A t \in Leaf : f[t] = {t}
               /\ \A t \in Internal : f[t] = f[Left[t]] \cup f[Right[t]]

Scope == CHOOSE f \in [Vtree -> SUBSET Leaf] : ScopesOf(f)

\* Scopes are sets of variables, each from the children's.
LEMMA ScopeIs == Scope \in [Vtree -> SUBSET Leaf] /\ ScopesOf(Scope)
<1> DEFINE V == SUBSET Leaf
           base == [t \in Leaf |-> {t}]
           step == [x \in Internal \X V \X V |-> x[2] \cup x[3]]
<1>1. V # {} /\ base \in [Leaf -> V]
  <2>1. {} \in V
    OBVIOUS
  <2>2. \A t \in Leaf : {t} \in V
    OBVIOUS
  <2> QED  BY <2>1, <2>2
<1>2. step \in StepsUp(V)
  <2>1. \A x \in Internal \X V \X V : x[2] \cup x[3] \in V
    OBVIOUS
  <2> HIDE DEF V
  <2> QED  BY <2>1 DEF StepsUp
<1>3. \A t \in Internal : \A l, r \in V : step[<<t, l, r>>] = l \cup r
  <2> HIDE DEF V
  <2> QED  OBVIOUS
<1>4. \A t \in Leaf : base[t] = {t}
  OBVIOUS
<1> HIDE DEF V, base, step
<1>5. PICK f \in [Vtree -> V] : /\ \A t \in Leaf : f[t] = base[t]
                                /\ \A t \in Internal : f[t] = step[<<t, f[Left[t]], f[Right[t]]>>]
  BY <1>1, <1>2, UpExists
<1>6. \A t \in Internal : f[t] = f[Left[t]] \cup f[Right[t]]
  <2>1. ASSUME NEW t \in Internal PROVE f[t] = f[Left[t]] \cup f[Right[t]]
    <3>1. f[Left[t]] \in V /\ f[Right[t]] \in V
      BY InternalIs
    <3>2. step[<<t, f[Left[t]], f[Right[t]]>>] = f[Left[t]] \cup f[Right[t]]
      BY <1>3, <3>1
    <3>3. f[t] = step[<<t, f[Left[t]], f[Right[t]]>>]
      BY <1>5
    <3> QED  BY <3>2, <3>3
  <2> QED  BY <2>1
<1>7. ScopesOf(f)
  BY <1>4, <1>5, <1>6 DEF ScopesOf
<1> QED  BY <1>7 DEF Scope, V

\* Of two vnodes with a variable in common the higher is above the lower one's parent.
LEMMA ScopesNest ==
  ASSUME NEW c \in Vtree, NEW d \in Vtree, c < d, NEW x, x \in Scope[c], x \in Scope[d]
  PROVE  c # Root /\ Parent[c] <= d
<1> DEFINE nests(e) == \A b \in Vtree : b < e /\ x \in Scope[b] => b # Root /\ Parent[b] <= e
           bad == {e \in Vtree : x \in Scope[e] /\ ~nests(e)}
<1>0. Vtree \subseteq Nat
  BY VtreeAssumption DEF Vtree
<1>1. SUFFICES ASSUME bad # {} PROVE FALSE
  OBVIOUS
<1>2. PICK e \in bad : \A b \in bad : e <= b
  <2>1. bad \subseteq Nat
    BY <1>0
  <2> HIDE DEF bad
  <2> QED  BY <1>1, <2>1, LeastNumber
<1>3. e \in Vtree /\ x \in Scope[e] /\ ~nests(e) /\ e \in Nat
  BY <1>0, <1>2
<1>4. PICK b \in Vtree : b < e /\ x \in Scope[b] /\ ~(b # Root /\ Parent[b] <= e)
  BY <1>3
<1>5. b \in Nat
  BY <1>0
<1>6. \A u \in Vtree : u < e /\ x \in Scope[u] => nests(u)
  <2>1. ASSUME NEW u \in Vtree, u < e, x \in Scope[u] PROVE nests(u)
    <3>1. u \in Nat /\ ~(e <= u)
      BY <1>0, <1>3, <2>1
    <3>2. u \notin bad
      BY <1>2, <3>1
    <3> QED  BY <2>1, <3>2
  <2> QED  BY <2>1
<1>7. e \notin Leaf
  <2>1. SUFFICES ASSUME e \in Leaf PROVE FALSE
    OBVIOUS
  <2>2. x = e
    BY <1>3, <2>1, ScopeIs DEF ScopesOf
  <2> DEFINE P == {u \in Vtree : x \in Scope[u] => x <= u}
  <2>3. Leaf \subseteq P
    BY <1>0, ScopeIs DEF ScopesOf, Vtree
  <2>4. \A t \in Internal : Left[t] \in P /\ Right[t] \in P => t \in P
    <3>1. SUFFICES ASSUME NEW t \in Internal, Left[t] \in P, Right[t] \in P, x \in Scope[t] PROVE x <= t
      BY DEF Vtree
    <3>2. x \in Scope[Left[t]] \/ x \in Scope[Right[t]]
      BY <3>1, ScopeIs DEF ScopesOf
    <3>3. x <= Left[t] \/ x <= Right[t]
      BY <3>1, <3>2
    <3> QED  BY <1>3, <2>2, <3>3, InternalIs
  <2>5. b \in P
    <3> HIDE DEF P
    <3> QED  BY <2>3, <2>4, UpInduction
  <2> QED  BY <1>3, <1>4, <1>5, <2>2, <2>5
<1>8. e \in Internal
  BY <1>3, <1>7 DEF Vtree
<1>9. PICK c1 \in Children(e) : x \in Scope[c1]
  <2>1. x \in Scope[Left[e]] \/ x \in Scope[Right[e]]
    BY <1>3, <1>8, ScopeIs DEF ScopesOf
  <2> QED  BY <2>1 DEF Children
<1>10. c1 \in Vtree /\ c1 # Root /\ Parent[c1] = e /\ c1 < e /\ c1 \in Nat
  <2>1. c1 \in Vtree /\ c1 # Root /\ Parent[c1] = e
    BY <1>8, <1>9, ParentOf
  <2>2. c1 < e
    BY <1>8, <1>9, InternalIs DEF Children
  <2> QED  BY <1>0, <2>1, <2>2
<1>11. CASE b = c1
  BY <1>3, <1>4, <1>10, <1>11
<1>12. CASE b < c1
  <2>1. b # Root /\ Parent[b] <= c1
    BY <1>4, <1>6, <1>9, <1>10, <1>12
  <2>2. Parent[b] \in Nat
    BY <1>4, <2>1, HasParent, InternalIs
  <2> QED  BY <1>3, <1>4, <1>10, <2>1, <2>2
<1>13. CASE c1 < b
  <2>1. Parent[c1] <= b
    BY <1>4, <1>6, <1>9, <1>10, <1>13
  <2> QED  BY <1>3, <1>4, <1>5, <1>10, <2>1
<1> QED  BY <1>5, <1>10, <1>11, <1>12, <1>13

\* A level's children share no variable.
LEMMA ScopesApart ==
  ASSUME NEW t \in Internal
  PROVE  Scope[Left[t]] \cap Scope[Right[t]] = {}
<1>1. SUFFICES ASSUME NEW x, x \in Scope[Left[t]], x \in Scope[Right[t]] PROVE FALSE
  OBVIOUS
<1> DEFINE l == Left[t]
           r == Right[t]
<1>2. /\ l \in Vtree /\ r \in Vtree /\ l # r /\ l < t /\ r < t /\ l \in Nat /\ r \in Nat /\ t \in Nat
      /\ Parent[l] = t /\ Parent[r] = t
  <2>1. l \in Children(t) /\ r \in Children(t)
    BY DEF Children
  <2> QED  BY <2>1, InternalIs, ParentOf
<1>3. x \in Scope[l] /\ x \in Scope[r]
  BY <1>1
<1> HIDE DEF l, r
<1>4. CASE l < r
  BY <1>2, <1>3, <1>4, ScopesNest
<1>5. CASE r < l
  BY <1>2, <1>3, <1>5, ScopesNest
<1> QED  BY <1>2, <1>4, <1>5

Apart2(a, b) == a \cap b = {}

\* What the variables of either side allow, joined.
LEMMA JoinedIn ==
  ASSUME NEW X, NEW Y, NEW a, a \subseteq SUBSET X, NEW b, b \subseteq SUBSET Y
  PROVE  Joined(a, b) \subseteq SUBSET (X \cup Y)
BY DEF Joined

Halves(X, Y, x, y) == x \subseteq X /\ y \subseteq Y
SameJoin(x, y, u, v) == x \cup y = u \cup v

\* Over different variables a join can be taken apart again.
LEMMA JoinedParts ==
  ASSUME NEW X, NEW Y, Apart2(X, Y), NEW x, NEW y, Halves(X, Y, x, y), NEW u, NEW v, Halves(X, Y, u, v),
         SameJoin(x, y, u, v)
  PROVE  x = u /\ y = v
<1>0. x \subseteq X /\ y \subseteq Y /\ u \subseteq X /\ v \subseteq Y /\ x \cup y = u \cup v
  BY DEF Halves, SameJoin
<1>1. \A e : ~(e \in X /\ e \in Y)
  BY DEF Apart2
<1>2. \A e : e \in x \/ e \in y <=> e \in u \/ e \in v
  BY <1>0
<1>3. \A e : e \in x <=> e \in u
  BY <1>0, <1>1, <1>2
<1>4. \A e : e \in y <=> e \in v
  BY <1>0, <1>1, <1>2
<1> QED  BY <1>3, <1>4

\* Joins of disjoint halves are disjoint.
LEMMA JoinedApart ==
  ASSUME NEW X, NEW Y, Apart2(X, Y), NEW a, a \subseteq SUBSET X, NEW c, c \subseteq SUBSET X,
         NEW b, b \subseteq SUBSET Y, NEW d, d \subseteq SUBSET Y, Apart2(a, c) \/ Apart2(b, d)
  PROVE  Apart2(Joined(a, b), Joined(c, d))
<1>1. SUFFICES ASSUME NEW z, z \in Joined(a, b), z \in Joined(c, d) PROVE FALSE
  BY DEF Apart2
<1>2. PICK p \in a \X b : z = p[1] \cup p[2]
  BY <1>1 DEF Joined
<1>3. PICK q \in c \X d : z = q[1] \cup q[2]
  BY <1>1 DEF Joined
<1>4. /\ p[1] \in SUBSET X /\ q[1] \in SUBSET X /\ p[2] \in SUBSET Y /\ q[2] \in SUBSET Y
      /\ p[1] \in a /\ q[1] \in c /\ p[2] \in b /\ q[2] \in d
  OBVIOUS
<1>5. p[1] = q[1] /\ p[2] = q[2]
  <2>1. Halves(X, Y, p[1], p[2]) /\ Halves(X, Y, q[1], q[2])
    BY <1>4 DEF Halves
  <2>2. SameJoin(p[1], p[2], q[1], q[2])
    BY <1>2, <1>3 DEF SameJoin
  <2> QED  BY <2>1, <2>2, JoinedParts
<1> QED  BY <1>4, <1>5 DEF Apart2

\* As many joins as there are pairs of halves.
LEMMA JoinedCount ==
  ASSUME NEW X, NEW Y, Apart2(X, Y), NEW a, a \subseteq SUBSET X, NEW b, b \subseteq SUBSET Y,
         IsFiniteSet(a), IsFiniteSet(b)
  PROVE  IsFiniteSet(Joined(a, b)) /\ Cardinality(Joined(a, b)) = Cardinality(a) * Cardinality(b)
<1> DEFINE f == [p \in a \X b |-> p[1] \cup p[2]]
           P == a \X b
           J == Joined(a, b)
<1>1. IsFiniteSet(P) /\ Cardinality(P) = Cardinality(a) * Cardinality(b)
  BY FS_Product
<1>2. f \in Bijection(P, J)
  <2>1. \A p \in P : f[p] = p[1] \cup p[2]
    OBVIOUS
  <2>2. \A z : z \in J <=> \E p \in P : z = p[1] \cup p[2]
    BY DEF Joined
  <2>3. f \in [P -> J]
    <3>1. \A p \in P : f[p] \in J
      BY <2>1, <2>2
    <3>2. f = [p \in P |-> f[p]]
      OBVIOUS
    <3> HIDE DEF f, P, J
    <3> QED  BY <3>1, <3>2
  <2>4. ASSUME NEW p \in P, NEW q \in P, f[p] = f[q] PROVE p = q
    <3>1. /\ p[1] \in SUBSET X /\ q[1] \in SUBSET X /\ p[2] \in SUBSET Y /\ q[2] \in SUBSET Y
          /\ p = <<p[1], p[2]>> /\ q = <<q[1], q[2]>>
      OBVIOUS
    <3>2. p[1] \cup p[2] = q[1] \cup q[2]
      BY <2>1, <2>4
    <3>3. p[1] = q[1] /\ p[2] = q[2]
      <4>1. Halves(X, Y, p[1], p[2]) /\ Halves(X, Y, q[1], q[2])
        BY <3>1 DEF Halves
      <4>2. SameJoin(p[1], p[2], q[1], q[2])
        BY <3>2 DEF SameJoin
      <4> QED  BY <4>1, <4>2, JoinedParts
    <3> QED  BY <3>1, <3>3
  <2>5. \A z \in J : \E p \in P : f[p] = z
    BY <2>1, <2>2
  <2> HIDE DEF f, P, J
  <2> QED  BY <2>3, <2>4, <2>5 DEF Bijection, Injection, Surjection, IsInjective
<1> HIDE DEF f, P, J
<1>3. ExistsBijection(P, J)
  BY <1>2 DEF ExistsBijection
<1>4. IsFiniteSet(J) /\ Cardinality(J) = Cardinality(P)
  BY <1>1, <1>3, FS_Bijection
<1> QED  BY <1>1, <1>4 DEF J

\* Disjoint sets, one for each member of S, and together.
AllApart(f, S) == \A x, y \in S : x # y => Apart2(f[x], f[y])
AllFinite(f, S) == \A x \in S : IsFiniteSet(f[x])
Together(f, S) == UNION {f[x] : x \in S}

\* A set of finite sets has a member none of whose strict subsets it holds.
LEMMA LeastSet ==
  ASSUME NEW S, IsFiniteSet(S), NEW B, B \subseteq SUBSET S, B # {}
  PROVE  \E T \in B : \A U \in B : U \subseteq T => U = T
<1> DEFINE R == StrictSubsetOrdering(S)
<1>1. IsWellFoundedOn(R, FiniteSubsetsOf(S)) /\ B \subseteq FiniteSubsetsOf(S)
  BY FS_StrictSubsetOrderingWellFounded, FS_FiniteSubsetsOfFinite
<1>2. PICK T \in B : \A U \in B : ~(<<U, T>> \in R)
  <2> HIDE DEF R
  <2> QED  BY <1>1, WFMin
<1>3. ASSUME NEW U \in B, U \subseteq T, U # T PROVE <<U, T>> \in R
  BY <1>3 DEF StrictSubsetOrdering
<1>4. ASSUME NEW U \in B, U \subseteq T PROVE U = T
  BY <1>2, <1>3, <1>4
<1> QED  BY <1>4

\* The recursion SumFunctionOnSet is defined by: g has the sums of n over the
\* subsets of S.
Tabulates(g, n, S) ==
  g = [s \in SUBSET S |-> IF s = {} THEN 0 ELSE LET x == CHOOSE x \in s : TRUE IN n[x] + g[s \ {x}]]

\* The sizes of disjoint sets together.
Sizes(f, S) == [s \in SUBSET S |-> Cardinality(Together(f, s))]

\* Together, disjoint sets are as large as one of them and the others together.
LEMMA OneAndOthers ==
  ASSUME NEW S, NEW f, AllApart(f, S), AllFinite(f, S), NEW x \in S, IsFiniteSet(Together(f, S \ {x}))
  PROVE  /\ IsFiniteSet(Together(f, S))
         /\ Cardinality(Together(f, S)) = Cardinality(f[x]) + Cardinality(Together(f, S \ {x}))
<1> DEFINE A == f[x]
           B == Together(f, S \ {x})
<1>1. Together(f, S) = A \cup B
  BY DEF Together
<1>2. A \cap B = {}
  <2>1. SUFFICES ASSUME NEW z, z \in A, z \in B PROVE FALSE
    OBVIOUS
  <2>2. PICK y \in S \ {x} : z \in f[y]
    BY <2>1 DEF Together
  <2> QED  BY <2>1, <2>2 DEF AllApart, Apart2
<1>3. IsFiniteSet(A) /\ IsFiniteSet(B)
  BY DEF AllFinite
<1> HIDE DEF A, B
<1>4. Cardinality(A \cup B) = Cardinality(A) + Cardinality(B) - Cardinality(A \cap B) /\ IsFiniteSet(A \cup B)
  BY <1>3, FS_Union
<1>5. Cardinality(A \cap B) = 0 /\ Cardinality(A) \in Nat /\ Cardinality(B) \in Nat
  BY <1>2, <1>3, FS_CardinalityType, FS_EmptySet
<1>6. IsFiniteSet(A \cup B) /\ Cardinality(A \cup B) = Cardinality(A) + Cardinality(B)
  BY <1>4, <1>5
<1> QED  BY <1>1, <1>6 DEF A, B

\* Finitely many finite sets are finite together.
LEMMA TogetherFinite ==
  ASSUME NEW S, IsFiniteSet(S), NEW f, AllApart(f, S), AllFinite(f, S), NEW T \in SUBSET S
  PROVE  IsFiniteSet(Together(f, T))
<1> DEFINE bad == {s \in SUBSET S : ~IsFiniteSet(Together(f, s))}
<1>1. SUFFICES ASSUME bad # {} PROVE FALSE
  OBVIOUS
<1>2. PICK s \in bad : \A u \in bad : u \subseteq s => u = s
  <2>1. bad \in SUBSET SUBSET S
    OBVIOUS
  <2> HIDE DEF bad
  <2> QED  BY <1>1, <2>1, LeastSet
<1>3. s # {}
  <2>1. Together(f, {}) = {}
    BY DEF Together
  <2> QED  BY <2>1, FS_EmptySet
<1>4. PICK x \in s : TRUE
  BY <1>3
<1>5. s \ {x} \notin bad /\ s \ {x} \in SUBSET S
  BY <1>2, <1>4
<1>6. IsFiniteSet(Together(f, s \ {x})) /\ AllApart(f, s) /\ AllFinite(f, s)
  BY <1>2, <1>5 DEF AllApart, AllFinite
<1> QED  BY <1>2, <1>4, <1>6, OneAndOthers

\* The union of disjoint sets is as large as they are together: the sizes obey
\* the recursion, and no other table does.
LEMMA UnionCount ==
  ASSUME NEW S, IsFiniteSet(S), NEW f, AllApart(f, S), AllFinite(f, S), NEW n, \A x \in S : n[x] = Cardinality(f[x])
  PROVE  IsFiniteSet(Together(f, S)) /\ Cardinality(Together(f, S)) = SumFunctionOnSet(n, S)
<1> DEFINE size == Sizes(f, S)
           g    == CHOOSE g : Tabulates(g, n, S)
           first(s) == CHOOSE x \in s : TRUE
<1>1. \A s \in SUBSET S : size[s] = Cardinality(Together(f, s))
  BY DEF Sizes
<1>2. ASSUME NEW s \in SUBSET S
      PROVE  size[s] = IF s = {} THEN 0 ELSE n[first(s)] + size[s \ {first(s)}]
  <2>1. CASE s = {}
    <3>1. Together(f, s) = {}
      BY <2>1 DEF Together
    <3> QED  BY <1>1, <2>1, <3>1, FS_EmptySet
  <2>2. CASE s # {}
    <3>1. first(s) \in s
      BY <2>2
    <3> DEFINE x == first(s)
    <3> HIDE DEF x
    <3>2. x \in s
      BY <3>1 DEF x
    <3>3. IsFiniteSet(Together(f, s \ {x})) /\ AllApart(f, s) /\ AllFinite(f, s)
      <4>1. s \ {x} \in SUBSET S
        OBVIOUS
      <4> QED  BY <4>1, TogetherFinite DEF AllApart, AllFinite
    <3>4. Cardinality(Together(f, s)) = Cardinality(f[x]) + Cardinality(Together(f, s \ {x}))
      BY <3>2, <3>3, OneAndOthers
    <3>5. size[s] = n[x] + size[s \ {x}]
      BY <1>1, <3>2, <3>4
    <3> QED  BY <2>2, <3>5 DEF x
  <2> QED  BY <2>1, <2>2
<1>3. Tabulates(size, n, S)
  <2>1. size = [s \in SUBSET S |-> size[s]]
    BY DEF Sizes
  <2> HIDE DEF size
  <2> QED  BY <1>2, <2>1 DEF Tabulates
<1>4. Tabulates(g, n, S)
  BY <1>3
<1>5. SumFunctionOnSet(n, S) = g[S]
  BY <1>4 DEF SumFunctionOnSet, FoldFunctionOnSet, MapThenFoldSet, Tabulates
<1> HIDE DEF g, size
<1>6. g[S] = size[S]
  <2> DEFINE bad == {s \in SUBSET S : g[s] # size[s]}
  <2>1. SUFFICES ASSUME bad # {} PROVE FALSE
    OBVIOUS
  <2>2. PICK s \in bad : \A u \in bad : u \subseteq s => u = s
    <3>1. bad \in SUBSET SUBSET S
      OBVIOUS
    <3> HIDE DEF bad
    <3> QED  BY <2>1, <3>1, LeastSet
  <2>3. s \in SUBSET S /\ g[s] # size[s]
    BY <2>2
  <2>4. \A r \in SUBSET S : g[r] = IF r = {} THEN 0 ELSE n[first(r)] + g[r \ {first(r)}]
    BY <1>4 DEF Tabulates
  <2>5. s # {}
    BY <1>2, <2>3, <2>4
  <2>6. first(s) \in s
    BY <2>5
  <2>7. s \ {first(s)} \notin bad
    BY <2>2, <2>6
  <2>8. g[s \ {first(s)}] = size[s \ {first(s)}]
    BY <2>3, <2>7
  <2> QED  BY <1>2, <2>3, <2>4, <2>5, <2>8
<1>7. IsFiniteSet(Together(f, S))
  BY TogetherFinite
<1> QED  BY <1>1, <1>5, <1>6, <1>7

\* A sum of numbers is one: it counts as many things.
LEMMA SumIsNumber ==
  ASSUME NEW n, NEW S, IsFiniteSet(S), \A x \in S : n[x] \in Nat
  PROVE  SumFunctionOnSet(n, S) \in Nat
<1> DEFINE f == [x \in S |-> {x} \X (1 .. n[x])]
<1>1. ASSUME NEW x \in S PROVE IsFiniteSet(f[x]) /\ n[x] = Cardinality(f[x])
  <2>1. IsFiniteSet(1 .. n[x]) /\ Cardinality(1 .. n[x]) = n[x]
    <3>1. 1 \in Int /\ n[x] \in Int /\ n[x] - 1 + 1 = n[x] /\ (1 > n[x] => n[x] = 0)
      OBVIOUS
    <3> QED  BY <3>1, FS_Interval
  <2>2. IsFiniteSet({x}) /\ Cardinality({x}) = 1
    BY FS_Singleton
  <2>3. IsFiniteSet({x} \X (1 .. n[x])) /\ Cardinality({x} \X (1 .. n[x])) = 1 * n[x]
    BY <2>1, <2>2, FS_Product
  <2> QED  BY <2>3
<1>2. AllFinite(f, S)
  BY <1>1 DEF AllFinite
<1>3. AllApart(f, S)
  <2>1. ASSUME NEW x \in S, NEW y \in S, x # y PROVE f[x] \cap f[y] = {}
    BY <2>1
  <2> QED  BY <2>1 DEF AllApart, Apart2
<1> HIDE DEF f
<1>4. IsFiniteSet(Together(f, S)) /\ Cardinality(Together(f, S)) = SumFunctionOnSet(n, S)
  BY <1>1, <1>2, <1>3, UnionCount
<1> QED  BY <1>4, FS_CardinalityType

LeafModels(t) == <<{{t}}, {{}}, {{}, {t}}>>
NodeModels(pairs, l, r) == UNION {Joined(l[p[1]], r[p[2]]) : p \in pairs}

\* The recursion Models is defined by.
ModelsBody(levels, below) ==
  [t \in Leaf \cup Internal |->
     IF t \in Leaf THEN <<{{t}}, {{}}, {{}, {t}}>>
     ELSE [i \in DOMAIN levels[t] |->
             UNION {Joined(below[Left[t]][p[1]], below[Right[t]][p[2]]) : p \in levels[t][i]}]]

ModelsBelow(levels) == CHOOSE below : below = ModelsBody(levels, below)

\* Values as far as a node's pairs read them.
AgreeOn(pairs, l, r, a, b) == \A p \in pairs : l[p[1]] = a[p[1]] /\ r[p[2]] = b[p[2]]

\* A node's models depend on what its pairs name.
LEMMA NodeModelsAgree ==
  ASSUME NEW pairs, NEW l, NEW r, NEW a, NEW b, AgreeOn(pairs, l, r, a, b)
  PROVE  NodeModels(pairs, l, r) = NodeModels(pairs, a, b)
<1>1. \A p \in pairs : Joined(l[p[1]], r[p[2]]) = Joined(a[p[1]], b[p[2]])
  BY DEF AgreeOn
<1>2. ASSUME NEW z PROVE z \in NodeModels(pairs, l, r) <=> z \in NodeModels(pairs, a, b)
  BY <1>1 DEF NodeModels
<1>3. NodeModels(pairs, l, r) \subseteq NodeModels(pairs, a, b) /\ NodeModels(pairs, a, b) \subseteq NodeModels(pairs, l, r)
  BY <1>2
<1> QED  BY <1>3

\* A node's models are sets of variables.
LEMMA NodeModelsIn ==
  ASSUME NEW X, NEW pairs, NEW l, NEW r, \A p \in pairs : l[p[1]] \subseteq SUBSET X /\ r[p[2]] \subseteq SUBSET X
  PROVE  NodeModels(pairs, l, r) \subseteq SUBSET X
<1>1. ASSUME NEW z \in NodeModels(pairs, l, r) PROVE z \in SUBSET X
  <2>1. PICK p \in pairs : z \in Joined(l[p[1]], r[p[2]])
    BY DEF NodeModels
  <2>2. PICK x \in l[p[1]] \X r[p[2]] : z = x[1] \cup x[2]
    BY <2>1 DEF Joined
  <2>3. x[1] \in l[p[1]] /\ x[2] \in r[p[2]]
    OBVIOUS
  <2>4. x[1] \subseteq X /\ x[2] \subseteq X
    BY <2>3
  <2> QED  BY <2>2, <2>4
<1> QED  BY <1>1

LeafValue(t, i) == IF i = 1 THEN {{t}} ELSE IF i = 2 THEN {{}} ELSE {{}, {t}}

\* The recursion has a solution.
LEMMA ModelsExist ==
  ASSUME NEW levels, InRange(levels)
  PROVE  \E below : below = ModelsBody(levels, below)
<1> DEFINE V == [Nat -> SUBSET SUBSET Leaf]
           base == [t \in Leaf |-> [i \in Nat |-> LeafValue(t, i)]]
           node(t, i, l, r) == IF i \in DOMAIN levels[t] THEN NodeModels(levels[t][i], l, r) ELSE {}
           step == [x \in Internal \X V \X V |-> [i \in Nat |-> node(x[1], i, x[2], x[3])]]
<1>1. V # {} /\ base \in [Leaf -> V]
  <2>1. \A t \in Leaf : [i \in Nat |-> LeafValue(t, i)] \in V
    <3>1. \A t \in Leaf : \A i \in Nat : LeafValue(t, i) \in SUBSET SUBSET Leaf
      BY DEF LeafValue
    <3> HIDE DEF LeafValue
    <3> QED  BY <3>1
  <2>2. [i \in Nat |-> {}] \in V
    OBVIOUS
  <2> HIDE DEF V
  <2> QED  BY <2>1, <2>2
<1>2. \A t \in Internal : \A l, r \in V : [i \in Nat |-> node(t, i, l, r)] \in V
  <2>1. ASSUME NEW t \in Internal, NEW l \in V, NEW r \in V, NEW i \in Nat PROVE node(t, i, l, r) \in SUBSET SUBSET Leaf
    <3>1. CASE i \in DOMAIN levels[t]
      <4>1. \A p \in levels[t][i] : p[1] \in Nat /\ p[2] \in Nat
        BY <3>1, PairIs
      <4>2. \A p \in levels[t][i] : l[p[1]] \subseteq SUBSET Leaf /\ r[p[2]] \subseteq SUBSET Leaf
        BY <4>1
      <4>3. NodeModels(levels[t][i], l, r) \subseteq SUBSET Leaf
        BY <4>2, NodeModelsIn
      <4> QED  BY <3>1, <4>3
    <3>2. CASE i \notin DOMAIN levels[t]
      BY <3>2
    <3> QED  BY <3>1, <3>2
  <2> HIDE DEF node
  <2> QED  BY <2>1
<1> HIDE DEF node
<1>3. step \in StepsUp(V)
  <2>1. \A x \in Internal \X V \X V : [i \in Nat |-> node(x[1], i, x[2], x[3])] \in V
    <3> HIDE DEF V
    <3>1. SUFFICES ASSUME NEW x \in Internal \X V \X V PROVE [i \in Nat |-> node(x[1], i, x[2], x[3])] \in V
      OBVIOUS
    <3>2. x[1] \in Internal /\ x[2] \in V /\ x[3] \in V
      OBVIOUS
    <3> QED  BY <1>2, <3>2
  <2> HIDE DEF V
  <2> QED  BY <2>1 DEF StepsUp
<1>4. \A t \in Internal : \A l, r \in V : step[<<t, l, r>>] = [i \in Nat |-> node(t, i, l, r)]
  <2> HIDE DEF V
  <2> QED  OBVIOUS
<1>5. \A t \in Leaf : base[t] = [i \in Nat |-> LeafValue(t, i)]
  OBVIOUS
<1> HIDE DEF V, base, step
<1>6. PICK f \in [Vtree -> V] : /\ \A t \in Leaf : f[t] = base[t]
                                /\ \A t \in Internal : f[t] = step[<<t, f[Left[t]], f[Right[t]]>>]
  BY <1>1, <1>3, UpExists
<1>7. ASSUME NEW t \in Internal, NEW i \in DOMAIN levels[t]
      PROVE  f[t][i] = NodeModels(levels[t][i], f[Left[t]], f[Right[t]])
  <2>1. f[Left[t]] \in V /\ f[Right[t]] \in V
    BY InternalIs
  <2>2. step[<<t, f[Left[t]], f[Right[t]]>>] = [j \in Nat |-> node(t, j, f[Left[t]], f[Right[t]])]
    BY <1>4, <2>1
  <2>3. f[t] = [j \in Nat |-> node(t, j, f[Left[t]], f[Right[t]])]
    BY <1>6, <2>2
  <2>4. i \in Nat
    BY LevelIs
  <2>5. f[t][i] = node(t, i, f[Left[t]], f[Right[t]])
    BY <2>3, <2>4
  <2> QED  BY <2>5 DEF node
<1> DEFINE at(t) == [i \in DOMAIN levels[t] |-> f[t][i]]
           B == [t \in Vtree |-> IF t \in Leaf THEN LeafModels(t) ELSE at(t)]
<1>8. ASSUME NEW c \in Vtree, NEW k \in Slots(levels, c) PROVE B[c][k] = f[c][k]
  <2>1. CASE c \in Leaf
    <3>1. k \in {1, 2, 3}
      BY <2>1, LeafSlots
    <3>2. B[c] = LeafModels(c)
      BY <2>1
    <3>3. LeafModels(c)[k] = LeafValue(c, k)
      BY <3>1 DEF LeafModels, LeafValue
    <3>4. f[c] = [i \in Nat |-> LeafValue(c, i)]
      BY <1>5, <1>6, <2>1
    <3>5. f[c][k] = LeafValue(c, k)
      BY <3>1, <3>4
    <3> QED  BY <3>2, <3>3, <3>5
  <2>2. CASE c \notin Leaf
    <3>1. k \in DOMAIN levels[c]
      BY <2>2 DEF Slots
    <3> QED  BY <2>2, <3>1
  <2> QED  BY <2>1, <2>2
<1>9. ASSUME NEW t \in Internal
      PROVE  B[t] = [i \in DOMAIN levels[t] |-> NodeModels(levels[t][i], B[Left[t]], B[Right[t]])]
  <2>1. t \notin Leaf /\ t \in Vtree /\ Left[t] \in Vtree /\ Right[t] \in Vtree
    BY InternalIs DEF Vtree
  <2>2. B[t] = [i \in DOMAIN levels[t] |-> f[t][i]]
    BY <2>1
  <2> HIDE DEF B
  <2>3. ASSUME NEW i \in DOMAIN levels[t]
        PROVE  f[t][i] = NodeModels(levels[t][i], B[Left[t]], B[Right[t]])
    <3>1. \A p \in levels[t][i] : p[1] \in Slots(levels, Left[t]) /\ p[2] \in Slots(levels, Right[t])
      BY PairIs
    <3>2. AgreeOn(levels[t][i], B[Left[t]], B[Right[t]], f[Left[t]], f[Right[t]])
      BY <1>8, <2>1, <3>1 DEF AgreeOn
    <3> QED  BY <1>7, <3>2, NodeModelsAgree
  <2> QED  BY <2>2, <2>3
<1>10. B = ModelsBody(levels, B)
  <2>1. \A t \in Vtree : B[t] = IF t \in Leaf THEN LeafModels(t)
                                ELSE [i \in DOMAIN levels[t] |-> NodeModels(levels[t][i], B[Left[t]], B[Right[t]])]
    <3>1. \A t \in Leaf : B[t] = LeafModels(t)
      BY DEF Vtree
    <3> HIDE DEF B
    <3> QED  BY <1>9, <3>1 DEF Vtree
  <2>2. B = [t \in Vtree |-> B[t]]
    OBVIOUS
  <2> HIDE DEF B
  <2>3. B = [t \in Vtree |-> IF t \in Leaf THEN LeafModels(t)
                             ELSE [i \in DOMAIN levels[t] |-> NodeModels(levels[t][i], B[Left[t]], B[Right[t]])]]
    BY <2>1, <2>2
  <2> QED  BY <2>3 DEF ModelsBody, LeafModels, NodeModels, Vtree
<1> QED  BY <1>10

\* Models, level by level.
LEMMA ModelsAre ==
  ASSUME NEW levels, InRange(levels)
  PROVE  LET below == ModelsBelow(levels)
         IN  /\ \A t \in Leaf : below[t] = LeafModels(t)
             /\ \A t \in Internal : \A i \in DOMAIN levels[t] :
                  below[t][i] = NodeModels(levels[t][i], below[Left[t]], below[Right[t]])
             /\ \A out : Models(levels, out) = IF out = Zero THEN {} ELSE below[Root][out]
<1> DEFINE below == ModelsBelow(levels)
<1>1. below = ModelsBody(levels, below)
  <2> HIDE DEF ModelsBody
  <2> QED  BY ModelsExist DEF ModelsBelow
<1>2. \A out : Models(levels, out) = IF out = Zero THEN {} ELSE below[Root][out]
  BY DEF Models, ModelsBelow, ModelsBody
<1> HIDE DEF below
<1>3. \A t \in Leaf : below[t] = LeafModels(t)
  BY <1>1 DEF ModelsBody, LeafModels
<1>4. ASSUME NEW t \in Internal, NEW i \in DOMAIN levels[t]
      PROVE  below[t][i] = NodeModels(levels[t][i], below[Left[t]], below[Right[t]])
  <2>1. t \notin Leaf
    BY InternalIs
  <2>2. below[t] = [j \in DOMAIN levels[t] |-> NodeModels(levels[t][j], below[Left[t]], below[Right[t]])]
    BY <1>1, <2>1 DEF ModelsBody, NodeModels
  <2> QED  BY <2>2
<1> QED  BY <1>2, <1>3, <1>4 DEF below

\* A slot's models are over the variables below its vnode.
LEMMA ModelsWithin ==
  ASSUME NEW levels, InRange(levels), NEW t \in Vtree, NEW i \in Slots(levels, t)
  PROVE  ModelsBelow(levels)[t][i] \subseteq SUBSET Scope[t]
<1> DEFINE below == ModelsBelow(levels)
           P == {u \in Vtree : \A k \in Slots(levels, u) : below[u][k] \subseteq SUBSET Scope[u]}
<1>1. /\ \A u \in Leaf : below[u] = LeafModels(u)
      /\ \A u \in Internal : \A k \in DOMAIN levels[u] :
           below[u][k] = NodeModels(levels[u][k], below[Left[u]], below[Right[u]])
  BY ModelsAre
<1> HIDE DEF below
<1>2. Leaf \subseteq P
  <2>1. ASSUME NEW u \in Leaf, NEW k \in Slots(levels, u) PROVE below[u][k] \subseteq SUBSET Scope[u]
    <3>1. k \in {1, 2, 3} /\ Scope[u] = {u}
      BY LeafSlots, ScopeIs DEF ScopesOf
    <3>2. LeafModels(u)[k] \subseteq SUBSET {u}
      BY <3>1 DEF LeafModels
    <3> QED  BY <1>1, <3>1, <3>2
  <2> QED  BY <2>1 DEF Vtree
<1>3. \A u \in Internal : Left[u] \in P /\ Right[u] \in P => u \in P
  <2>1. SUFFICES ASSUME NEW u \in Internal, Left[u] \in P, Right[u] \in P, NEW k \in Slots(levels, u)
                 PROVE  below[u][k] \subseteq SUBSET Scope[u]
    BY DEF Vtree
  <2>2. k \in DOMAIN levels[u] /\ Scope[u] = Scope[Left[u]] \cup Scope[Right[u]]
    BY InternalIs, ScopeIs DEF ScopesOf, Slots
  <2>3. \A p \in levels[u][k] : /\ below[Left[u]][p[1]] \subseteq SUBSET Scope[u]
                                /\ below[Right[u]][p[2]] \subseteq SUBSET Scope[u]
    <3>1. ASSUME NEW p \in levels[u][k]
          PROVE  below[Left[u]][p[1]] \subseteq SUBSET Scope[u] /\ below[Right[u]][p[2]] \subseteq SUBSET Scope[u]
      <4>1. p[1] \in Slots(levels, Left[u]) /\ p[2] \in Slots(levels, Right[u])
        BY <2>2, PairIs
      <4>2. below[Left[u]][p[1]] \subseteq SUBSET Scope[Left[u]] /\ below[Right[u]][p[2]] \subseteq SUBSET Scope[Right[u]]
        BY <2>1, <4>1
      <4> QED  BY <2>2, <4>2
    <3> QED  BY <3>1
  <2>4. NodeModels(levels[u][k], below[Left[u]], below[Right[u]]) \subseteq SUBSET Scope[u]
    <3> DEFINE X == Scope[u]
    <3>1. \A p \in levels[u][k] : below[Left[u]][p[1]] \subseteq SUBSET X /\ below[Right[u]][p[2]] \subseteq SUBSET X
      BY <2>3
    <3> HIDE DEF X
    <3>2. NodeModels(levels[u][k], below[Left[u]], below[Right[u]]) \subseteq SUBSET X
      BY <3>1, NodeModelsIn
    <3> QED  BY <3>2 DEF X
  <2> QED  BY <1>1, <2>2, <2>4
<1>4. t \in P
  <2> HIDE DEF P
  <2> QED  BY <1>2, <1>3, UpInduction
<1> QED  BY <1>4 DEF below

\* What one pair contributes to its node.
PairModels(levels, t, p) ==
  Joined(ModelsBelow(levels)[Left[t]][p[1]], ModelsBelow(levels)[Right[t]][p[2]])

\* Different slots of a level have no model in common, but for a leaf's One.
Distinct(levels, c) ==
  \A i, j \in Slots(levels, c) : i # j /\ (c \in Leaf => i # 3 /\ j # 3) =>
    Apart2(ModelsBelow(levels)[c][i], ModelsBelow(levels)[c][j])

\* A leaf's two literals have no model in common.
LEMMA LeafDistinct ==
  ASSUME NEW levels, InRange(levels), NEW c \in Leaf
  PROVE  Distinct(levels, c)
<1> DEFINE below == ModelsBelow(levels)
<1>1. below[c] = LeafModels(c)
  BY ModelsAre
<1> HIDE DEF below
<1>2. SUFFICES ASSUME NEW i \in {1, 2, 3}, NEW j \in {1, 2, 3}, i # j, i # 3, j # 3
               PROVE  Apart2(below[c][i], below[c][j])
  BY LeafSlots DEF Distinct, below
<1>3. LeafModels(c)[1] = {{c}} /\ LeafModels(c)[2] = {{}}
  BY DEF LeafModels
<1>4. Apart2({{c}}, {{}}) /\ Apart2({{}}, {{c}})
  BY DEF Apart2
<1>5. (i = 1 /\ j = 2) \/ (i = 2 /\ j = 1)
  BY <1>2
<1> QED  BY <1>1, <1>3, <1>4, <1>5

\* Different pairs of one form have no model in common.
LEMMA PairsApart ==
  ASSUME NEW levels, InRange(levels), NEW t \in Internal, Distinct(levels, Left[t]), Distinct(levels, Right[t]),
         NEW i \in DOMAIN levels[t], NEW j \in DOMAIN levels[t], OneForm(t, levels[t][i], levels[t][j]),
         NEW p \in levels[t][i], NEW q \in levels[t][j], p # q
  PROVE  Apart2(PairModels(levels, t, p), PairModels(levels, t, q))
<1> DEFINE l == Left[t]
           r == Right[t]
           X == Scope[l]
           Y == Scope[r]
           a == ModelsBelow(levels)[l][p[1]]
           b == ModelsBelow(levels)[r][p[2]]
           c == ModelsBelow(levels)[l][q[1]]
           d == ModelsBelow(levels)[r][q[2]]
<1>1. /\ p = <<p[1], p[2]>> /\ q = <<q[1], q[2]>>
      /\ p[1] \in Slots(levels, l) /\ q[1] \in Slots(levels, l)
      /\ p[2] \in Slots(levels, r) /\ q[2] \in Slots(levels, r)
  BY PairIs
<1>2. /\ l \in Leaf => (p[1] = 3 <=> q[1] = 3)
      /\ r \in Leaf => (p[2] = 3 <=> q[2] = 3)
  BY DEF OneForm
<1>3. a \subseteq SUBSET X /\ c \subseteq SUBSET X /\ b \subseteq SUBSET Y /\ d \subseteq SUBSET Y
  BY <1>1, InternalIs, ModelsWithin
<1>4. Apart2(X, Y)
  BY ScopesApart DEF Apart2
<1>5. Apart2(a, c) \/ Apart2(b, d)
  <2>1. p[1] # q[1] \/ p[2] # q[2]
    BY <1>1
  <2>2. CASE p[1] # q[1]
    <3>1. l \in Leaf => p[1] # 3 /\ q[1] # 3
      BY <1>2, <2>2
    <3>2. Apart2(a, c)
      BY <1>1, <2>2, <3>1 DEF Distinct
    <3> QED  BY <3>2
  <2>3. CASE p[2] # q[2]
    <3>1. r \in Leaf => p[2] # 3 /\ q[2] # 3
      BY <1>2, <2>3
    <3>2. Apart2(b, d)
      BY <1>1, <2>3, <3>1 DEF Distinct
    <3> QED  BY <3>2
  <2> QED  BY <2>1, <2>2, <2>3
<1>6. PairModels(levels, t, p) = Joined(a, b) /\ PairModels(levels, t, q) = Joined(c, d)
  BY DEF PairModels
<1> HIDE DEF a, b, c, d, X, Y
<1>7. Apart2(Joined(a, b), Joined(c, d))
  BY <1>3, <1>4, <1>5, JoinedApart
<1> QED  BY <1>6, <1>7

\* A node's models are those of its pairs.
LEMMA NodeModelsAre ==
  ASSUME NEW levels, InRange(levels), NEW t \in Internal, NEW i \in DOMAIN levels[t]
  PROVE  ModelsBelow(levels)[t][i] = UNION {PairModels(levels, t, p) : p \in levels[t][i]}
BY ModelsAre DEF NodeModels, PairModels

\* The nodes of a level below the root have no model in common.
LEMMA NodesApart ==
  ASSUME NEW levels, InRange(levels), Deterministic(levels), NEW t \in Vtree, t # Root
  PROVE  Distinct(levels, t)
<1> DEFINE P == {u \in Vtree : u # Root => Distinct(levels, u)}
<1>1. Leaf \subseteq P
  BY LeafDistinct DEF Vtree
<1>2. \A u \in Internal : Left[u] \in P /\ Right[u] \in P => u \in P
  <2>1. SUFFICES ASSUME NEW u \in Internal, Left[u] \in P, Right[u] \in P, u # Root PROVE Distinct(levels, u)
    BY DEF Vtree
  <2>2. Distinct(levels, Left[u]) /\ Distinct(levels, Right[u])
    BY <2>1, InternalIs
  <2> HIDE DEF P
  <2>3. SUFFICES ASSUME NEW i \in DOMAIN levels[u], NEW j \in DOMAIN levels[u], i # j
                 PROVE  Apart2(ModelsBelow(levels)[u][i], ModelsBelow(levels)[u][j])
    BY InternalIs DEF Distinct, Slots
  <2>4. levels[u][i] \cap levels[u][j] = {} /\ OneForm(u, levels[u][i], levels[u][j])
    BY <2>1, <2>3, DeterministicIs
  <2>5. SUFFICES ASSUME NEW z, z \in ModelsBelow(levels)[u][i], z \in ModelsBelow(levels)[u][j] PROVE FALSE
    BY DEF Apart2
  <2>6. PICK p \in levels[u][i] : z \in PairModels(levels, u, p)
    BY <2>5, NodeModelsAre
  <2>7. PICK q \in levels[u][j] : z \in PairModels(levels, u, q)
    BY <2>5, NodeModelsAre
  <2>8. p # q
    BY <2>4
  <2>9. Apart2(PairModels(levels, u, p), PairModels(levels, u, q))
    BY <2>2, <2>4, <2>8, PairsApart
  <2> QED  BY <2>6, <2>7, <2>9 DEF Apart2
<1>3. t \in P
  <2> HIDE DEF P
  <2> QED  BY <1>1, <1>2, UpInduction
<1> QED  BY <1>3

Products2(pairs, l, r) == [p \in pairs |-> l[p[1]] * r[p[2]]]
NodeCount(pairs, l, r) == SumFunctionOnSet(Products2(pairs, l, r), pairs)

\* The recursion Count is defined by.
CountBody(levels, below) ==
  [t \in Leaf \cup Internal |->
     IF t \in Leaf THEN <<1, 1, 2>>
     ELSE [i \in DOMAIN levels[t] |->
             SumOver(levels[t][i], LAMBDA p : below[Left[t]][p[1]] * below[Right[t]][p[2]])]]

CountBelow(levels) == CHOOSE below : below = CountBody(levels, below)

\* A node's count depends on what its pairs name.
LEMMA NodeCountAgree ==
  ASSUME NEW pairs, NEW l, NEW r, NEW a, NEW b, AgreeOn(pairs, l, r, a, b)
  PROVE  NodeCount(pairs, l, r) = NodeCount(pairs, a, b)
<1>1. \A p \in pairs : l[p[1]] * r[p[2]] = a[p[1]] * b[p[2]]
  BY DEF AgreeOn
<1>2. Products2(pairs, l, r) = Products2(pairs, a, b)
  BY <1>1 DEF Products2
<1> QED  BY <1>2 DEF NodeCount

\* A count is a number.
LEMMA NodeCountIn ==
  ASSUME NEW pairs, IsFiniteSet(pairs), NEW l, NEW r, \A p \in pairs : l[p[1]] \in Nat /\ r[p[2]] \in Nat
  PROVE  NodeCount(pairs, l, r) \in Nat
<1>1. \A p \in pairs : Products2(pairs, l, r)[p] \in Nat
  <2>1. \A x, y \in Nat : x * y \in Nat
    OBVIOUS
  <2>2. \A p \in pairs : Products2(pairs, l, r)[p] = l[p[1]] * r[p[2]]
    BY DEF Products2
  <2> QED  BY <2>1, <2>2
<1> QED  BY <1>1, SumIsNumber DEF NodeCount

\* A node has finitely many pairs.
LEMMA PairsFinite ==
  ASSUME NEW levels, InRange(levels), NEW t \in Internal, NEW i \in DOMAIN levels[t]
  PROVE  IsFiniteSet(levels[t][i])
<1>1. ASSUME NEW c \in Vtree PROVE IsFiniteSet(Slots(levels, c))
  <2>1. CASE c \in Leaf
    <3> DEFINE m == 3
    <3>1. m \in Nat /\ 1 .. m = {1, 2, 3}
      OBVIOUS
    <3> HIDE DEF m
    <3>2. IsFiniteSet(1 .. m)
      BY <3>1, UpToFinite
    <3> QED  BY <2>1, <3>1, <3>2, LeafSlots
  <2>2. CASE c \in Internal
    <3> DEFINE m == Len(levels[c])
    <3>1. m \in Nat /\ Slots(levels, c) = 1 .. m
      BY <2>2, LevelIs
    <3> HIDE DEF m
    <3>2. IsFiniteSet(1 .. m)
      BY <3>1, UpToFinite
    <3> QED  BY <3>1, <3>2
  <2> QED  BY <2>1, <2>2 DEF Vtree
<1> DEFINE A == Slots(levels, Left[t])
           B == Slots(levels, Right[t])
<1>2. IsFiniteSet(A) /\ IsFiniteSet(B)
  BY <1>1, InternalIs
<1>3. levels[t][i] \subseteq A \X B
  <2>1. \A p \in levels[t][i] : p = <<p[1], p[2]>> /\ p[1] \in A /\ p[2] \in B
    BY PairIs
  <2> HIDE DEF A, B
  <2> QED  BY <2>1
<1> HIDE DEF A, B
<1>4. IsFiniteSet(A \X B)
  BY <1>2, FS_Product
<1> QED  BY <1>3, <1>4, FS_Subset

LeafCount(i) == IF i = 3 THEN 2 ELSE 1

\* The recursion has a solution.
LEMMA CountExists ==
  ASSUME NEW levels, InRange(levels)
  PROVE  \E below : below = CountBody(levels, below)
<1> DEFINE V == [Nat -> Nat]
           base == [t \in Leaf |-> [i \in Nat |-> LeafCount(i)]]
           node(t, i, l, r) == IF i \in DOMAIN levels[t] THEN NodeCount(levels[t][i], l, r) ELSE 0
           step == [x \in Internal \X V \X V |-> [i \in Nat |-> node(x[1], i, x[2], x[3])]]
<1>1. V # {} /\ base \in [Leaf -> V]
  <2>1. [i \in Nat |-> LeafCount(i)] \in V
    <3>1. \A i \in Nat : LeafCount(i) \in Nat
      BY DEF LeafCount
    <3> HIDE DEF LeafCount
    <3> QED  BY <3>1
  <2>2. [i \in Nat |-> 0] \in V
    OBVIOUS
  <2> HIDE DEF V
  <2> QED  BY <2>1, <2>2
<1>2. \A t \in Internal : \A l, r \in V : [i \in Nat |-> node(t, i, l, r)] \in V
  <2>1. ASSUME NEW t \in Internal, NEW l \in V, NEW r \in V, NEW i \in Nat PROVE node(t, i, l, r) \in Nat
    <3>1. CASE i \in DOMAIN levels[t]
      <4>1. \A p \in levels[t][i] : p[1] \in Nat /\ p[2] \in Nat
        BY <3>1, PairIs
      <4>2. \A p \in levels[t][i] : l[p[1]] \in Nat /\ r[p[2]] \in Nat
        BY <4>1
      <4>3. NodeCount(levels[t][i], l, r) \in Nat
        BY <3>1, <4>2, NodeCountIn, PairsFinite
      <4> QED  BY <3>1, <4>3
    <3>2. CASE i \notin DOMAIN levels[t]
      BY <3>2
    <3> QED  BY <3>1, <3>2
  <2> HIDE DEF node
  <2> QED  BY <2>1
<1> HIDE DEF node
<1>3. step \in StepsUp(V)
  <2>1. \A x \in Internal \X V \X V : [i \in Nat |-> node(x[1], i, x[2], x[3])] \in V
    <3> HIDE DEF V
    <3>1. SUFFICES ASSUME NEW x \in Internal \X V \X V PROVE [i \in Nat |-> node(x[1], i, x[2], x[3])] \in V
      OBVIOUS
    <3>2. x[1] \in Internal /\ x[2] \in V /\ x[3] \in V
      OBVIOUS
    <3> QED  BY <1>2, <3>2
  <2> HIDE DEF V
  <2> QED  BY <2>1 DEF StepsUp
<1>4. \A t \in Internal : \A l, r \in V : step[<<t, l, r>>] = [i \in Nat |-> node(t, i, l, r)]
  <2> HIDE DEF V
  <2> QED  OBVIOUS
<1>5. \A t \in Leaf : base[t] = [i \in Nat |-> LeafCount(i)]
  OBVIOUS
<1> HIDE DEF V, base, step
<1>6. PICK f \in [Vtree -> V] : /\ \A t \in Leaf : f[t] = base[t]
                                /\ \A t \in Internal : f[t] = step[<<t, f[Left[t]], f[Right[t]]>>]
  BY <1>1, <1>3, UpExists
<1>7. ASSUME NEW t \in Internal, NEW i \in DOMAIN levels[t]
      PROVE  f[t][i] = NodeCount(levels[t][i], f[Left[t]], f[Right[t]])
  <2>1. f[Left[t]] \in V /\ f[Right[t]] \in V
    BY InternalIs
  <2>2. step[<<t, f[Left[t]], f[Right[t]]>>] = [j \in Nat |-> node(t, j, f[Left[t]], f[Right[t]])]
    BY <1>4, <2>1
  <2>3. f[t] = [j \in Nat |-> node(t, j, f[Left[t]], f[Right[t]])]
    BY <1>6, <2>2
  <2>4. i \in Nat
    BY LevelIs
  <2>5. f[t][i] = node(t, i, f[Left[t]], f[Right[t]])
    BY <2>3, <2>4
  <2> QED  BY <2>5 DEF node
<1> DEFINE at(t) == [i \in DOMAIN levels[t] |-> f[t][i]]
           B == [t \in Vtree |-> IF t \in Leaf THEN <<1, 1, 2>> ELSE at(t)]
<1>8. ASSUME NEW c \in Vtree, NEW k \in Slots(levels, c) PROVE B[c][k] = f[c][k]
  <2>1. CASE c \in Leaf
    <3>1. k \in {1, 2, 3}
      BY <2>1, LeafSlots
    <3>2. B[c] = <<1, 1, 2>>
      BY <2>1
    <3>3. <<1, 1, 2>>[k] = LeafCount(k)
      BY <3>1 DEF LeafCount
    <3>4. f[c] = [i \in Nat |-> LeafCount(i)]
      BY <1>5, <1>6, <2>1
    <3>5. f[c][k] = LeafCount(k)
      BY <3>1, <3>4
    <3> QED  BY <3>2, <3>3, <3>5
  <2>2. CASE c \notin Leaf
    <3>1. k \in DOMAIN levels[c]
      BY <2>2 DEF Slots
    <3> QED  BY <2>2, <3>1
  <2> QED  BY <2>1, <2>2
<1>9. ASSUME NEW t \in Internal
      PROVE  B[t] = [i \in DOMAIN levels[t] |-> NodeCount(levels[t][i], B[Left[t]], B[Right[t]])]
  <2>1. t \notin Leaf /\ t \in Vtree /\ Left[t] \in Vtree /\ Right[t] \in Vtree
    BY InternalIs DEF Vtree
  <2>2. B[t] = [i \in DOMAIN levels[t] |-> f[t][i]]
    BY <2>1
  <2> HIDE DEF B
  <2>3. ASSUME NEW i \in DOMAIN levels[t]
        PROVE  f[t][i] = NodeCount(levels[t][i], B[Left[t]], B[Right[t]])
    <3>1. \A p \in levels[t][i] : p[1] \in Slots(levels, Left[t]) /\ p[2] \in Slots(levels, Right[t])
      BY PairIs
    <3>2. AgreeOn(levels[t][i], B[Left[t]], B[Right[t]], f[Left[t]], f[Right[t]])
      BY <1>8, <2>1, <3>1 DEF AgreeOn
    <3> QED  BY <1>7, <3>2, NodeCountAgree
  <2> QED  BY <2>2, <2>3
<1>10. B = CountBody(levels, B)
  <2>1. \A t \in Vtree : B[t] = IF t \in Leaf THEN <<1, 1, 2>>
                                ELSE [i \in DOMAIN levels[t] |-> NodeCount(levels[t][i], B[Left[t]], B[Right[t]])]
    <3>1. \A t \in Leaf : B[t] = <<1, 1, 2>>
      BY DEF Vtree
    <3> HIDE DEF B
    <3> QED  BY <1>9, <3>1 DEF Vtree
  <2>2. B = [t \in Vtree |-> B[t]]
    OBVIOUS
  <2> HIDE DEF B
  <2>3. B = [t \in Vtree |-> IF t \in Leaf THEN <<1, 1, 2>>
                             ELSE [i \in DOMAIN levels[t] |-> NodeCount(levels[t][i], B[Left[t]], B[Right[t]])]]
    BY <2>1, <2>2
  <2> QED  BY <2>3 DEF CountBody, SumOver, NodeCount, Products2, Vtree
<1> QED  BY <1>10

\* Counts, level by level.
LEMMA CountsAre ==
  ASSUME NEW d, InRange(d.levels)
  PROVE  LET below == CountBelow(d.levels)
         IN  /\ \A t \in Leaf : below[t] = <<1, 1, 2>>
             /\ \A t \in Internal : \A i \in DOMAIN d.levels[t] :
                  below[t][i] = NodeCount(d.levels[t][i], below[Left[t]], below[Right[t]])
             /\ Count(d) = IF d.out = Zero THEN 0 ELSE below[Root][d.out]
<1> DEFINE below == CountBelow(d.levels)
<1>1. below = CountBody(d.levels, below)
  <2> HIDE DEF CountBody
  <2> QED  BY CountExists DEF CountBelow
<1>2. Count(d) = IF d.out = Zero THEN 0 ELSE below[Root][d.out]
  BY DEF Count, CountBelow, CountBody
<1> HIDE DEF below
<1>3. \A t \in Leaf : below[t] = <<1, 1, 2>>
  BY <1>1 DEF CountBody
<1>4. ASSUME NEW t \in Internal, NEW i \in DOMAIN d.levels[t]
      PROVE  below[t][i] = NodeCount(d.levels[t][i], below[Left[t]], below[Right[t]])
  <2>1. t \notin Leaf
    BY InternalIs
  <2>2. below[t] = [j \in DOMAIN d.levels[t] |-> NodeCount(d.levels[t][j], below[Left[t]], below[Right[t]])]
    BY <1>1, <2>1 DEF CountBody, SumOver, NodeCount, Products2
  <2> QED  BY <2>2
<1> QED  BY <1>2, <1>3, <1>4 DEF below

\* A slot's count is how many models it has.
Counted(levels, c) ==
  \A i \in Slots(levels, c) : /\ IsFiniteSet(ModelsBelow(levels)[c][i])
                              /\ CountBelow(levels)[c][i] = Cardinality(ModelsBelow(levels)[c][i])

\* A leaf's literals have one model, One has two.
LEMMA LeafCounted ==
  ASSUME NEW d, InRange(d.levels), NEW c \in Leaf
  PROVE  Counted(d.levels, c)
<1> DEFINE models == ModelsBelow(d.levels)
           counts == CountBelow(d.levels)
<1>1. models[c] = LeafModels(c) /\ counts[c] = <<1, 1, 2>>
  BY ModelsAre, CountsAre
<1> HIDE DEF models, counts
<1>2. /\ LeafModels(c)[1] = {{c}} /\ LeafModels(c)[2] = {{}} /\ LeafModels(c)[3] = {{}, {c}}
  BY DEF LeafModels
<1>3. \A x : IsFiniteSet({x}) /\ Cardinality({x}) = 1
  BY FS_Singleton
<1>4. IsFiniteSet({{}, {c}}) /\ Cardinality({{}, {c}}) = 2
  <2> DEFINE e == {}
             s == {c}
  <2>1. e # s
    OBVIOUS
  <2> HIDE DEF e, s
  <2>2. IsFiniteSet({e}) /\ Cardinality({e}) = 1
    BY <1>3
  <2>3. s \notin {e} /\ {e} \cup {s} = {e, s}
    BY <2>1
  <2>4. IsFiniteSet({e} \cup {s}) /\ Cardinality({e} \cup {s}) = 2
    <3> DEFINE one == {e}
    <3>1. IsFiniteSet(one) /\ Cardinality(one) = 1 /\ s \notin one
      BY <2>2, <2>3
    <3> HIDE DEF one
    <3>2. IsFiniteSet(one \cup {s}) /\ Cardinality(one \cup {s}) = Cardinality(one) + 1
      BY <3>1, FS_AddElement
    <3> QED  BY <3>1, <3>2 DEF one
  <2>5. IsFiniteSet({e, s}) /\ Cardinality({e, s}) = 2
    BY <2>3, <2>4
  <2> QED  BY <2>5 DEF e, s
<1>5. ASSUME NEW i \in {1, 2, 3} PROVE IsFiniteSet(models[c][i]) /\ counts[c][i] = Cardinality(models[c][i])
  <2> DEFINE one == {c}
             no == {}
             f == models[c]
             g == counts[c]
  <2>0. /\ IsFiniteSet({one}) /\ Cardinality({one}) = 1
        /\ IsFiniteSet({no}) /\ Cardinality({no}) = 1
        /\ IsFiniteSet({no, one}) /\ Cardinality({no, one}) = 2
    BY <1>3, <1>4
  <2>1. f[1] = {one} /\ f[2] = {no} /\ f[3] = {no, one}
    BY <1>1, <1>2
  <2>2. g[1] = 1 /\ g[2] = 1 /\ g[3] = 2
    BY <1>1
  <2> HIDE DEF one, no, f, g
  <2>3. CASE i = 1
    BY <2>0, <2>1, <2>2, <2>3 DEF f, g
  <2>4. CASE i = 2
    BY <2>0, <2>1, <2>2, <2>4 DEF f, g
  <2>5. CASE i = 3
    BY <2>0, <2>1, <2>2, <2>5 DEF f, g
  <2> QED  BY <2>3, <2>4, <2>5
<1> QED  BY <1>5, LeafSlots DEF Counted, models, counts

\* A pair's models are as many as the product of its slots' counts.
LEMMA PairCounted ==
  ASSUME NEW levels, InRange(levels), NEW t \in Internal, Counted(levels, Left[t]), Counted(levels, Right[t]),
         NEW i \in DOMAIN levels[t], NEW p \in levels[t][i]
  PROVE  /\ IsFiniteSet(PairModels(levels, t, p))
         /\ CountBelow(levels)[Left[t]][p[1]] * CountBelow(levels)[Right[t]][p[2]]
              = Cardinality(PairModels(levels, t, p))
<1> DEFINE l == Left[t]
           r == Right[t]
           X == Scope[l]
           Y == Scope[r]
           a == ModelsBelow(levels)[l][p[1]]
           b == ModelsBelow(levels)[r][p[2]]
<1>1. p[1] \in Slots(levels, l) /\ p[2] \in Slots(levels, r)
  BY PairIs
<1>2. a \subseteq SUBSET X /\ b \subseteq SUBSET Y
  BY <1>1, InternalIs, ModelsWithin
<1>3. Apart2(X, Y)
  BY ScopesApart DEF Apart2
<1>4. /\ IsFiniteSet(a) /\ CountBelow(levels)[l][p[1]] = Cardinality(a)
      /\ IsFiniteSet(b) /\ CountBelow(levels)[r][p[2]] = Cardinality(b)
  BY <1>1 DEF Counted
<1>5. PairModels(levels, t, p) = Joined(a, b)
  BY DEF PairModels
<1> HIDE DEF a, b, X, Y
<1>6. IsFiniteSet(Joined(a, b)) /\ Cardinality(Joined(a, b)) = Cardinality(a) * Cardinality(b)
  BY <1>2, <1>3, <1>4, JoinedCount
<1> QED  BY <1>4, <1>5, <1>6

\* Every slot's count is how many models it has.
LEMMA AllCounted ==
  ASSUME NEW d, InRange(d.levels), Deterministic(d.levels), NEW t \in Vtree
  PROVE  Counted(d.levels, t)
<1> DEFINE levels == d.levels
           P == {u \in Vtree : Counted(levels, u)}
<1>1. Leaf \subseteq P
  BY LeafCounted DEF Vtree
<1>2. \A u \in Internal : Left[u] \in P /\ Right[u] \in P => u \in P
  <2>1. SUFFICES ASSUME NEW u \in Internal, Counted(levels, Left[u]), Counted(levels, Right[u]), NEW i \in DOMAIN levels[u]
                 PROVE  /\ IsFiniteSet(ModelsBelow(levels)[u][i])
                        /\ CountBelow(levels)[u][i] = Cardinality(ModelsBelow(levels)[u][i])
    BY InternalIs DEF Vtree, Counted, Slots
  <2> DEFINE S == levels[u][i]
             n == Products2(S, CountBelow(levels)[Left[u]], CountBelow(levels)[Right[u]])
             f == [p \in S |-> PairModels(levels, u, p)]
  <2>2. Distinct(levels, Left[u]) /\ Distinct(levels, Right[u]) /\ OneForm(u, S, S)
    <3>1. Distinct(levels, Left[u]) /\ Distinct(levels, Right[u])
      BY InternalIs, NodesApart
    <3>2. OneForm(u, S, S)
      BY DeterministicIs
    <3> QED  BY <3>1, <3>2
  <2>3. IsFiniteSet(S)
    BY PairsFinite
  <2>4. ASSUME NEW p \in S
        PROVE  f[p] = PairModels(levels, u, p) /\ IsFiniteSet(f[p]) /\ n[p] = Cardinality(f[p])
    <3>1. f[p] = PairModels(levels, u, p)
      OBVIOUS
    <3>2. n[p] = CountBelow(levels)[Left[u]][p[1]] * CountBelow(levels)[Right[u]][p[2]]
      BY DEF Products2
    <3>3. /\ IsFiniteSet(PairModels(levels, u, p))
          /\ CountBelow(levels)[Left[u]][p[1]] * CountBelow(levels)[Right[u]][p[2]] = Cardinality(PairModels(levels, u, p))
      <4> HIDE DEF levels
      <4>1. InRange(levels)
        BY DEF levels
      <4> QED  BY <2>1, <4>1, PairCounted
    <3> HIDE DEF f, n
    <3> QED  BY <3>1, <3>2, <3>3
  <2>5. ASSUME NEW p \in S, NEW q \in S, p # q PROVE Apart2(f[p], f[q])
    <3>1. Apart2(PairModels(levels, u, p), PairModels(levels, u, q))
      <4> HIDE DEF levels
      <4>1. InRange(levels)
        BY DEF levels
      <4> QED  BY <2>1, <2>2, <2>5, <4>1, PairsApart
    <3> HIDE DEF f
    <3> QED  BY <2>4, <3>1
  <2>6. Together(f, S) = ModelsBelow(levels)[u][i]
    <3>1. ModelsBelow(levels)[u][i] = UNION {PairModels(levels, u, p) : p \in S}
      BY NodeModelsAre
    <3> HIDE DEF f
    <3>2. \A z : z \in Together(f, S) <=> \E p \in S : z \in f[p]
      BY DEF Together
    <3>3. \A z : z \in ModelsBelow(levels)[u][i] <=> \E p \in S : z \in PairModels(levels, u, p)
      BY <3>1
    <3>4. \A z : z \in Together(f, S) <=> z \in ModelsBelow(levels)[u][i]
      BY <2>4, <3>2, <3>3
    <3>5. Together(f, S) \subseteq ModelsBelow(levels)[u][i] /\ ModelsBelow(levels)[u][i] \subseteq Together(f, S)
      BY <3>4
    <3> QED  BY <3>5
  <2>7. CountBelow(levels)[u][i] = SumFunctionOnSet(n, S)
    BY CountsAre DEF NodeCount
  <2> HIDE DEF S, n, f
  <2>8. AllApart(f, S) /\ AllFinite(f, S) /\ \A p \in S : n[p] = Cardinality(f[p])
    BY <2>4, <2>5 DEF AllApart, AllFinite
  <2>9. IsFiniteSet(Together(f, S)) /\ Cardinality(Together(f, S)) = SumFunctionOnSet(n, S)
    BY <2>3, <2>8, UnionCount
  <2> QED  BY <2>6, <2>7, <2>9
<1>3. t \in P
  <2> HIDE DEF P
  <2> QED  BY <1>1, <1>2, UpInduction
<1> QED  BY <1>3

\* A diagram's count is how many models it has.
LEMMA CountExact ==
  ASSUME NEW d, Sound(d)
  PROVE  Count(d) = Cardinality(Fn(d))
<1>1. InRange(d.levels) /\ Deterministic(d.levels) /\ d.out \in {Zero} \cup DOMAIN d.levels[Root]
  BY SoundIs
<1>2. Fn(d) = IF d.out = Zero THEN {} ELSE ModelsBelow(d.levels)[Root][d.out]
  BY <1>1, ModelsAre DEF Fn
<1>3. Count(d) = IF d.out = Zero THEN 0 ELSE CountBelow(d.levels)[Root][d.out]
  BY <1>1, CountsAre
<1>4. CASE d.out = Zero
  BY <1>2, <1>3, <1>4, FS_EmptySet
<1>5. CASE d.out # Zero
  <2>1. d.out \in Slots(d.levels, Root) /\ Root \in Vtree
    BY <1>1, <1>5, RootIs, InternalIs DEF Slots, Vtree
  <2>2. Counted(d.levels, Root)
    BY <1>1, <2>1, AllCounted
  <2> QED  BY <1>2, <1>3, <1>5, <2>1, <2>2 DEF Counted
<1> QED  BY <1>4, <1>5

(***************************************************************************)
(* A count is the number of models, of every diagram a query may be asked  *)
(* of: the sums of products the counting walk takes (query/count) look at  *)
(* no model twice, after any sequence of operations and refusals, on any   *)
(* vtree.                                                                  *)
(***************************************************************************)
THEOREM CountsExact == Spec => []CountIsExact
<1>1. IInv => CountIsExact
  BY CountExact DEF IInv, CountIsExact, Settled
<1> QED  BY <1>1, Invariance, PTL
===============================================================================
