------------------------- MODULE VtreeRotation_proofs -------------------------
(* The deferred order repair is sound for every tree and every trial.       *)
EXTENDS VtreeRotation, WellFoundedInduction, SequenceTheorems, TLAPS

\* Links and order that agree, and a sorted internal view.
Valid(s, t) == /\ s \in Shape /\ t \in Topo
               /\ Linked(s) /\ BottomUp(s, t) /\ InternalView(t)

LEMMA Constants ==
  /\ NumLeaves \in Nat /\ NumLeaves >= 1
  /\ Node = 0 .. 2 * NumLeaves - 2
  /\ Internal = NumLeaves .. 2 * NumLeaves - 2
  /\ Internal \subseteq Node /\ Node \subseteq Int /\ Slots \subseteq Int
  /\ None \notin Node
  /\ Root \in Node
  /\ Slots = 0 .. NumLeaves - 2
BY NumLeavesAssumption DEF Node, N, Internal, None, Root, Slots
------------------------------------------------------------------------------
(* The links. *)

\* The nodes a rotation relinks: distinct, placed as the order places them.
LEMMA RotatedNodes ==
  ASSUME NEW s, NEW t, Valid(s, t), NEW v \in Internal, NEW kind \in Kinds,
         CanRotate(s, v, kind)
  PROVE  LET w == Promoted(s, v, kind)
             x == Other(s, v, kind)
             y == Promoted(s, w, kind)
             z == Other(s, w, kind)
         IN  /\ w \in Internal /\ x \in Node /\ y \in Node /\ z \in Node
             /\ w # x /\ y # z
             /\ s.parent[w] = v /\ s.parent[x] = v
             /\ s.parent[y] = w /\ s.parent[z] = w
             /\ t.pos[w] < t.pos[v] /\ t.pos[x] < t.pos[v]
             /\ t.pos[y] < t.pos[w] /\ t.pos[z] < t.pos[w]
             /\ {s.left[v], s.right[v]} = {w, x}
             /\ {s.left[w], s.right[w]} = {y, z}
  BY Constants DEF Valid, Shape, Topo, Linked, BottomUp, CanRotate, Promoted, Other, Kinds

LEMMA InfoTyped ==
  ASSUME NEW s, NEW t, Valid(s, t), NEW v \in Internal, NEW kind \in Kinds,
         CanRotate(s, v, kind)
  PROVE  RotationInfo(s, v, kind) \in Info
  BY RotatedNodes DEF RotationInfo, Info

LEMMA RotateLinked ==
  ASSUME NEW s, NEW t, Valid(s, t), NEW v \in Internal, NEW kind \in Kinds,
         CanRotate(s, v, kind)
  PROVE  /\ RotatePointers(s, v, kind) \in Shape
         /\ Linked(RotatePointers(s, v, kind))
<1> DEFINE w == Promoted(s, v, kind)
           x == Other(s, v, kind)
           y == Promoted(s, w, kind)
           z == Other(s, w, kind)
           r == RotatePointers(s, v, kind)
<1>1. /\ w \in Internal /\ x \in Node /\ y \in Node /\ z \in Node
      /\ w # x /\ y # z
      /\ s.parent[w] = v /\ s.parent[x] = v /\ s.parent[y] = w /\ s.parent[z] = w
      /\ t.pos[w] < t.pos[v] /\ t.pos[x] < t.pos[v]
      /\ t.pos[y] < t.pos[w] /\ t.pos[z] < t.pos[w]
      /\ {s.left[v], s.right[v]} = {w, x}
      /\ {s.left[w], s.right[w]} = {y, z}
  BY RotatedNodes
<1>2. /\ s \in Shape /\ Linked(s) /\ t.pos \in [Node -> Node]
      /\ Internal \subseteq Node /\ Node \subseteq Int /\ None \notin Node
  BY Constants DEF Valid, Topo
<1>3. v # w /\ x # v /\ y # v /\ z # v /\ y # w /\ z # w /\ x # y /\ x # z
  BY <1>1, <1>2
<1> HIDE DEF w, x, y, z
<1>4. /\ r.left \in [Internal -> Node] /\ r.right \in [Internal -> Node]
      /\ r.parent = [s.parent EXCEPT ![w] = v, ![x] = w, ![y] = v]
      /\ {r.left[v], r.right[v]} = {w, y} /\ {r.left[w], r.right[w]} = {x, z}
      /\ r.left[v] # r.right[v] /\ r.left[w] # r.right[w]
      /\ \A n \in Internal \ {v, w} : r.left[n] = s.left[n] /\ r.right[n] = s.right[n]
  <2>1. CASE kind = "Left"
    BY <1>1, <1>2, <1>3, <2>1 DEF RotatePointers, w, x, y, z, Shape
  <2>2. CASE kind # "Left"
    BY <1>1, <1>2, <1>3, <2>2 DEF RotatePointers, w, x, y, z, Shape
  <2> QED BY <2>1, <2>2
<1>5. r = [left |-> r.left, right |-> r.right, parent |-> r.parent]
  BY DEF RotatePointers
<1>6. r \in Shape
  BY <1>1, <1>2, <1>4, <1>5 DEF Shape
<1>7. /\ r.parent[w] = v /\ r.parent[x] = w /\ r.parent[y] = v
      /\ \A n \in Node \ {w, x, y} : r.parent[n] = s.parent[n]
  BY <1>1, <1>2, <1>3, <1>4 DEF Shape
<1>8. ASSUME NEW n \in Internal
      PROVE  r.parent[r.left[n]] = n /\ r.parent[r.right[n]] = n /\ r.left[n] # r.right[n]
  <2>1. CASE n = v  BY <1>3, <1>4, <1>7, <2>1
  <2>2. CASE n = w  BY <1>1, <1>3, <1>4, <1>7, <2>2
  <2>3. CASE n \notin {v, w}
    <3>1. s.left[n] \notin {w, x, y, z} /\ s.right[n] \notin {w, x, y, z}
      BY <1>1, <1>2, <2>3 DEF Linked
    <3> QED BY <1>2, <1>4, <1>7, <2>3, <3>1 DEF Linked, Shape
  <2> QED BY <2>1, <2>2, <2>3
<1>9. ASSUME NEW n \in Node \ {Root}
      PROVE  r.parent[n] \in Internal /\ n \in {r.left[r.parent[n]], r.right[r.parent[n]]}
  <2>1. CASE n \in {w, x, y}  BY <1>1, <1>4, <1>7, <1>3, <2>1
  <2>2. CASE n \notin {w, x, y}
    <3>1. r.parent[n] = s.parent[n] /\ s.parent[n] \in Internal
          /\ n \in {s.left[s.parent[n]], s.right[s.parent[n]]}
      BY <1>2, <1>7, <2>2 DEF Linked
    <3>2. s.parent[n] # v  BY <1>1, <2>2, <3>1
    <3> QED BY <1>1, <1>4, <2>2, <3>1, <3>2
  <2> QED BY <2>1, <2>2
<1>10. r.parent[Root] = None
  <2>1. s.parent[w] # None /\ s.parent[x] # None /\ s.parent[y] # None
    BY <1>1, <1>2
  <2> QED BY <1>2, <1>7, <2>1, Constants DEF Linked
<1> QED BY <1>6, <1>8, <1>9, <1>10 DEF Linked

\* PendingTopo::revert undoes rotate_pointers.
LEMMA UnrotateInverse ==
  ASSUME NEW s, NEW t, Valid(s, t), NEW v \in Internal, NEW kind \in Kinds,
         CanRotate(s, v, kind)
  PROVE  UnrotatePointers(RotatePointers(s, v, kind), RotationInfo(s, v, kind)) = s
<1> DEFINE w == Promoted(s, v, kind)
           x == Other(s, v, kind)
           y == Promoted(s, w, kind)
           z == Other(s, w, kind)
           r == RotatePointers(s, v, kind)
           u == UnrotatePointers(r, RotationInfo(s, v, kind))
<1>1. /\ w \in Internal /\ x \in Node /\ y \in Node /\ z \in Node
      /\ s.parent[w] = v /\ s.parent[x] = v /\ s.parent[y] = w /\ s.parent[z] = w
      /\ t.pos[w] < t.pos[v] /\ t.pos[y] < t.pos[w]
  BY RotatedNodes
<1>2. s \in Shape /\ t.pos \in [Node -> Node] /\ Internal \subseteq Node /\ Node \subseteq Int
  BY Constants DEF Valid, Topo
<1>3. v # w /\ x # y  BY <1>1, <1>2
<1>4. s = [left |-> s.left, right |-> s.right, parent |-> s.parent]
      /\ s.left \in [Internal -> Node] /\ s.right \in [Internal -> Node]
      /\ s.parent \in [Node -> Node \cup {None}]
  BY <1>2 DEF Shape
<1>5. u.parent = s.parent
  <2>1. r.parent = [s.parent EXCEPT ![w] = v, ![x] = w, ![y] = v]
    BY DEF RotatePointers
  <2>2. u.parent = [r.parent EXCEPT ![w] = v, ![x] = v, ![y] = w]
    BY DEF UnrotatePointers, RotationInfo
  <2> HIDE DEF w, x, y, r, u
  <2>3. u.parent = [s.parent EXCEPT ![w] = v, ![x] = v, ![y] = w]
    BY <2>1, <2>2
  <2> QED BY <1>1, <1>3, <1>4, <2>3
<1>6. u.left = s.left /\ u.right = s.right
  <2>1. CASE kind = "Left"
    <3>1. s.left[v] = x /\ s.right[v] = w /\ s.left[w] = z /\ s.right[w] = y
      BY <2>1 DEF Promoted, Other
    <3>2. r.left = [s.left EXCEPT ![v] = w, ![w] = x]
          /\ r.right = [s.right EXCEPT ![v] = y, ![w] = z]
      BY <2>1 DEF RotatePointers
    <3>3. u.left = [r.left EXCEPT ![v] = x, ![w] = z]
          /\ u.right = [r.right EXCEPT ![v] = w, ![w] = y]
      BY <2>1 DEF UnrotatePointers, RotationInfo
    <3> HIDE DEF w, x, y, z, r, u
    <3> QED BY <1>1, <1>3, <1>4, <3>1, <3>2, <3>3
  <2>2. CASE kind # "Left"
    <3>1. s.left[v] = w /\ s.right[v] = x /\ s.left[w] = y /\ s.right[w] = z
      BY <2>2 DEF Promoted, Other
    <3>2. r.left = [s.left EXCEPT ![v] = y, ![w] = z]
          /\ r.right = [s.right EXCEPT ![v] = w, ![w] = x]
      BY <2>2 DEF RotatePointers
    <3>3. u.left = [r.left EXCEPT ![v] = w, ![w] = y]
          /\ u.right = [r.right EXCEPT ![v] = x, ![w] = z]
      BY <2>2 DEF UnrotatePointers, RotationInfo
    <3> HIDE DEF w, x, y, z, r, u
    <3> QED BY <1>1, <1>3, <1>4, <3>1, <3>2, <3>3
  <2> QED BY <2>1, <2>2
<1>7. u = [left |-> u.left, right |-> u.right, parent |-> u.parent]
  BY DEF UnrotatePointers
<1> QED BY <1>4, <1>5, <1>6, <1>7
------------------------------------------------------------------------------
(* The order. *)

\* The internal view is sorted, so a partition point exists.
LEMMA PartitionPointIs ==
  ASSUME NEW t \in Topo, InternalView(t), NEW bound \in Int
  PROVE  LET i == PartitionPoint(t, bound)
         IN  /\ i \in 0 .. NumLeaves - 1
             /\ \A k \in 0 .. i - 1 : t.pos[t.internal[k]] < bound
             /\ \A k \in i .. NumLeaves - 2 : t.pos[t.internal[k]] >= bound
<1> DEFINE S == {i \in 0 .. NumLeaves - 1 :
                   \A k \in i .. NumLeaves - 2 : t.pos[t.internal[k]] >= bound}
<1>1. NumLeaves - 1 \in S
  BY Constants
<1>2. S \subseteq Nat
  BY Constants
<1> DEFINE R == OpToRel(<, Nat)
<1>3. \E i \in S : \A j \in S : ~(<<j, i>> \in R)
  <2>1. IsWellFoundedOn(R, Nat)
    BY NatLessThanWellFounded
  <2> HIDE DEF R, S
  <2> QED BY <1>1, <1>2, <2>1, WFMin
<1>4. PICK i \in S : \A j \in S : i <= j
  <2>1. PICK i \in S : \A j \in S : ~(<<j, i>> \in R)
    BY <1>3
  <2>2. ASSUME NEW j \in S, j < i
        PROVE  <<j, i>> \in R
    BY <1>2, <2>2 DEF OpToRel
  <2>3. \A j \in S : ~(j < i)
    BY <2>1, <2>2
  <2> HIDE DEF S
  <2> QED BY <1>2, <2>3
<1>5. ASSUME NEW k \in 0 .. i - 1
      PROVE  t.pos[t.internal[k]] < bound
  <2>1. /\ i - 1 \in 0 .. NumLeaves - 1 /\ i - 1 \in Slots /\ k \in Slots
        /\ i \in Nat /\ i - 1 \notin S
    <3>1. i \in 0 .. NumLeaves - 1 /\ k \in Int /\ 0 <= k /\ k <= i - 1
      BY <1>5, Constants
    <3>2. i - 1 \notin S
      BY <1>4, <3>1
    <3> HIDE DEF S
    <3> QED BY <3>1, <3>2, Constants
  <2>2. \A j \in Slots : t.pos[t.internal[j]] \in Int
    BY Constants DEF Topo
  <2>3. t.pos[t.internal[i - 1]] < bound
    <3>1. PICK j \in i - 1 .. NumLeaves - 2 : ~(t.pos[t.internal[j]] >= bound)
      BY <2>1
    <3>2. j \notin i .. NumLeaves - 2
      BY <3>1
    <3>3. j = i - 1
      BY <2>1, <3>2, Constants
    <3> QED BY <2>1, <2>2, <3>1, <3>3
  <2>4. k = i - 1 \/ k < i - 1
    BY <2>1
  <2>5. k < i - 1 => t.pos[t.internal[k]] < t.pos[t.internal[i - 1]]
    BY <2>1 DEF InternalView
  <2> QED BY <2>1, <2>2, <2>3, <2>4, <2>5
<1>6. \E j \in 0 .. NumLeaves - 1 :
        /\ \A k \in 0 .. j - 1 : t.pos[t.internal[k]] < bound
        /\ \A k \in j .. NumLeaves - 2 : t.pos[t.internal[k]] >= bound
  BY <1>5
<1> QED BY <1>6 DEF PartitionPoint

\* The positions after a repair that moves w from lo to hi: w goes to hi, the
\* nodes between move down by one, the others stay.
LEMMA FixupOrder ==
  ASSUME NEW t \in Topo, \A n \in Node : t.order[t.pos[n]] = n /\ t.pos[t.order[n]] = n,
         NEW i \in Info, t.pos[i.w] < t.pos[MisplacedRoot(i)]
  PROVE  LET f  == FixupAfterRotate(t, i)
             lo == t.pos[i.w]
             hi == t.pos[MisplacedRoot(i)]
         IN  /\ f.order \in [Node -> Node] /\ f.pos \in [Node -> Node]
             /\ \A n \in Node : f.order[f.pos[n]] = n /\ f.pos[f.order[n]] = n
             /\ \A n \in Node : f.pos[n] = IF n = i.w THEN hi
                                           ELSE IF lo < t.pos[n] /\ t.pos[n] <= hi
                                                THEN t.pos[n] - 1 ELSE t.pos[n]
<1> DEFINE f  == FixupAfterRotate(t, i)
           lo == t.pos[i.w]
           hi == t.pos[MisplacedRoot(i)]
           new == RotateLeft1(t.order, lo, hi)
<1>1. /\ t.order \in [Node -> Node] /\ t.pos \in [Node -> Node]
      /\ \A n \in Node : t.pos[n] \in Node /\ t.order[n] \in Node
      /\ i.w \in Node /\ MisplacedRoot(i) \in Node /\ lo \in Node /\ hi \in Node
      /\ lo < hi /\ Node \subseteq Int
  BY Constants DEF Topo, Info, MisplacedRoot
<1>2. /\ f.order = new
      /\ f.pos = [n \in Node |-> IF \E k \in lo .. hi : new[k] = n
                                 THEN CHOOSE k \in lo .. hi : new[k] = n
                                 ELSE t.pos[n]]
  BY <1>1 DEF FixupAfterRotate
<1>3. new = [k \in Node |-> IF lo <= k /\ k < hi THEN t.order[k + 1]
                           ELSE IF k = hi THEN t.order[lo] ELSE t.order[k]]
  BY <1>1 DEF RotateLeft1
<1> HIDE DEF f, lo, hi, new
<1>4. \A k \in Node : k + 1 \in Node \/ k >= hi
  BY <1>1, Constants
<1>5. new \in [Node -> Node]
  <2> SUFFICES ASSUME NEW k \in Node PROVE new[k] \in Node
    BY <1>3
  <2> QED BY <1>1, <1>3, <1>4
<1>6. t.order[lo] = i.w /\ \A n \in Node : n # i.w => t.pos[n] # lo
  BY <1>1 DEF lo
<1> DEFINE at(n) == IF n = i.w THEN hi
                    ELSE IF lo < t.pos[n] /\ t.pos[n] <= hi THEN t.pos[n] - 1 ELSE t.pos[n]
<1>7. ASSUME NEW n \in Node
      PROVE  at(n) \in Node /\ new[at(n)] = n
  <2>1. CASE n = i.w  BY <1>1, <1>3, <1>6, <2>1
  <2>2. CASE n # i.w /\ lo < t.pos[n] /\ t.pos[n] <= hi
    <3>1. at(n) = t.pos[n] - 1 /\ t.pos[n] \in Node /\ t.order[t.pos[n]] = n
      BY <1>1, <2>2
    <3>2. t.pos[n] - 1 \in Node /\ lo <= t.pos[n] - 1 /\ t.pos[n] - 1 < hi
          /\ (t.pos[n] - 1) + 1 = t.pos[n]
      <4> DEFINE p == t.pos[n]
      <4>1. p \in Node /\ lo \in Node /\ hi \in Node /\ lo < p /\ p <= hi
        BY <1>1, <2>2, <3>1
      <4> HIDE DEF p
      <4>2. p - 1 \in Node /\ lo <= p - 1 /\ p - 1 < hi /\ (p - 1) + 1 = p
        BY <4>1, Constants
      <4> QED BY <4>2 DEF p
    <3> HIDE DEF at
    <3> QED BY <1>1, <1>3, <3>1, <3>2
  <2>3. CASE n # i.w /\ ~(lo < t.pos[n] /\ t.pos[n] <= hi)
    <3>1. at(n) = t.pos[n] /\ t.pos[n] \in Node /\ t.order[t.pos[n]] = n
      BY <1>1, <2>3
    <3>2. ~(lo <= t.pos[n] /\ t.pos[n] < hi) /\ t.pos[n] # hi
      <4> DEFINE p == t.pos[n]
      <4>1. p \in Int /\ lo \in Int /\ hi \in Int /\ lo < hi /\ ~(lo < p /\ p <= hi) /\ p # lo
        BY <1>1, <1>6, <2>3, <3>1
      <4> HIDE DEF p
      <4> QED BY <4>1 DEF p
    <3> HIDE DEF at
    <3> QED BY <1>3, <3>1, <3>2
  <2> QED BY <2>1, <2>2, <2>3
<1>8. ASSUME NEW k \in Node
      PROVE  at(new[k]) = k
  <2>1. CASE lo <= k /\ k < hi
    <3>1. k + 1 \in Node /\ new[k] = t.order[k + 1]
      BY <1>1, <1>3, <1>4, <2>1
    <3>2. t.pos[new[k]] = k + 1 /\ new[k] \in Node
      BY <1>1, <3>1
    <3>3. new[k] # i.w
      BY <1>1, <2>1, <3>2 DEF lo
    <3> QED BY <1>1, <2>1, <3>2, <3>3
  <2>2. CASE k = hi  BY <1>1, <1>3, <1>6, <2>2
  <2>3. CASE k < lo \/ k > hi
    <3>1. new[k] = t.order[k] /\ new[k] \in Node /\ t.pos[new[k]] = k
      BY <1>1, <1>3, <2>3
    <3>2. new[k] # i.w
      BY <1>1, <2>3, <3>1 DEF lo
    <3> QED BY <1>1, <2>3, <3>1, <3>2
  <2> QED BY <1>1, <2>1, <2>2, <2>3
<1>9. ASSUME NEW n \in Node
      PROVE  f.pos[n] = at(n)
  <2>1. \A k \in Node : new[k] = n <=> k = at(n)
    BY <1>7, <1>8
  <2>2. lo .. hi \subseteq Node
    BY <1>1, Constants
  <2>3. CASE at(n) \in lo .. hi
    <3> HIDE DEF at
    <3> QED BY <1>2, <2>1, <2>2, <2>3
  <2>4. CASE at(n) \notin lo .. hi
    <3>1. ~ \E k \in lo .. hi : new[k] = n
      BY <2>1, <2>2, <2>4
    <3>2. n # i.w /\ ~(lo < t.pos[n] /\ t.pos[n] <= hi)
      <4> DEFINE p == t.pos[n]
      <4>1. p \in Int /\ lo \in Int /\ hi \in Int /\ lo < hi
        BY <1>1
      <4>2. (IF n = i.w THEN hi ELSE IF lo < p /\ p <= hi THEN p - 1 ELSE p) \notin lo .. hi
        BY <2>4
      <4> HIDE DEF p
      <4>3. n # i.w /\ ~(lo < p /\ p <= hi)
        BY <4>1, <4>2
      <4> QED BY <4>3 DEF p
    <3> QED BY <1>2, <3>1, <3>2
  <2> QED BY <2>3, <2>4
<1>10. \A n \in Node : f.pos[n] = at(n) /\ f.pos[n] \in Node
  BY <1>7, <1>9
<1>11. f.pos \in [Node -> Node]
  BY <1>2, <1>10
<1>12. \A n \in Node : f.order[f.pos[n]] = n /\ f.pos[f.order[n]] = n
  <2> HIDE DEF at
  <2> QED BY <1>2, <1>5, <1>7, <1>8, <1>10
<1> QED BY <1>2, <1>5, <1>10, <1>11, <1>12 DEF f, lo, hi

\* Entry n of a list g whose slice iW..iE-1 was shifted one place, every entry
\* shifted lowered by one and the slice's head raised to hi.
Shifted(g, hi, iW, iE, n) == IF iW <= n /\ n < iE - 1 THEN g[n + 1] - 1
                             ELSE IF n = iE - 1 THEN hi ELSE g[n]

\* Shifting a slice of a sorted list one place, its head moved to the slice's
\* upper bound, leaves it sorted.
LEMMA ShiftSorted ==
  ASSUME NEW g \in [Slots -> Int], NEW lo \in Int, NEW hi \in Int, lo < hi,
         NEW iW \in Int, NEW iE \in Int, 0 <= iW, iW < iE, iE <= NumLeaves - 1,
         \A j, k \in Slots : j < k => g[j] < g[k],
         \A k \in Slots : k < iW => g[k] < lo,
         \A k \in Slots : iW < k /\ k < iE => lo < g[k] /\ g[k] <= hi,
         \A k \in Slots : k >= iE => g[k] > hi,
         NEW j \in Slots, NEW k \in Slots, j < k
  PROVE  Shifted(g, hi, iW, iE, j) < Shifted(g, hi, iW, iE, k)
<1> DEFINE at(n) == Shifted(g, hi, iW, iE, n)
<1> USE DEF Shifted
<1>1. j \in Int /\ k \in Int /\ g[j] \in Int /\ g[k] \in Int
  BY Constants
<1>2. \A n \in Slots : iW <= n /\ n < iE - 1 => n + 1 \in Slots /\ g[n + 1] \in Int
  BY Constants
<1>3. CASE j < iW
  <2>1. at(j) = g[j] /\ g[j] < lo
    BY <1>1, <1>3
  <2>2. at(k) >= lo \/ (k < iW /\ at(k) = g[k])
    BY <1>1, <1>2, Constants
  <2>3. at(k) \in Int
    BY <1>1, <1>2
  <2> HIDE DEF Shifted
  <2> QED BY <1>1, <2>1, <2>2, <2>3
<1>4. CASE iW <= j /\ j < iE - 1
  <2>1. at(j) = g[j + 1] - 1 /\ g[j + 1] <= hi /\ j + 1 \in Slots /\ g[j + 1] \in Int
    BY <1>1, <1>2, <1>4
  <2>2. CASE k < iE - 1
    <3>1. at(k) = g[k + 1] - 1 /\ k + 1 \in Slots /\ g[k + 1] \in Int
      BY <1>1, <1>2, <1>4, <2>2
    <3>2. j + 1 < k + 1
      BY <1>1
    <3>3. g[j + 1] < g[k + 1]
      BY <2>1, <3>1, <3>2
    <3> HIDE DEF Shifted
    <3> QED BY <2>1, <3>1, <3>3
  <2>3. CASE k >= iE - 1
    <3>1. at(k) >= hi /\ at(k) \in Int
      BY <1>1, <2>3
    <3> HIDE DEF Shifted
    <3> QED BY <2>1, <3>1
  <2> QED BY <1>1, <2>2, <2>3
<1>5. CASE j >= iE - 1
  <2>1. at(k) = g[k] /\ g[k] > hi
    BY <1>1, <1>5
  <2>2. at(j) = hi \/ at(j) = g[j]
    BY <1>1, <1>5
  <2> HIDE DEF Shifted
  <2> QED BY <1>1, <2>1, <2>2
<1> QED BY <1>1, <1>3, <1>4, <1>5

\* The repaired internal view is the repaired order filtered.
LEMMA FixupInternal ==
  ASSUME NEW t \in Topo, \A n \in Node : t.order[t.pos[n]] = n /\ t.pos[t.order[n]] = n,
         InternalView(t),
         NEW i \in Info, t.pos[i.w] < t.pos[MisplacedRoot(i)]
  PROVE  LET f == FixupAfterRotate(t, i)
         IN  f.internal \in [Slots -> Internal] /\ InternalView(f)
<1> DEFINE f  == FixupAfterRotate(t, i)
           lo == t.pos[i.w]
           hi == t.pos[MisplacedRoot(i)]
           iW == PartitionPoint(t, lo)
           iE == PartitionPoint(t, hi + 1)
           old(k) == t.pos[t.internal[k]]
<1>1. /\ t.pos \in [Node -> Node] /\ t.internal \in [Slots -> Internal]
      /\ i.w \in Internal /\ MisplacedRoot(i) \in Node /\ lo \in Node /\ hi \in Node
      /\ lo < hi /\ Node \subseteq Int /\ Internal \subseteq Node
  BY Constants DEF Topo, Info, MisplacedRoot
<1>0. /\ lo \in Int /\ hi \in Int /\ hi + 1 \in Int
      /\ NumLeaves \in Int /\ \A k \in Slots : k \in Int
  <2>1. lo \in Int /\ hi \in Int
    BY <1>1
  <2> HIDE DEF lo, hi
  <2> QED BY <2>1, Constants
<1>2. \A k \in Slots : old(k) \in Int /\ t.internal[k] \in Internal
  BY <1>1
<1>3. /\ iW \in 0 .. NumLeaves - 1
      /\ \A k \in 0 .. iW - 1 : old(k) < lo
      /\ \A k \in iW .. NumLeaves - 2 : old(k) >= lo
  BY <1>1, PartitionPointIs
<1>4. /\ iE \in 0 .. NumLeaves - 1
      /\ \A k \in 0 .. iE - 1 : old(k) < hi + 1
      /\ \A k \in iE .. NumLeaves - 2 : old(k) >= hi + 1
  BY <1>0, PartitionPointIs
<1>5. \A j, k \in Slots : j < k => old(j) < old(k)
  BY DEF InternalView
<1>6. f.internal = [k \in Slots |-> IF iW <= k /\ k < iE - 1 THEN t.internal[k + 1]
                                   ELSE IF k = iE - 1 THEN t.internal[iW] ELSE t.internal[k]]
  BY <1>1 DEF FixupAfterRotate, RotateLeft1
<1>7. \A n \in Node : f.pos[n] = IF n = i.w THEN hi
                                ELSE IF lo < t.pos[n] /\ t.pos[n] <= hi
                                     THEN t.pos[n] - 1 ELSE t.pos[n]
  BY FixupOrder
<1>8. \A m, n \in Node : t.pos[m] = t.pos[n] => m = n
  OBVIOUS
<1> HIDE DEF f, lo, hi, iW, iE
\* w's own slot is the first the shift touches.
<1>9. iW \in Slots /\ t.internal[iW] = i.w /\ iW < iE
  <2>1. PICK k \in Slots : t.internal[k] = i.w
    BY <1>1 DEF InternalView
  <2>2. old(k) = lo
    BY <2>1 DEF lo
  <2>3. k >= iW
    <3>1. k \in Int /\ 0 <= k /\ iW \in Int
      BY <1>3, Constants
    <3>2. ~(k \in 0 .. iW - 1)
      BY <1>0, <1>3, <2>2
    <3> QED BY <3>1, <3>2
  <2>4. iW \in Slots /\ old(iW) >= lo
    BY <1>3, <2>3, Constants
  <2>5. k = iW
    <3>1. ~(iW < k)
      BY <1>0, <1>2, <1>5, <2>2, <2>4
    <3> QED BY <1>0, <2>3, <2>4, <3>1
  <2>6. ~(iW >= iE)
    <3>1. ~(iW \in iE .. NumLeaves - 2)
      BY <1>0, <1>1, <1>4, <2>2, <2>5
    <3> QED BY <1>3, <1>4, <2>4, <3>1, Constants
  <2> QED BY <1>3, <1>4, <2>1, <2>5, <2>6
<1>10. /\ iW \in Int /\ iE \in Int /\ 0 <= iW /\ iW <= iE - 1 /\ iE - 1 <= NumLeaves - 2
       /\ \A k \in Slots : iW <= k /\ k < iE - 1 => k + 1 \in Slots
       /\ iE - 1 \in Slots
  BY <1>3, <1>4, <1>9, Constants
<1>11. f.internal \in [Slots -> Internal]
  <2> SUFFICES ASSUME NEW k \in Slots PROVE f.internal[k] \in Internal
    BY <1>6
  <2> QED BY <1>1, <1>2, <1>6, <1>9, <1>10
<1>12. \A k \in Slots \ {iW} : t.internal[k] # i.w
  <2> SUFFICES ASSUME NEW k \in Slots \ {iW}, t.internal[k] = i.w PROVE FALSE
    OBVIOUS
  <2>1. k \in Int /\ iW \in Int /\ (k < iW \/ iW < k)
    BY <1>0, <1>9
  <2>2. old(k) = old(iW) /\ old(k) \in Int
    BY <1>2, <1>9
  <2> QED BY <1>5, <1>9, <2>1, <2>2
\* The new position of each slot's entry.
<1>13. ASSUME NEW k \in Slots
       PROVE  f.pos[f.internal[k]] = IF iW <= k /\ k < iE - 1 THEN old(k + 1) - 1
                                     ELSE IF k = iE - 1 THEN hi ELSE old(k)
  <2>1. CASE iW <= k /\ k < iE - 1
    <3>1. k + 1 \in Slots /\ f.internal[k] = t.internal[k + 1] /\ k + 1 # iW /\ k + 1 \in Int
      BY <1>6, <1>10, <2>1, Constants
    <3>2. old(k + 1) < hi + 1 /\ old(iW) < old(k + 1)
      BY <1>4, <1>5, <1>9, <1>10, <2>1, <3>1, Constants
    <3>3. lo < old(k + 1) /\ old(k + 1) <= hi
      <4>1. old(iW) = lo  BY <1>9 DEF lo
      <4> QED BY <1>1, <1>2, <3>1, <3>2, <4>1
    <3> QED BY <1>1, <1>2, <1>7, <1>12, <2>1, <3>1, <3>3
  <2>2. CASE k = iE - 1
    <3>1. f.internal[k] = i.w /\ i.w \in Node
      <4>1. ~(iW <= k /\ k < iE - 1)
        BY <1>0, <1>10, <2>2
      <4> QED BY <1>1, <1>6, <1>9, <2>2, <4>1
    <3> QED BY <1>7, <1>10, <2>2, <3>1
  <2>3. CASE ~(iW <= k /\ k < iE - 1) /\ k # iE - 1
    <3>1. f.internal[k] = t.internal[k] /\ k # iW /\ k \in Int /\ (k < iW \/ k >= iE)
      BY <1>6, <1>10, <2>3, Constants
    <3>2. old(k) < lo \/ old(k) >= hi + 1
      BY <1>3, <1>4, <1>10, <3>1, Constants
    <3>3. ~(lo < old(k) /\ old(k) <= hi)
      BY <1>1, <1>2, <3>2
    <3>4. t.internal[k] \in Node /\ t.internal[k] # i.w
      BY <1>1, <1>2, <1>12, <3>1
    <3>5. f.pos[t.internal[k]] = old(k)
      BY <1>7, <3>3, <3>4
    <3> QED BY <2>3, <3>1, <3>5
  <2> QED BY <2>1, <2>2, <2>3
<1>14. ASSUME NEW j \in Slots, NEW k \in Slots, j < k
       PROVE  f.pos[f.internal[j]] < f.pos[f.internal[k]]
  <2> DEFINE g == [n \in Slots |-> old(n)]
  <2>1. g \in [Slots -> Int]
    BY <1>2
  <2>2. \A m, n \in Slots : m < n => g[m] < g[n]
    BY <1>5
  <2>3. \A n \in Slots : n < iW => g[n] < lo
    BY <1>3, <1>10, Constants
  <2>4. \A n \in Slots : n >= iE => g[n] > hi
    <3>1. \A n \in Slots : n >= iE => old(n) >= hi + 1
      BY <1>4, <1>10, Constants
    <3> QED BY <1>1, <1>2, <3>1
  <2>5. \A n \in Slots : iW < n /\ n < iE => lo < g[n] /\ g[n] <= hi
    <3>1. old(iW) = lo  BY <1>9 DEF lo
    <3>2. \A n \in Slots : n < iE => old(n) < hi + 1
      BY <1>4, <1>10, Constants
    <3>3. \A n \in Slots : n < iE => old(n) <= hi
      BY <1>1, <1>2, <3>2
    <3>4. \A n \in Slots : iW < n => lo < old(n)
      BY <1>5, <1>9, <3>1
    <3> QED BY <3>3, <3>4
  <2>6. lo \in Int /\ hi \in Int /\ lo < hi
    BY <1>0, <1>1
  <2>7. \A n \in Slots : f.pos[f.internal[n]] = Shifted(g, hi, iW, iE, n)
    BY <1>10, <1>13 DEF Shifted
  <2> HIDE DEF g, old
  <2>8. Shifted(g, hi, iW, iE, j) < Shifted(g, hi, iW, iE, k)
    <3>1. iW \in Int /\ iE \in Int /\ 0 <= iW /\ iW < iE /\ iE <= NumLeaves - 1
      BY <1>0, <1>9, <1>10
    <3> QED BY <1>14, <2>1, <2>2, <2>3, <2>4, <2>5, <2>6, <3>1, ShiftSorted
  <2> QED BY <2>7, <2>8
<1>15. ASSUME NEW n \in Internal
       PROVE  \E k \in Slots : f.internal[k] = n
  <2>1. PICK k \in Slots : t.internal[k] = n
    BY DEF InternalView
  <2>2. k \in Int /\ 0 <= k /\ k <= NumLeaves - 2
    BY Constants
  <2>3. CASE k = iW
    BY <1>6, <1>10, <2>1, <2>3
  <2>4. CASE iW < k /\ k < iE
    <3>1. k - 1 \in Slots /\ iW <= k - 1 /\ k - 1 < iE - 1 /\ (k - 1) + 1 = k
      BY <1>10, <2>2, <2>4, Constants
    <3> QED BY <1>6, <2>1, <3>1
  <2>5. CASE k < iW \/ k >= iE
    BY <1>6, <1>10, <2>1, <2>2, <2>5
  <2> QED BY <1>10, <2>2, <2>3, <2>4, <2>5
<1> QED BY <1>11, <1>14, <1>15 DEF f, InternalView

\* A rotation and its repair keep links, order and views in agreement.
LEMMA RotateValid ==
  ASSUME NEW s, NEW t, Valid(s, t), NEW v \in Internal, NEW kind \in Kinds,
         CanRotate(s, v, kind)
  PROVE  Valid(RotatePointers(s, v, kind), FixupAfterRotate(t, RotationInfo(s, v, kind)))
<1> DEFINE w == Promoted(s, v, kind)
           x == Other(s, v, kind)
           y == Promoted(s, w, kind)
           z == Other(s, w, kind)
           r == RotatePointers(s, v, kind)
           i == RotationInfo(s, v, kind)
           f == FixupAfterRotate(t, i)
           lo == t.pos[w]
           hi == t.pos[x]
<1>1. /\ w \in Internal /\ x \in Node /\ y \in Node /\ z \in Node
      /\ w # x /\ y # z
      /\ s.parent[w] = v /\ s.parent[x] = v /\ s.parent[y] = w /\ s.parent[z] = w
      /\ t.pos[w] < t.pos[v] /\ t.pos[x] < t.pos[v]
      /\ t.pos[y] < t.pos[w] /\ t.pos[z] < t.pos[w]
  BY RotatedNodes
<1>2. /\ s \in Shape /\ Linked(s) /\ t \in Topo /\ t.pos \in [Node -> Node]
      /\ \A n \in Node : t.order[t.pos[n]] = n /\ t.pos[t.order[n]] = n
      /\ \A n \in Internal : t.pos[s.left[n]] < t.pos[n] /\ t.pos[s.right[n]] < t.pos[n]
      /\ InternalView(t)
      /\ Internal \subseteq Node /\ Node \subseteq Int
  BY Constants DEF Valid, Topo, BottomUp
<1>0. \A n \in Node : t.pos[n] \in Int
  BY <1>2
<1>3. v # w /\ x # v /\ y # w /\ z # w
  BY <1>1, <1>2
<1>4. i \in Info /\ i.w = w /\ MisplacedRoot(i) = x
  BY InfoTyped DEF RotationInfo, MisplacedRoot
<1>5. r \in Shape /\ Linked(r)
  BY RotateLinked
<1>6. /\ {r.left[v], r.right[v]} = {w, y} /\ {r.left[w], r.right[w]} = {x, z}
      /\ \A n \in Internal \ {v, w} : r.left[n] = s.left[n] /\ r.right[n] = s.right[n]
  <2> HIDE DEF w, x, y, z
  <2>1. CASE kind = "Left"
    BY <1>1, <1>2, <1>3, <2>1 DEF RotatePointers, w, x, y, z, Shape
  <2>2. CASE kind # "Left"
    BY <1>1, <1>2, <1>3, <2>2 DEF RotatePointers, w, x, y, z, Shape
  <2> QED BY <2>1, <2>2
<1> HIDE DEF w, x, y, z, r, i, f
<1>7. \A n \in Internal : r.left[n] \in Node /\ r.right[n] \in Node
  BY <1>5 DEF Shape
<1>8. lo # hi
  BY <1>1, <1>2
<1>9. lo \in Int /\ hi \in Int
  BY <1>1, <1>2
<1>10. CASE hi < lo
  <2>1. f = t
    BY <1>4, <1>10 DEF FixupAfterRotate, f
  <2>2. ASSUME NEW n \in Internal
        PROVE  t.pos[r.left[n]] < t.pos[n] /\ t.pos[r.right[n]] < t.pos[n]
    <3> DEFINE q(m) == t.pos[m]
    <3>0. q(v) \in Int /\ q(w) \in Int /\ q(x) \in Int /\ q(y) \in Int /\ q(z) \in Int
      BY <1>0, <1>1, <1>2
    <3>4. q(w) < q(v) /\ q(y) < q(v) /\ q(x) < q(w) /\ q(z) < q(w)
      <4>1. q(w) < q(v) /\ q(y) < q(w) /\ q(x) < q(w) /\ q(z) < q(w)
        BY <1>1, <1>10
      <4> HIDE DEF q
      <4> QED BY <3>0, <4>1
    <3>1. CASE n = v  BY <1>6, <3>1, <3>4
    <3>2. CASE n = w  BY <1>6, <3>2, <3>4
    <3>3. CASE n \notin {v, w}  BY <1>2, <1>6, <3>3
    <3> QED BY <3>1, <3>2, <3>3
  <2> QED BY <1>2, <1>5, <2>1, <2>2 DEF Valid, BottomUp, f, r, i
<1>11. CASE lo < hi
  <2>1. /\ f.order \in [Node -> Node] /\ f.pos \in [Node -> Node]
        /\ \A n \in Node : f.order[f.pos[n]] = n /\ f.pos[f.order[n]] = n
        /\ \A n \in Node : f.pos[n] = IF n = w THEN hi
                                      ELSE IF lo < t.pos[n] /\ t.pos[n] <= hi
                                           THEN t.pos[n] - 1 ELSE t.pos[n]
    BY <1>2, <1>4, <1>11, FixupOrder DEF f
  <2>2. f.internal \in [Slots -> Internal] /\ InternalView(f)
    BY <1>2, <1>4, <1>11, FixupInternal DEF f
  <2>3. f = [order |-> f.order, pos |-> f.pos, internal |-> f.internal]
    <3>1. ~(t.pos[MisplacedRoot(i)] < t.pos[i.w])
      BY <1>4, <1>9, <1>11
    <3> QED BY <3>1 DEF FixupAfterRotate, f
  <2>4. f \in Topo
    BY <2>1, <2>2, <2>3 DEF Topo
  \* Nodes other than w keep their places relative to each other.
  <2>5. ASSUME NEW m \in Node \ {w}, NEW n \in Node \ {w}, t.pos[m] < t.pos[n]
        PROVE  f.pos[m] < f.pos[n]
    <3>1. t.pos[m] \in Int /\ t.pos[n] \in Int /\ t.pos[m] # lo
      BY <1>0, <1>1, <1>2
    <3> QED BY <1>9, <2>1, <2>5, <3>1
  <2>6. f.pos[w] = hi /\ f.pos[v] = t.pos[v] /\ hi < t.pos[v]
    <3>1. t.pos[v] \in Int /\ v \in Node /\ w \in Node /\ hi < t.pos[v]
      BY <1>0, <1>1, <1>2
    <3> QED BY <1>3, <1>9, <2>1, <3>1
  <2>7. f.pos[x] = hi - 1
    BY <1>1, <1>2, <1>9, <1>11, <2>1
  <2>8. f.pos[y] = t.pos[y] /\ f.pos[z] = t.pos[z]
    <3>1. t.pos[y] \in Int /\ t.pos[z] \in Int /\ t.pos[y] < lo /\ t.pos[z] < lo
      BY <1>0, <1>1, <1>2
    <3> QED BY <1>1, <1>3, <1>9, <2>1, <3>1
  <2>9. ASSUME NEW n \in Internal
        PROVE  f.pos[r.left[n]] < f.pos[n] /\ f.pos[r.right[n]] < f.pos[n]
    <3>1. CASE n = v
      <4>1. f.pos[w] < f.pos[v] /\ f.pos[y] < f.pos[v]
        <5>1. t.pos[v] \in Int /\ t.pos[y] \in Int /\ t.pos[w] \in Int
              /\ t.pos[y] < t.pos[w] /\ t.pos[w] < t.pos[v]
          BY <1>0, <1>1, <1>2
        <5>2. t.pos[y] < t.pos[v]
          BY <5>1
        <5> QED BY <2>6, <2>8, <5>2
      <4> QED BY <1>6, <3>1, <4>1
    <3>2. CASE n = w
      <4>1. f.pos[x] < f.pos[w] /\ f.pos[z] < f.pos[w]
        <5>1. t.pos[z] \in Int /\ t.pos[z] < lo
          BY <1>0, <1>1, <1>2
        <5>2. hi - 1 < hi /\ t.pos[z] < hi
          BY <1>9, <1>11, <5>1
        <5> QED BY <2>6, <2>7, <2>8, <5>2
      <4> QED BY <1>6, <3>2, <4>1
    <3>3. CASE n \notin {v, w}
      <4>1. s.left[n] # w /\ s.right[n] # w
        BY <1>1, <1>2, <3>3 DEF Linked
      <4> QED BY <1>2, <1>6, <1>7, <2>5, <3>3, <4>1
    <3> QED BY <3>1, <3>2, <3>3
  <2> QED BY <1>5, <2>1, <2>2, <2>4, <2>9 DEF Valid, BottomUp, f, r, i
<1> QED BY <1>8, <1>9, <1>10, <1>11

LEMMA SwapValid ==
  ASSUME NEW s, NEW t, Valid(s, t), NEW v \in Internal
  PROVE  Valid(SwapChildren(s, v), t) /\ SwapChildren(SwapChildren(s, v), v) = s
<1> DEFINE r == SwapChildren(s, v)
<1>1. /\ s \in Shape /\ s = [left |-> s.left, right |-> s.right, parent |-> s.parent]
      /\ s.left \in [Internal -> Node] /\ s.right \in [Internal -> Node]
  BY DEF Valid, Shape
<1>2. r = [left |-> [s.left EXCEPT ![v] = s.right[v]],
           right |-> [s.right EXCEPT ![v] = s.left[v]], parent |-> s.parent]
  BY <1>1 DEF SwapChildren
<1>3. r \in Shape
  BY <1>1, <1>2 DEF Shape
<1>4. /\ r.parent = s.parent
      /\ \A n \in Internal : \/ r.left[n] = s.left[n] /\ r.right[n] = s.right[n]
                             \/ r.left[n] = s.right[n] /\ r.right[n] = s.left[n]
  BY <1>1, <1>2
<1>5. Linked(r)
  <2>1. \A n \in Node \ {Root} : {r.left[s.parent[n]], r.right[s.parent[n]]}
                               = {s.left[s.parent[n]], s.right[s.parent[n]]}
    BY <1>4 DEF Valid, Linked
  <2> QED BY <1>4, <2>1 DEF Valid, Linked
<1>6. BottomUp(r, t)
  BY <1>4 DEF Valid, BottomUp
<1>7. SwapChildren(r, v) = s
  BY <1>1, <1>2 DEF SwapChildren
<1> QED BY <1>3, <1>5, <1>6, <1>7 DEF Valid

LEMMA LayoutValid ==
  ASSUME NEW s \in Layouts
  PROVE  Valid(s, IdentityOrder)
<1>1. IdentityOrder \in Topo
  BY Constants DEF IdentityOrder, Topo
<1>2. BottomUp(s, IdentityOrder)
  <2>1. s \in Shape /\ \A n \in Internal : s.left[n] < n /\ s.right[n] < n
    BY LayoutsAssumption
  <2> QED BY <2>1, Constants DEF IdentityOrder, BottomUp, Shape
<1>3. InternalView(IdentityOrder)
  <2>1. ASSUME NEW j \in Slots, NEW k \in Slots, j < k
        PROVE  IdentityOrder.pos[IdentityOrder.internal[j]] < IdentityOrder.pos[IdentityOrder.internal[k]]
    BY <2>1, Constants DEF IdentityOrder
  <2>2. ASSUME NEW n \in Internal
        PROVE  \E k \in Slots : IdentityOrder.internal[k] = n
    <3>1. n - NumLeaves \in Slots
      BY Constants
    <3>2. IdentityOrder.internal[n - NumLeaves] = n
      BY <3>1, Constants DEF IdentityOrder
    <3> QED BY <3>1, <3>2
  <2> QED BY <2>1, <2>2 DEF InternalView
<1> QED BY <1>1, <1>2, <1>3, LayoutsAssumption DEF Valid
------------------------------------------------------------------------------
(* The invariant.  Each stacked token stands for one rotation of the trees   *)
(* the history records, every one of which is valid with the order it would  *)
(* have had; the links are the last of them and the order is the first's.    *)

Step(e, i, f) ==
  \E v \in Internal, kind \in Kinds :
    /\ CanRotate(e.shape, v, kind)
    /\ i = RotationInfo(e.shape, v, kind)
    /\ f = [shape |-> RotatePointers(e.shape, v, kind), topo |-> FixupAfterRotate(e.topo, i)]

History == /\ eager \in Seq([shape : Shape, topo : Topo])
           /\ Len(eager) = Len(pending) + 1
           /\ \A k \in 1 .. Len(eager) : Valid(eager[k].shape, eager[k].topo)
           /\ \A k \in 1 .. Len(pending) : Step(eager[k], pending[k], eager[k + 1])
           /\ eager[1].topo = topo
           /\ eager[Len(eager)].shape = shape

Rollback == /\ crossed \in Internal \cup {None}
            /\ base \in Shape
            /\ crossed # None => Len(pending) = 1 /\ crossed = pending[1].w
            /\ mode # "commit" => base = IF crossed = None THEN eager[1].shape
                                         ELSE SwapChildren(eager[1].shape, crossed)

IInv == /\ mode \in {"open", "commit", "revert"}
        /\ mode # "open" => pending # <<>>
        /\ pending \in Seq(Info)
        /\ History
        /\ Rollback

LEMMA IInvInit == Init => IInv
<1> SUFFICES ASSUME Init PROVE IInv
  OBVIOUS
<1>1. Valid(shape, topo)
  BY LayoutValid DEF Init
<1>2. eager = <<[shape |-> shape, topo |-> topo]>> /\ pending = <<>> /\ Len(eager) = 1 /\ Len(pending) = 0
  BY DEF Init
<1>3. shape \in Shape /\ topo \in Topo
  BY <1>1 DEF Valid
<1>4. eager[1] = [shape |-> shape, topo |-> topo] /\ eager \in Seq([shape : Shape, topo : Topo])
  BY <1>2, <1>3
<1>5. History
  BY <1>1, <1>2, <1>4 DEF History
<1> QED BY <1>2, <1>3, <1>4, <1>5 DEF Init, IInv, Rollback

\* Handing out a token extends the history by one rotation.
LEMMA HandOutHistory ==
  ASSUME IInv, mode = "open", NEW s, NEW v \in Internal, NEW kind \in Kinds,
         Valid(s, eager[Len(eager)].topo), CanRotate(s, v, kind),
         pending # <<>> => s = shape,
         HandOut(s, eager[Len(eager)].topo, v, kind), topo' = topo
  PROVE  /\ History' /\ pending' \in Seq(Info) /\ pending' # <<>>
         /\ pending = <<>> => eager'[1].shape = s /\ pending'[1] = RotationInfo(s, v, kind)
                              /\ Len(pending') = 1
         /\ pending # <<>> => eager'[1].shape = eager[1].shape
<1> DEFINE t == eager[Len(eager)].topo
           i == RotationInfo(s, v, kind)
           e == [shape |-> RotatePointers(s, v, kind), topo |-> FixupAfterRotate(t, i)]
           h == IF pending = <<>> THEN <<[shape |-> s, topo |-> t]>> ELSE eager
<1>1. /\ eager \in Seq([shape : Shape, topo : Topo]) /\ pending \in Seq(Info)
      /\ Len(eager) = Len(pending) + 1 /\ eager[1].topo = topo /\ Len(pending) \in Nat
  BY DEF IInv, History
<1>2. /\ shape' = e.shape /\ pending' = Append(pending, i) /\ eager' = Append(h, e)
  BY DEF HandOut
<1>3. i \in Info /\ Valid(e.shape, e.topo) /\ e \in [shape : Shape, topo : Topo]
  BY InfoTyped, RotateValid DEF Valid
<1>4. s \in Shape /\ t \in Topo /\ Valid(s, t)
  BY DEF Valid
<1>5. /\ h \in Seq([shape : Shape, topo : Topo]) /\ Len(h) = Len(pending) + 1
      /\ \A k \in 1 .. Len(h) : Valid(h[k].shape, h[k].topo)
      /\ \A k \in 1 .. Len(pending) : Step(h[k], pending[k], h[k + 1])
      /\ h[1].topo = topo /\ h[Len(h)].shape = s /\ h[Len(h)].topo = t
  <2>1. CASE pending = <<>>
    <3>1. Len(h) = 1 /\ h[1] = [shape |-> s, topo |-> t] /\ Len(pending) = 0 /\ t = topo
      BY <1>1, <2>1
    <3>2. h \in Seq([shape : Shape, topo : Topo])
      BY <1>4, <2>1
    <3> HIDE DEF h, t
    <3> QED BY <1>4, <3>1, <3>2
  <2>2. CASE pending # <<>>
    <3>1. h = eager /\ s = shape
      BY <2>2
    <3>2. /\ eager[Len(eager)].shape = shape
          /\ \A k \in 1 .. Len(eager) : Valid(eager[k].shape, eager[k].topo)
          /\ \A k \in 1 .. Len(pending) : Step(eager[k], pending[k], eager[k + 1])
      BY DEF IInv, History
    <3>3. eager[Len(eager)].topo = t
      OBVIOUS
    <3> HIDE DEF h, t
    <3> QED BY <1>1, <3>1, <3>2, <3>3
  <2> QED BY <2>1, <2>2
<1>6. Step(h[Len(h)], i, e)
  BY <1>5 DEF Step
<1> HIDE DEF h, e, i, t
<1>7. /\ eager' \in Seq([shape : Shape, topo : Topo]) /\ Len(eager') = Len(h) + 1
      /\ eager'[Len(h) + 1] = e /\ \A k \in 1 .. Len(h) : eager'[k] = h[k]
      /\ pending' \in Seq(Info) /\ Len(pending') = Len(pending) + 1 /\ pending' # <<>>
      /\ pending'[Len(pending) + 1] = i /\ \A k \in 1 .. Len(pending) : pending'[k] = pending[k]
  BY <1>1, <1>2, <1>3, <1>5
<1>8. \A k \in 1 .. Len(eager') : Valid(eager'[k].shape, eager'[k].topo)
  <2> SUFFICES ASSUME NEW k \in 1 .. Len(eager')
               PROVE  Valid(eager'[k].shape, eager'[k].topo)
    OBVIOUS
  <2>1. CASE k = Len(h) + 1
    BY <1>3, <1>7, <2>1 DEF e
  <2>2. CASE k # Len(h) + 1
    <3>1. k \in 1 .. Len(h)
      BY <1>1, <1>5, <1>7, <2>2
    <3> QED BY <1>5, <1>7, <3>1
  <2> QED BY <2>1, <2>2
<1>9. ASSUME NEW k \in 1 .. Len(pending')
      PROVE  Step(eager'[k], pending'[k], eager'[k + 1])
  <2>1. CASE k = Len(pending) + 1
    BY <1>1, <1>5, <1>6, <1>7, <2>1
  <2>2. CASE k # Len(pending) + 1
    <3>1. k \in 1 .. Len(pending) /\ k \in 1 .. Len(h) /\ k + 1 \in 1 .. Len(h)
      BY <1>1, <1>5, <1>7, <2>2
    <3> QED BY <1>5, <1>7, <3>1
  <2> QED BY <2>1, <2>2
<1>10. eager'[1] = h[1] /\ eager'[Len(eager')] = e
  BY <1>1, <1>5, <1>7
<1>11. History'
  BY <1>1, <1>2, <1>5, <1>7, <1>8, <1>9, <1>10 DEF History
<1>12. pending = <<>> => /\ eager'[1].shape = s /\ pending'[1] = RotationInfo(s, v, kind)
                        /\ Len(pending') = 1
  BY <1>5, <1>7, <1>10 DEF h, i
<1>13. pending # <<>> => eager'[1].shape = eager[1].shape
  BY <1>10 DEF h
<1> QED BY <1>7, <1>11, <1>12, <1>13

LEMMA IInvNext == IInv /\ [Next]_vars => IInv'
<1> SUFFICES ASSUME IInv, [Next]_vars PROVE IInv'
  OBVIOUS
<1>1. /\ eager \in Seq([shape : Shape, topo : Topo]) /\ pending \in Seq(Info)
      /\ Len(eager) = Len(pending) + 1 /\ Len(pending) \in Nat
      /\ \A k \in 1 .. Len(eager) : Valid(eager[k].shape, eager[k].topo)
      /\ \A k \in 1 .. Len(pending) : Step(eager[k], pending[k], eager[k + 1])
      /\ eager[1].topo = topo /\ eager[Len(eager)].shape = shape
  BY DEF IInv, History
<1>2. Valid(shape, eager[Len(eager)].topo)
  BY <1>1
<1>3. pending = <<>> => Valid(shape, topo) /\ eager[Len(eager)].topo = topo
  BY <1>1, <1>2
<1>4. pending = <<>> => base = shape /\ crossed = None
  <2>1. pending = <<>> => mode = "open" /\ Len(pending) = 0 /\ eager[1].shape = shape
    BY <1>1 DEF IInv
  <2> QED BY <2>1 DEF IInv, Rollback
<1>5. ASSUME NEW v \in Internal, NEW kind \in Kinds, Rotate(v, kind)
      PROVE  IInv'
  <2>1. /\ mode = "open" /\ crossed = None /\ CanRotate(shape, v, kind)
        /\ HandOut(shape, eager[Len(eager)].topo, v, kind)
        /\ topo' = topo /\ mode' = mode /\ crossed' = crossed
        /\ base' = IF pending = <<>> THEN shape ELSE base
    BY <1>5 DEF Rotate
  <2>2. /\ History' /\ pending' \in Seq(Info) /\ pending' # <<>>
        /\ pending = <<>> => eager'[1].shape = shape
        /\ pending # <<>> => eager'[1].shape = eager[1].shape
    BY <1>2, <2>1, HandOutHistory
  <2>3. base' = eager'[1].shape /\ base' \in Shape
    BY <1>2, <2>1, <2>2 DEF IInv, Rollback, Valid
  <2>4. Rollback'
    BY <2>1, <2>3 DEF Rollback
  <2> QED BY <2>1, <2>2, <2>4 DEF IInv
<1>6. ASSUME NEW v \in Internal, NEW kind \in Kinds, CrossedRotate(v, kind)
      PROVE  IInv'
  <2> DEFINE w == Promoted(shape, v, kind)
             s == SwapChildren(shape, w)
  <2>1. /\ mode = "open" /\ pending = <<>> /\ CanRotate(shape, v, kind)
        /\ HandOut(s, topo, v, kind) /\ crossed' = w
        /\ topo' = topo /\ mode' = mode /\ base' = shape
    BY <1>6 DEF CrossedRotate, Settled
  <2>2. Valid(shape, topo) /\ eager[Len(eager)].topo = topo
    BY <1>3, <2>1
  <2>3. w \in Internal
    BY <2>1 DEF CanRotate
  <2>4. Valid(s, topo) /\ SwapChildren(s, w) = shape
    BY <2>2, <2>3, SwapValid
  <2>5. w # v
    <3>1. topo.pos[w] < topo.pos[v]
      BY <2>1, <2>2, RotatedNodes
    <3>2. topo.pos[v] \in Int
      BY <2>2, Constants DEF Valid, Topo
    <3> QED BY <3>1, <3>2
  <2>6. Promoted(s, v, kind) = w
    BY <2>2, <2>3, <2>5 DEF SwapChildren, Promoted, Valid, Shape
  <2>7. CanRotate(s, v, kind) /\ RotationInfo(s, v, kind).w = w
    BY <2>3, <2>6 DEF CanRotate, RotationInfo
  <2>8. /\ History' /\ pending' \in Seq(Info) /\ pending' # <<>> /\ Len(pending') = 1
        /\ eager'[1].shape = s /\ pending'[1] = RotationInfo(s, v, kind)
    BY <2>1, <2>2, <2>4, <2>7, HandOutHistory
  <2>9. Rollback'
    <3>1. shape \in Shape
      BY <2>2 DEF Valid
    <3> HIDE DEF w, s
    <3> QED BY <2>1, <2>3, <2>4, <2>7, <2>8, <3>1, Constants DEF Rollback
  <2> QED BY <2>1, <2>8, <2>9 DEF IInv
<1>7. ASSUME NEW v \in Internal, Mirror(v)
      PROVE  IInv'
  <2>1. /\ mode = "open" /\ pending = <<>> /\ shape' = SwapChildren(shape, v) /\ base' = shape'
        /\ eager' = <<[shape |-> shape', topo |-> topo]>>
        /\ topo' = topo /\ pending' = pending /\ mode' = mode /\ crossed' = crossed
    BY <1>7 DEF Mirror, Settled
  <2>2. Valid(shape', topo) /\ shape' \in Shape /\ topo \in Topo
    BY <1>3, <2>1, SwapValid DEF Valid
  <2>3. /\ Len(eager') = 1 /\ eager'[1] = [shape |-> shape', topo |-> topo]
        /\ Len(pending') = 0 /\ eager' \in Seq([shape : Shape, topo : Topo])
    BY <2>1, <2>2
  <2>4. History'
    BY <2>1, <2>2, <2>3 DEF History
  <2>5. Rollback'
    BY <1>4, <2>1, <2>2, <2>3 DEF Rollback
  <2> QED BY <2>1, <2>4, <2>5 DEF IInv
<1>8. CASE Keep \/ Discard
  <2>1. History'
    BY <1>8 DEF Keep, Discard, IInv, History
  <2>2. Rollback'
    BY <1>8 DEF Keep, Discard, IInv, Rollback
  <2> QED BY <1>8, <2>1, <2>2 DEF Keep, Discard, IInv
<1>9. CASE CommitFirst
  <2>1. /\ mode = "commit" /\ pending # <<>>
        /\ topo' = FixupAfterRotate(topo, Head(pending))
        /\ pending' = Tail(pending) /\ eager' = Tail(eager)
        /\ mode' = (IF Len(pending) = 1 THEN "open" ELSE mode) /\ crossed' = None
        /\ base' = (IF Len(pending) = 1 THEN shape ELSE base) /\ shape' = shape
    BY <1>9 DEF CommitFirst, IInv
  <2>2. Len(pending) >= 1 /\ Head(pending) = pending[1] /\ Len(eager) >= 2
    BY <1>1, <2>1
  <2>3. /\ eager' \in Seq([shape : Shape, topo : Topo]) /\ Len(eager') = Len(eager) - 1
        /\ \A k \in 1 .. Len(eager') : eager'[k] = eager[k + 1]
    BY <1>1, <2>1, <2>2
  <2>4. /\ pending' \in Seq(Info) /\ Len(pending') = Len(pending) - 1
        /\ \A k \in 1 .. Len(pending') : pending'[k] = pending[k + 1]
    BY <1>1, <2>1, <2>2
  <2>5. eager[2].topo = topo'
    <3>1. Step(eager[1], pending[1], eager[2])
      BY <1>1, <2>2
    <3> QED BY <1>1, <2>1, <2>2, <3>1 DEF Step
  <2>6. /\ eager'[1].topo = topo' /\ eager'[Len(eager')].shape = shape'
    BY <1>1, <2>1, <2>2, <2>3, <2>5
  <2>7. \A k \in 1 .. Len(eager') : Valid(eager'[k].shape, eager'[k].topo)
    BY <1>1, <2>2, <2>3
  <2>8. ASSUME NEW k \in 1 .. Len(pending')
        PROVE  Step(eager'[k], pending'[k], eager'[k + 1])
    <3>1. k + 1 \in 1 .. Len(pending) /\ k \in 1 .. Len(eager') /\ k + 1 \in 1 .. Len(eager')
      BY <1>1, <2>2, <2>3, <2>4
    <3>2. Step(eager[k + 1], pending[k + 1], eager[(k + 1) + 1])
      BY <1>1, <3>1
    <3> QED BY <2>3, <2>4, <3>1, <3>2
  <2>9. History'
    BY <1>1, <2>2, <2>3, <2>4, <2>6, <2>7, <2>8 DEF History
  <2>10. mode' # "open" => pending' # <<>>
    <3>1. mode' # "open" => Len(pending) # 1
      BY <2>1
    <3>2. pending' = <<>> => Len(pending') = 0
      OBVIOUS
    <3> QED BY <1>1, <2>2, <2>4, <3>1, <3>2
  <2>11. Rollback'
    <3>1. shape \in Shape
      BY <1>2 DEF Valid
    <3>2. mode' # "commit" => base' = eager'[1].shape
      BY <1>1, <2>1, <2>3, <2>6
    <3> QED BY <2>1, <3>1, <3>2 DEF IInv, Rollback
  <2> QED BY <2>1, <2>4, <2>9, <2>10, <2>11 DEF IInv
<1>10. CASE RevertLast
  <2> DEFINE n == Len(pending)
             back == UnrotatePointers(shape, pending[n])
  <2>1. /\ mode = "revert" /\ pending # <<>>
        /\ shape' = (IF crossed = None THEN back ELSE SwapChildren(back, pending[n].w))
        /\ pending' = SubSeq(pending, 1, n - 1)
        /\ eager' = (IF n = 1 THEN <<[shape |-> shape', topo |-> topo]>>
                              ELSE SubSeq(eager, 1, Len(eager) - 1))
        /\ mode' = (IF n = 1 THEN "open" ELSE mode) /\ crossed' = None
        /\ topo' = topo /\ base' = base
    BY <1>10 DEF RevertLast, IInv
  <2>2. n \in Nat /\ n >= 1 /\ n \in 1 .. Len(eager) /\ Len(eager) = n + 1
    BY <1>1, <2>1
  <2>3. back = eager[n].shape
    <3>1. Step(eager[n], pending[n], eager[n + 1]) /\ Valid(eager[n].shape, eager[n].topo)
      BY <1>1, <2>2
    <3>2. PICK v \in Internal, kind \in Kinds :
            /\ CanRotate(eager[n].shape, v, kind)
            /\ pending[n] = RotationInfo(eager[n].shape, v, kind)
            /\ shape = RotatePointers(eager[n].shape, v, kind)
      BY <1>1, <2>2, <3>1 DEF Step
    <3> HIDE DEF n
    <3> QED BY <3>1, <3>2, UnrotateInverse
  <2>4. base \in Shape /\ base = IF crossed = None THEN eager[1].shape
                                 ELSE SwapChildren(eager[1].shape, crossed)
    BY <2>1 DEF IInv, Rollback
  <2>5. crossed # None => n = 1 /\ crossed = pending[1].w /\ crossed \in Internal
    BY DEF IInv, Rollback
  <2>6. /\ pending' \in Seq(Info) /\ Len(pending') = n - 1
        /\ \A k \in 1 .. n - 1 : pending'[k] = pending[k]
    <3>1. n - 1 \in 0 .. Len(pending) /\ 1 \in 1 .. Len(pending) + 1 /\ n - 1 \in Nat
      BY <2>2
    <3>2. pending' = SubSeq(pending, 1, n - 1)
      BY <2>1
    <3> HIDE DEF n
    <3> QED BY <1>1, <2>2, <3>1, <3>2, SubSeqProperties
  <2>7. CASE n = 1
    <3>1. shape' = base
      BY <2>1, <2>3, <2>4, <2>5, <2>7
    <3>2. Valid(eager[1].shape, topo)
      BY <1>1, <2>2
    <3>3. Valid(shape', topo) /\ topo \in Topo
      <4>1. CASE crossed = None
        BY <2>4, <3>1, <3>2, <4>1 DEF Valid
      <4>2. CASE crossed # None
        BY <2>4, <2>5, <3>1, <3>2, <4>2, SwapValid DEF Valid
      <4> QED BY <4>1, <4>2
    <3>4. /\ Len(eager') = 1 /\ eager'[1] = [shape |-> shape', topo |-> topo]
          /\ eager' \in Seq([shape : Shape, topo : Topo])
      BY <2>1, <2>4, <2>7, <3>1, <3>3
    <3>5. History'
      BY <2>1, <2>6, <2>7, <3>3, <3>4 DEF History
    <3>6. Rollback'
      BY <2>1, <2>4, <3>1, <3>4 DEF Rollback
    <3> QED BY <2>1, <2>6, <2>7, <3>5, <3>6 DEF IInv
  <2>8. CASE n # 1
    <3>1. crossed = None /\ shape' = eager[n].shape /\ n - 1 >= 1
      <4>1. n - 1 >= 1
        <5> HIDE DEF n
        <5> QED BY <2>2, <2>8
      <4> QED BY <2>1, <2>3, <2>5, <2>8, <4>1
    <3>2. /\ eager' \in Seq([shape : Shape, topo : Topo]) /\ Len(eager') = n
          /\ \A k \in 1 .. n : eager'[k] = eager[k]
      <4>1. eager' = SubSeq(eager, 1, n)
        BY <2>1, <2>2, <2>8
      <4>2. /\ 1 \in 1 .. Len(eager) + 1 /\ n \in 0 .. Len(eager)
        BY <2>2
      <4>3. n \in Int /\ 1 \in Int /\ 1 <= n /\ n - 1 + 1 = n
        BY <2>2
      <4> DEFINE S == [shape : Shape, topo : Topo]
      <4>4. eager \in Seq(S)
        BY <1>1
      <4> HIDE DEF n, S
      <4>5. \A k \in 1 .. n : eager[k] \in S
        BY <2>2, <4>4
      <4>6. /\ SubSeq(eager, 1, n) \in Seq(S)
            /\ Len(SubSeq(eager, 1, n)) = n
            /\ \A k \in 1 .. n : SubSeq(eager, 1, n)[k] = eager[k]
        BY <4>3, <4>5, SubSeqProperties
      <4> QED BY <4>1, <4>6 DEF S
    <3>3. \A k \in 1 .. Len(eager') : Valid(eager'[k].shape, eager'[k].topo)
      BY <1>1, <2>2, <3>2
    <3>4. ASSUME NEW k \in 1 .. Len(pending')
          PROVE  Step(eager'[k], pending'[k], eager'[k + 1])
      <4>1. k \in 1 .. n - 1 /\ k \in 1 .. n /\ k + 1 \in 1 .. n
        BY <2>2, <2>6
      <4>2. Step(eager[k], pending[k], eager[k + 1])
        BY <1>1, <4>1
      <4> QED BY <2>6, <3>2, <4>1, <4>2
    <3>5. eager'[1] = eager[1] /\ eager'[Len(eager')].shape = shape'
      BY <2>2, <3>1, <3>2
    <3>6. History'
      BY <1>1, <2>1, <2>2, <2>6, <3>2, <3>3, <3>4, <3>5 DEF History
    <3>7. Rollback'
      BY <2>1, <2>4, <3>1, <3>5 DEF Rollback
    <3>8. pending' # <<>>
      BY <2>2, <2>6, <3>1
    <3> QED BY <2>1, <2>6, <3>6, <3>7, <3>8 DEF IInv
  <2> QED BY <2>7, <2>8
<1>11. CASE UNCHANGED vars
  <2>1. History' /\ Rollback'
    BY <1>11 DEF vars, IInv, History, Rollback
  <2> QED BY <1>11, <2>1 DEF vars, IInv
<1> QED BY <1>5, <1>6, <1>7, <1>8, <1>9, <1>10, <1>11 DEF Next

\* Every reachable state has the history the tokens stand for.
LEMMA Inductive == Spec => []IInv
BY IInvInit, IInvNext, PTL DEF Spec
------------------------------------------------------------------------------
LEMMA SettledValid ==
  ASSUME IInv, Settled
  PROVE  Valid(shape, topo)
<1>1. Len(eager) = 1
  BY DEF IInv, History, Settled
<1> QED BY <1>1 DEF IInv, History

\* Links, order, tokens and histories keep their types.
THEOREM TypeCorrect == Spec => []TypeOK
<1>1. IInv => TypeOK
  <2> SUFFICES ASSUME IInv PROVE TypeOK
    OBVIOUS
  <2>1. Len(eager) \in 1 .. Len(eager) /\ 1 \in 1 .. Len(eager)
    BY DEF IInv, History
  <2>2. shape \in Shape /\ topo \in Topo
    BY <2>1 DEF IInv, History, Valid
  <2> QED BY <2>2 DEF IInv, History, Rollback, TypeOK
<1> QED BY Inductive, <1>1, PTL

\* After any number of trials, kept or dropped, with every token settled, the
\* links agree with each other, the maintained order is bottom-up for them, and
\* the internal view is that order filtered to the internal nodes.
THEOREM OrderValid == Spec => []ValidWhenSettled
<1>1. IInv => ValidWhenSettled
  BY SettledValid DEF ValidWhenSettled, Valid
<1> QED BY Inductive, <1>1, PTL

\* Repairing the order at the end of a trial, token by token, leaves what
\* repairing it after every rotation would have left.
THEOREM DeferredRepair == Spec => []DeferredIsEager
<1>1. IInv => DeferredIsEager
  BY DEF IInv, History, DeferredIsEager
<1> QED BY Inductive, <1>1, PTL

\* Dropping a trial gives back the links it began with.
THEOREM DropRestores == Spec => DropRestoresLinks
<1>1. ASSUME IInv, [Next]_vars, mode = "revert", mode' = "open"
      PROVE  shape' = base
  <2> DEFINE n == Len(pending)
  <2>1. RevertLast
    BY <1>1 DEF Next, vars, Rotate, CrossedRotate, Mirror, Keep, Discard, CommitFirst, Settled
  <2>2. n = 1
    BY <1>1, <2>1 DEF RevertLast
  <2>3. /\ Step(eager[1], pending[1], eager[2]) /\ Valid(eager[1].shape, eager[1].topo)
        /\ eager[2].shape = shape
    BY <1>1, <2>2 DEF IInv, History
  <2>4. UnrotatePointers(shape, pending[1]) = eager[1].shape
    BY <2>3, UnrotateInverse DEF Step
  <2>5. shape' = IF crossed = None THEN eager[1].shape
                 ELSE SwapChildren(eager[1].shape, pending[1].w)
    BY <2>1, <2>2, <2>4 DEF RevertLast
  <2>6. /\ crossed # None => crossed = pending[1].w
        /\ base = IF crossed = None THEN eager[1].shape ELSE SwapChildren(eager[1].shape, crossed)
    BY <1>1 DEF IInv, Rollback
  <2> QED BY <2>5, <2>6
<1>2. IInv /\ [Next]_vars => [(mode = "revert" /\ mode' = "open") => shape' = base]_vars
  BY <1>1
<1> QED BY Inductive, <1>2, PTL DEF Spec, DropRestoresLinks
-------------------------------------------------------------------------------
(* What a rotation leaves the leaves below a node.                            *)

\* Every non-empty set of natural numbers has a least element.
LEMMA LeastNumber ==
  ASSUME NEW s, s \subseteq Nat, s # {}
  PROVE  \E m \in s : \A k \in s : m <= k
<1>1. PICK m \in s : \A k \in s : ~(<<k, m>> \in OpToRel(<, Nat))
  BY NatLessThanWellFounded, WFMin
<1>2. ASSUME NEW k \in s, k < m PROVE <<k, m>> \in OpToRel(<, Nat)
  BY <1>2 DEF OpToRel
<1>3. \A k \in s : ~(k < m)
  BY <1>1, <1>2
<1>4. \A k \in s : k \in Nat
  OBVIOUS
<1>5. \A k \in s : m <= k
  BY <1>3, <1>4
<1> QED  BY <1>5

\* What a node inherits from its two children holds of every node: the least by
\* position of those it did not hold of would have a child before it.
LEMMA TreeInduction ==
  ASSUME NEW s, NEW t, Valid(s, t), NEW good,
         \A n \in Leaf : n \in good,
         \A n \in Internal : s.left[n] \in good /\ s.right[n] \in good => n \in good
  PROVE  Node \subseteq good
<1>1. t.pos \in [Node -> Node] /\ s.left \in [Internal -> Node] /\ s.right \in [Internal -> Node]
  BY DEF Valid, Topo, Shape
<1>2. \A n \in Internal : t.pos[s.left[n]] < t.pos[n] /\ t.pos[s.right[n]] < t.pos[n]
  BY DEF Valid, BottomUp
<1>3. Node \subseteq Nat /\ Node \subseteq Leaf \cup Internal
  BY Constants DEF Leaf
<1>4. ASSUME Node \ good # {} PROVE FALSE
  <2> DEFINE places == {t.pos[n] : n \in Node \ good}
  <2>1. places \subseteq Nat /\ places # {}
    <3>1. \A n \in Node : t.pos[n] \in Nat
      BY <1>1, <1>3
    <3> QED  BY <3>1, <1>4
  <2>2. \E m \in places : \A k \in places : m <= k
    <3> HIDE DEF places
    <3> QED  BY <2>1, LeastNumber
  <2>3. PICK n \in Node \ good : \A m \in Node \ good : t.pos[n] <= t.pos[m]
    BY <2>2
  <2>4. n \in Internal
    BY <1>3
  <2>5. s.left[n] \in Node \ good \/ s.right[n] \in Node \ good
    BY <1>1, <2>4
  <2>6. t.pos[n] \in Int /\ t.pos[s.left[n]] \in Int /\ t.pos[s.right[n]] \in Int
    <3>1. \A m \in Node : t.pos[m] \in Node
      BY <1>1
    <3>2. n \in Node /\ s.left[n] \in Node /\ s.right[n] \in Node
      BY <1>1, <2>4
    <3>3. \A m \in Node : m \in Int
      BY <1>3
    <3> QED  BY <3>1, <3>2, <3>3
  <2> QED  BY <1>2, <2>3, <2>4, <2>5, <2>6
<1> QED  BY <1>4

\* The scopes of a tree: a leaf has itself, an inner node what its children have.
Scopes(s, f) == \A n \in Node : f[n] = IF n \in Leaf THEN {n} ELSE f[s.left[n]] \cup f[s.right[n]]

\* Node sets that hold each member's parent.
Upward(s) == {up \in SUBSET Node : \A m \in up \ {Root} : s.parent[m] \in up}

\* The leaves a node is an ancestor of: those of which every upward set holds it.
Under(s) == [n \in Node |-> {l \in Leaf : \A up \in Upward(s) : l \in up => n \in up}]

\* Scopes exist.
LEMMA UnderScopes ==
  ASSUME NEW s \in Shape, Linked(s)
  PROVE  Scopes(s, Under(s))
<1>1. s.left \in [Internal -> Node] /\ s.right \in [Internal -> Node] /\ s.parent \in [Node -> Node \cup {None}]
  BY DEF Shape
<1>2. Leaf \cap Internal = {} /\ Leaf \subseteq Node /\ Internal \subseteq Node /\ Node \subseteq Leaf \cup Internal
  BY Constants DEF Leaf
<1>3. ASSUME NEW n \in Leaf PROVE Under(s)[n] = {n}
  <2>1. Node \ {n} \in Upward(s)
    BY <1>2, Constants DEF Linked, Upward
  <2>2. \A l \in Leaf : l # n => l \in Node \ {n}
    BY <1>2
  <2> QED  BY <1>2, <2>1, <2>2 DEF Under
<1>4. ASSUME NEW n \in Internal PROVE Under(s)[n] = Under(s)[s.left[n]] \cup Under(s)[s.right[n]]
  <2>1. /\ s.left[n] \in Node /\ s.right[n] \in Node /\ n \in Node
        /\ s.parent[s.left[n]] = n /\ s.parent[s.right[n]] = n
        /\ s.left[n] # Root /\ s.right[n] # Root
    <3>1. n \in Node /\ n # None
      BY <1>2, Constants
    <3>2. s.parent[s.left[n]] = n /\ s.parent[s.right[n]] = n /\ s.parent[Root] = None
      BY DEF Linked
    <3>3. s.left[n] \in Node /\ s.right[n] \in Node
      BY <1>1
    <3> QED  BY <3>1, <3>2, <3>3
  <2>2. ASSUME NEW l \in Leaf, NEW c \in {s.left[n], s.right[n]}, l \in Under(s)[c]
        PROVE  l \in Under(s)[n]
    BY <2>1, <2>2 DEF Under, Upward
  <2>3. ASSUME NEW l \in Leaf, l \in Under(s)[n], l \notin Under(s)[s.left[n]], l \notin Under(s)[s.right[n]]
        PROVE  FALSE
    <3>1. PICK a \in Upward(s) : l \in a /\ s.left[n] \notin a
      BY <2>1, <2>3 DEF Under
    <3>2. PICK b \in Upward(s) : l \in b /\ s.right[n] \notin b
      BY <2>1, <2>3 DEF Under
    <3> DEFINE up == (a \cap b) \ {n}
    <3>3. ASSUME NEW m \in up, m # Root PROVE s.parent[m] \in up
      <4>1. s.parent[m] \in a \cap b
        BY <3>3 DEF Upward
      <4>2. m \in Node /\ m # s.left[n] /\ m # s.right[n]
        BY <3>1, <3>2 DEF Upward
      <4>3. s.parent[m] # n
        BY <3>3, <4>2 DEF Linked
      <4> QED  BY <4>1, <4>3
    <3>4. up \in Upward(s)
      BY <3>3 DEF Upward
    <3>5. l \in up /\ n \notin up
      BY <1>2, <3>1, <3>2
    <3> QED  BY <2>1, <2>3, <3>4, <3>5 DEF Under
  <2>4. Under(s)[n] \subseteq Leaf /\ Under(s)[s.left[n]] \subseteq Leaf /\ Under(s)[s.right[n]] \subseteq Leaf
    BY <2>1 DEF Under
  <2> QED  BY <2>2, <2>3, <2>4
<1> QED  BY <1>2, <1>3, <1>4 DEF Scopes

\* The recursive definition gives the scopes.
LEMMA BelowIs ==
  ASSUME NEW s \in Shape, Linked(s)
  PROVE  Scopes(s, LeavesBelow(s))
<1> DEFINE eq(f) == f = [n \in Node |-> IF n \in Leaf THEN {n} ELSE f[s.left[n]] \cup f[s.right[n]]]
<1>1. Under(s) = [n \in Node |-> Under(s)[n]]
  BY DEF Under
<1>2. eq(Under(s))
  BY <1>1, UnderScopes DEF Scopes
<1>3. LeavesBelow(s) = CHOOSE f : eq(f)
  BY DEF LeavesBelow
<1>4. eq(LeavesBelow(s))
  BY <1>2, <1>3
<1> QED  BY <1>4 DEF Scopes

\* A rotation changes the leaves below the promoted node only, and the order of
\* no two leaves.
LEMMA RotateScopes ==
  ASSUME NEW s, NEW t, Valid(s, t), NEW v \in Internal, NEW kind \in Kinds, CanRotate(s, v, kind),
         NEW f, Scopes(s, f), NEW g, Scopes(RotatePointers(s, v, kind), g)
  PROVE  /\ \A n \in Node \ {Promoted(s, v, kind)} : g[n] = f[n]
         /\ \A m, n \in Leaf : LeftOf(RotatePointers(s, v, kind), g, m, n) <=> LeftOf(s, f, m, n)
<1> DEFINE w == Promoted(s, v, kind)
           x == Other(s, v, kind)
           y == Promoted(s, w, kind)
           z == Other(s, w, kind)
           r == RotatePointers(s, v, kind)
           u == FixupAfterRotate(t, RotationInfo(s, v, kind))
<1>1. /\ w \in Internal /\ x \in Node /\ y \in Node /\ z \in Node
      /\ w # x /\ y # z
      /\ s.parent[w] = v /\ s.parent[x] = v /\ s.parent[y] = w /\ s.parent[z] = w
      /\ t.pos[w] < t.pos[v] /\ t.pos[x] < t.pos[v]
      /\ t.pos[y] < t.pos[w] /\ t.pos[z] < t.pos[w]
  BY RotatedNodes
<1>2. /\ s \in Shape /\ Linked(s) /\ t.pos \in [Node -> Node]
      /\ Internal \subseteq Node /\ Node \subseteq Int
      /\ Leaf \cap Internal = {} /\ Leaf \subseteq Node /\ Node \subseteq Leaf \cup Internal
  <2>1. Leaf \cap Internal = {} /\ Leaf \subseteq Node /\ Node \subseteq Leaf \cup Internal
    BY Constants DEF Leaf
  <2> QED  BY <2>1, Constants DEF Valid, Topo
<1>3. v # w /\ x # w /\ y # w /\ z # w
  BY <1>1, <1>2
<1>4. Valid(r, u)
  BY RotateValid
<1>5. /\ kind = "Left" => /\ w = s.right[v] /\ x = s.left[v] /\ y = s.right[w] /\ z = s.left[w]
      /\ kind # "Left" => /\ w = s.left[v] /\ x = s.right[v] /\ y = s.left[w] /\ z = s.right[w]
  BY DEF Promoted, Other
<1> HIDE DEF w, x, y, z
<1>6. /\ kind = "Left" => /\ r.left[v] = w /\ r.right[v] = y /\ r.left[w] = x /\ r.right[w] = z
      /\ kind # "Left" => /\ r.left[v] = y /\ r.right[v] = w /\ r.left[w] = z /\ r.right[w] = x
      /\ \A n \in Internal \ {v, w} : r.left[n] = s.left[n] /\ r.right[n] = s.right[n]
  <2>1. CASE kind = "Left"
    BY <1>1, <1>2, <1>3, <2>1 DEF RotatePointers, w, x, y, z, Shape
  <2>2. CASE kind # "Left"
    BY <1>1, <1>2, <1>3, <2>2 DEF RotatePointers, w, x, y, z, Shape
  <2> QED BY <2>1, <2>2
<1> HIDE DEF r, u
<1>7. /\ f[v] = f[x] \cup f[w] /\ f[w] = f[y] \cup f[z]
      /\ g[v] = g[w] \cup g[y] /\ g[w] = g[x] \cup g[z]
  <2>1. /\ f[v] = f[s.left[v]] \cup f[s.right[v]] /\ f[w] = f[s.left[w]] \cup f[s.right[w]]
    BY <1>1, <1>2 DEF Scopes
  <2>2. /\ g[v] = g[r.left[v]] \cup g[r.right[v]] /\ g[w] = g[r.left[w]] \cup g[r.right[w]]
    BY <1>1, <1>2 DEF Scopes, r
  <2>3. CASE kind = "Left"
    BY <1>5, <1>6, <2>1, <2>2, <2>3
  <2>4. CASE kind # "Left"
    BY <1>5, <1>6, <2>1, <2>2, <2>4
  <2> QED  BY <2>3, <2>4
<1>8. ASSUME NEW n \in Internal \ {v, w}
      PROVE  /\ s.left[n] # w /\ s.right[n] # w
             /\ s.left[n] \in Node /\ s.right[n] \in Node
  <2>1. s.parent[s.left[n]] = n /\ s.parent[s.right[n]] = n
    BY <1>2 DEF Linked
  <2>2. s.left[n] \in Node /\ s.right[n] \in Node
    BY <1>2 DEF Shape
  <2> QED  BY <1>1, <2>1, <2>2
<1> DEFINE same == {n \in Node : n # w => g[n] = f[n]}
           good == {n \in Node : (n # w => g[n] = f[n]) /\ (n = w => x \in same /\ z \in same)}
<1>9. Node \subseteq good
  <2>1. ASSUME NEW n \in Leaf PROVE n \in good
    <3>1. f[n] = {n} /\ g[n] = {n} /\ n # w
      BY <1>1, <1>2 DEF Scopes
    <3> QED  BY <1>2, <3>1
  <2>2. ASSUME NEW n \in Internal, r.left[n] \in good, r.right[n] \in good PROVE n \in good
    <3>1. CASE n = w
      <4>1. x \in good /\ z \in good
        BY <1>6, <2>2, <3>1
      <4> QED  BY <1>1, <1>2, <3>1, <4>1
    <3>2. CASE n = v
      <4>1. w \in good /\ y \in good
        BY <1>6, <2>2, <3>2
      <4>2. g[x] = f[x] /\ g[z] = f[z] /\ g[y] = f[y]
        BY <1>3, <4>1
      <4>3. g[v] = f[v]
        BY <1>7, <4>2
      <4> QED  BY <1>2, <1>3, <3>2, <4>3
    <3>3. CASE n \notin {v, w}
      <4>1. r.left[n] = s.left[n] /\ r.right[n] = s.right[n]
        BY <1>6, <3>3
      <4>2. s.left[n] # w /\ s.right[n] # w
        BY <1>8, <3>3
      <4>3. g[s.left[n]] = f[s.left[n]] /\ g[s.right[n]] = f[s.right[n]]
        BY <2>2, <4>1, <4>2
      <4>4. n \in Node /\ n \notin Leaf
        BY <1>2
      <4>5. f[n] = f[s.left[n]] \cup f[s.right[n]]
        BY <4>4 DEF Scopes
      <4>6. g[n] = g[r.left[n]] \cup g[r.right[n]]
        BY <4>4 DEF Scopes, r
      <4> QED  BY <3>3, <4>1, <4>3, <4>4, <4>5, <4>6
    <3> QED  BY <3>1, <3>2, <3>3
  <2> HIDE DEF good
  <2> QED  BY <1>4, <2>1, <2>2, TreeInduction
<1>10. \A n \in Node \ {w} : g[n] = f[n]
  BY <1>9
<1> HIDE DEF same, good
<1>11. g[x] = f[x] /\ g[y] = f[y] /\ g[z] = f[z]
  BY <1>1, <1>3, <1>10
<1>12. ASSUME NEW m \in Leaf, NEW n \in Leaf
       PROVE  LeftOf(r, g, m, n) <=> LeftOf(s, f, m, n)
  <2> DEFINE before(k) == m \in f[s.left[k]] /\ n \in f[s.right[k]]
             after(k)  == m \in g[r.left[k]] /\ n \in g[r.right[k]]
  <2>1. (LeftOf(r, g, m, n) <=> \E k \in Internal : after(k)) /\ (LeftOf(s, f, m, n) <=> \E k \in Internal : before(k))
    BY DEF LeftOf
  <2>2. \A k \in Internal \ {v, w} : after(k) <=> before(k)
    <3> TAKE k \in Internal \ {v, w}
    <3>1. r.left[k] = s.left[k] /\ r.right[k] = s.right[k]
      BY <1>6
    <3>2. g[s.left[k]] = f[s.left[k]] /\ g[s.right[k]] = f[s.right[k]]
      BY <1>8, <1>10
    <3> QED  BY <3>1, <3>2
  <2>3. after(v) \/ after(w) <=> before(v) \/ before(w)
    <3>1. CASE kind = "Left"
      <4>1. before(v) <=> m \in f[x] /\ n \in f[y] \cup f[z]
        BY <1>5, <1>7, <3>1
      <4>2. before(w) <=> m \in f[z] /\ n \in f[y]
        BY <1>5, <3>1
      <4>3. after(v) <=> m \in f[x] \cup f[z] /\ n \in f[y]
        BY <1>6, <1>7, <1>11, <3>1
      <4>4. after(w) <=> m \in f[x] /\ n \in f[z]
        BY <1>6, <1>11, <3>1
      <4> HIDE DEF before, after
      <4> QED  BY <4>1, <4>2, <4>3, <4>4
    <3>2. CASE kind # "Left"
      <4>1. before(v) <=> m \in f[y] \cup f[z] /\ n \in f[x]
        BY <1>5, <1>7, <3>2
      <4>2. before(w) <=> m \in f[y] /\ n \in f[z]
        BY <1>5, <3>2
      <4>3. after(v) <=> m \in f[y] /\ n \in f[x] \cup f[z]
        BY <1>6, <1>7, <1>11, <3>2
      <4>4. after(w) <=> m \in f[z] /\ n \in f[x]
        BY <1>6, <1>11, <3>2
      <4> HIDE DEF before, after
      <4> QED  BY <4>1, <4>2, <4>3, <4>4
    <3> QED  BY <3>1, <3>2
  <2> HIDE DEF before, after
  <2> QED  BY <1>1, <2>1, <2>2, <2>3
<1> QED  BY <1>10, <1>12 DEF r, w

\* Swapping a node's children changes no scope.
LEMMA SwapScopes ==
  ASSUME NEW s, NEW t, Valid(s, t), NEW w \in Internal,
         NEW f, Scopes(s, f), NEW g, Scopes(SwapChildren(s, w), g)
  PROVE  \A n \in Node : g[n] = f[n]
<1> DEFINE r == SwapChildren(s, w)
           good == {n \in Node : g[n] = f[n]}
<1>1. /\ s \in Shape
      /\ Leaf \cap Internal = {} /\ Leaf \subseteq Node /\ Internal \subseteq Node
  BY Constants DEF Valid, Leaf
<1>2. Valid(r, t)
  BY SwapValid
<1>3. /\ r.left[w] = s.right[w] /\ r.right[w] = s.left[w]
      /\ \A n \in Internal \ {w} : r.left[n] = s.left[n] /\ r.right[n] = s.right[n]
  BY <1>1 DEF SwapChildren, Shape
<1> HIDE DEF r
<1>4. ASSUME NEW n \in Leaf PROVE n \in good
  BY <1>1 DEF Scopes
<1>5. ASSUME NEW n \in Internal, r.left[n] \in good, r.right[n] \in good PROVE n \in good
  <2>1. n \in Node /\ n \notin Leaf
    BY <1>1
  <2>2. f[n] = f[s.left[n]] \cup f[s.right[n]]
    BY <2>1 DEF Scopes
  <2>3. g[n] = g[r.left[n]] \cup g[r.right[n]]
    BY <2>1 DEF Scopes, r
  <2>4. g[r.left[n]] = f[r.left[n]] /\ g[r.right[n]] = f[r.right[n]]
    BY <1>5
  <2>5. {r.left[n], r.right[n]} = {s.left[n], s.right[n]}
    BY <1>3
  <2>6. f[r.left[n]] \cup f[r.right[n]] = f[s.left[n]] \cup f[s.right[n]]
    BY <2>5
  <2> QED  BY <2>1, <2>2, <2>3, <2>4, <2>6
<1>6. Node \subseteq good
  <2> HIDE DEF good
  <2> QED  BY <1>2, <1>4, <1>5, TreeInduction
<1> QED  BY <1>6

\* Rotating any node, in whatever step of a trial, keeps what the levels it does
\* not rebuild mean.
THEOREM ScopesKept == Spec => RotationKeepsScopes
<1> DEFINE Kept(v, kind) ==
             LET w == Promoted(shape, v, kind)
                 before == LeavesBelow(shape)
                 after  == LeavesBelow(shape')
             IN  /\ Rotate(v, kind) =>
                      /\ \A n \in Node \ {w} : after[n] = before[n]
                      /\ \A m, n \in Leaf : LeftOf(shape', after, m, n) <=> LeftOf(shape, before, m, n)
                 /\ CrossedRotate(v, kind) => \A n \in Node \ {w} : after[n] = before[n]
<1>1. ASSUME IInv, NEW v \in Internal, NEW kind \in Kinds PROVE Kept(v, kind)
  <2> DEFINE t == eager[Len(eager)].topo
             w == Promoted(shape, v, kind)
             r == RotatePointers(shape, v, kind)
             c == SwapChildren(shape, w)
             q == RotatePointers(c, v, kind)
  <2>1. Valid(shape, t)
    <3>1. Len(eager) \in 1 .. Len(eager)
      BY <1>1 DEF IInv, History
    <3> QED  BY <1>1, <3>1 DEF IInv, History
  <2>2. ASSUME Rotate(v, kind)
        PROVE  /\ \A n \in Node \ {w} : LeavesBelow(shape')[n] = LeavesBelow(shape)[n]
               /\ \A m, n \in Leaf : LeftOf(shape', LeavesBelow(shape'), m, n) <=> LeftOf(shape, LeavesBelow(shape), m, n)
    <3>1. CanRotate(shape, v, kind) /\ shape' = r
      BY <2>2 DEF Rotate, HandOut
    <3>2. Valid(r, FixupAfterRotate(t, RotationInfo(shape, v, kind)))
      <4> HIDE DEF t
      <4> QED  BY <2>1, <3>1, RotateValid
    <3>3. Scopes(shape, LeavesBelow(shape)) /\ Scopes(r, LeavesBelow(r))
      <4> HIDE DEF t, r
      <4> QED  BY <2>1, <3>2, BelowIs DEF Valid
    <3> HIDE DEF t
    <3> QED  BY <2>1, <3>1, <3>3, RotateScopes
  <2>3. ASSUME CrossedRotate(v, kind)
        PROVE  \A n \in Node \ {w} : LeavesBelow(shape')[n] = LeavesBelow(shape)[n]
    <3>1. CanRotate(shape, v, kind) /\ shape' = q
      BY <2>3 DEF CrossedRotate, HandOut
    <3>2. w \in Internal
      BY <3>1 DEF CanRotate
    <3>3. Valid(c, t)
      <4> HIDE DEF t, w
      <4> QED  BY <2>1, <3>2, SwapValid
    <3>4. Promoted(c, v, kind) = w /\ CanRotate(c, v, kind)
      <4>1. w # v
        <5> HIDE DEF t
        <5>1. t.pos[w] < t.pos[v] /\ t.pos \in [Node -> Node] /\ Node \subseteq Int /\ Internal \subseteq Node
          BY <2>1, <3>1, RotatedNodes, Constants DEF Valid, Topo
        <5> HIDE DEF w
        <5>2. t.pos[v] \in Int
          BY <5>1
        <5> HIDE DEF t
        <5> QED  BY <5>1, <5>2
      <4>2. c.left[v] = shape.left[v] /\ c.right[v] = shape.right[v]
        <5>1. shape \in Shape
          BY <2>1 DEF Valid
        <5> HIDE DEF w
        <5> QED  BY <3>2, <4>1, <5>1 DEF SwapChildren, Shape
      <4> HIDE DEF c
      <4> QED  BY <3>1, <4>2 DEF Promoted, CanRotate
    <3>5. Valid(q, FixupAfterRotate(t, RotationInfo(c, v, kind)))
      <4> HIDE DEF t, c
      <4> QED  BY <3>3, <3>4, RotateValid
    <3>6. Scopes(shape, LeavesBelow(shape)) /\ Scopes(c, LeavesBelow(c)) /\ Scopes(q, LeavesBelow(q))
      <4> HIDE DEF t, c, q
      <4> QED  BY <2>1, <3>3, <3>5, BelowIs DEF Valid
    <3>7. \A n \in Node : LeavesBelow(c)[n] = LeavesBelow(shape)[n]
      <4> HIDE DEF t, w
      <4> QED  BY <2>1, <3>2, <3>6, SwapScopes
    <3>8. \A n \in Node \ {w} : LeavesBelow(q)[n] = LeavesBelow(c)[n]
      <4> HIDE DEF t, c, w
      <4> QED  BY <3>3, <3>4, <3>6, RotateScopes
    <3> HIDE DEF c, q, w
    <3> QED  BY <3>1, <3>7, <3>8
  <2> QED  BY <2>2, <2>3
<1>2. IInv => \A v \in Internal, kind \in Kinds : Kept(v, kind)
  BY <1>1
<1>3. IInv /\ [Next]_vars => [\A v \in Internal, kind \in Kinds : Kept(v, kind)]_vars
  BY <1>2
<1> QED BY Inductive, <1>3, PTL DEF Spec, RotationKeepsScopes
==============================================================================
