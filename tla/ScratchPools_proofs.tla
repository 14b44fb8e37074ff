-------------------------- MODULE ScratchPools_proofs --------------------------
(* The ledger, the retention policies, the byte meter and the two level slots, *)
(* for every number of pools, buffers and sizes.  The ledger and the meter are *)
(* sums over slots and over frames.                                            *)
EXTENDS ScratchPools, FiniteSetTheorems, SequenceTheorems, TLAPS

-------------------------------------------------------------------------------
(***************************************************************************)
(* Sums over finite sets, SumFunctionOnSet of the community modules: a sum *)
(* is well defined, does not depend on the order of its terms, and follows *)
(* a change of one of them.  Induction is over the finite subsets of a set *)
(* by least counterexamples (WFMin).                                       *)
(***************************************************************************)
Pick(s) == CHOOSE x \in s : TRUE

\* g tabulates the sums of f over the subsets of S.
Tabulates(g, f, S) ==
  g = [s \in SUBSET S |-> IF s = {} THEN 0 ELSE f[Pick(s)] + g[s \ {Pick(s)}]]

NatOn(f, S) == \A x \in S : f[x] \in Nat

\* A set of finite sets has a member none of whose strict subsets it holds.
LEMMA LeastSet ==
  ASSUME NEW S, IsFiniteSet(S), NEW B, B \subseteq SUBSET S, B # {}
  PROVE  \E T \in B : \A U \in B : U \subseteq T => U = T
<1> DEFINE R == StrictSubsetOrdering(S)
<1>1. IsWellFoundedOn(R, FiniteSubsetsOf(S)) /\ B \subseteq FiniteSubsetsOf(S)
  BY FS_StrictSubsetOrderingWellFounded, FS_FiniteSubsetsOfFinite
<1>2. PICK T \in B : \A U \in B : ~(<<U, T>> \in R)
  <2> HIDE DEF R
  <2> QED  BY <1>1, WFMin
<1>3. ASSUME NEW U \in B, U \subseteq T, U # T PROVE <<U, T>> \in R
  BY <1>3 DEF StrictSubsetOrdering
<1>4. ASSUME NEW U \in B, U \subseteq T PROVE U = T
  BY <1>2, <1>3, <1>4
<1> QED  BY <1>4

LEMMA PickIn == \A s : s # {} => Pick(s) \in s
BY DEF Pick

\* Tables for two sets agree on what is below both.
LEMMA TablesAgree ==
  ASSUME NEW f, NEW S, NEW T, NEW g, NEW h, IsFiniteSet(S), Tabulates(g, f, S), Tabulates(h, f, T),
         NEW u, u \subseteq S, u \subseteq T
  PROVE  g[u] = h[u]
<1> DEFINE B == {s \in SUBSET S : s \subseteq T /\ g[s] # h[s]}
<1> SUFFICES ASSUME B # {} PROVE FALSE
  OBVIOUS
<1>1. PICK s \in B : \A r \in B : r \subseteq s => r = s
  <2> HIDE DEF B
  <2>1. B \subseteq SUBSET S
    BY DEF B
  <2> QED  BY <2>1, LeastSet
<1>2. \A r : r \subseteq S => g[r] = IF r = {} THEN 0 ELSE f[Pick(r)] + g[r \ {Pick(r)}]
  BY DEF Tabulates
<1>3. \A r : r \subseteq T => h[r] = IF r = {} THEN 0 ELSE f[Pick(r)] + h[r \ {Pick(r)}]
  BY DEF Tabulates
<1>4. s # {} /\ Pick(s) \in s
  BY <1>2, <1>3, PickIn
<1>5. s \ {Pick(s)} \notin B
  BY <1>1, <1>4
<1>6. g[s \ {Pick(s)}] = h[s \ {Pick(s)}]
  BY <1>5
<1> QED  BY <1>2, <1>3, <1>6

\* Every finite set has a table.
LEMMA TableExists ==
  ASSUME NEW f, NEW S, IsFiniteSet(S)
  PROVE  \E g : Tabulates(g, f, S)
<1> DEFINE B == {T \in SUBSET S : ~ \E g : Tabulates(g, f, T)}
<1> SUFFICES ASSUME B # {} PROVE FALSE
  OBVIOUS
<1>1. PICK T \in B : \A U \in B : U \subseteq T => U = T
  <2> HIDE DEF B
  <2>1. B \subseteq SUBSET S
    BY DEF B
  <2> QED  BY <2>1, LeastSet
<1> DEFINE Table(s) == CHOOSE h : Tabulates(h, f, s)
           At(s)    == Table(s)[s]
           g == [s \in SUBSET T |-> IF s = T THEN (IF T = {} THEN 0 ELSE f[Pick(T)] + At(T \ {Pick(T)}))
                                    ELSE At(s)]
<1>2. ASSUME NEW s, s \subseteq T, s # T PROVE Tabulates(Table(s), f, s)
  <2>1. \E h : Tabulates(h, f, s)
    BY <1>1, <1>2
  <2> QED  BY <2>1
<1>3. ASSUME NEW s, s \subseteq T, s # T, s # {} PROVE At(s) = f[Pick(s)] + At(s \ {Pick(s)})
  <2> DEFINE r == s \ {Pick(s)}
  <2>1. Pick(s) \in s /\ r \subseteq T /\ r # T /\ r \subseteq s
    BY <1>3, PickIn
  <2>2. Tabulates(Table(s), f, s) /\ Tabulates(Table(r), f, r) /\ IsFiniteSet(s)
    BY <1>2, <1>3, <2>1, FS_Subset
  <2>3. Table(s)[r] = Table(r)[r]
    <3> HIDE DEF Table, r
    <3> QED BY <2>1, <2>2, TablesAgree
  <2>4. Table(s)[s] = f[Pick(s)] + Table(s)[r]
    BY <1>3, <2>2 DEF Tabulates
  <2> QED  BY <2>3, <2>4
<1>4. {} # T => At({}) = 0
  BY <1>2 DEF Tabulates
<1>5. ASSUME NEW s \in SUBSET T PROVE g[s] = IF s = {} THEN 0 ELSE f[Pick(s)] + g[s \ {Pick(s)}]
  <2>1. CASE s = {}
    BY <1>4, <2>1
  <2>2. CASE s # {}
    <3>1. Pick(s) \in s /\ s \ {Pick(s)} \subseteq T /\ s \ {Pick(s)} # T
      BY <2>2, PickIn
    <3>2. g[s \ {Pick(s)}] = At(s \ {Pick(s)})
      BY <3>1
    <3>3. CASE s = T
      BY <2>2, <3>2, <3>3
    <3>4. CASE s # T
      <4>1. g[s] = At(s)
        BY <3>4
      <4>2. At(s) = f[Pick(s)] + At(s \ {Pick(s)})
        BY <1>3, <2>2, <3>4
      <4> QED  BY <2>2, <3>2, <4>1, <4>2
    <3> QED  BY <3>3, <3>4
  <2> QED  BY <2>1, <2>2
<1>6. Tabulates(g, f, T)
  <2>1. g = [s \in SUBSET T |-> g[s]]
    OBVIOUS
  <2> HIDE DEF g
  <2> QED  BY <1>5, <2>1 DEF Tabulates
<1> QED  BY <1>1, <1>6

\* The definition of the sum, its recursion resolved.
LEMMA SumIsTabulated ==
  ASSUME NEW f, NEW S, IsFiniteSet(S)
  PROVE  \E g : Tabulates(g, f, S) /\ SumFunctionOnSet(f, S) = g[S]
<1> DEFINE g == CHOOSE g : Tabulates(g, f, S)
<1>1. Tabulates(g, f, S)
  BY TableExists
<1>2. SumFunctionOnSet(f, S) = g[S]
  BY DEF SumFunctionOnSet, FoldFunctionOnSet, MapThenFoldSet, Tabulates, Pick
<1> QED  BY <1>1, <1>2

LEMMA SumEmpty == ASSUME NEW f PROVE SumFunctionOnSet(f, {}) = 0
<1>1. PICK g : Tabulates(g, f, {}) /\ SumFunctionOnSet(f, {}) = g[{}]
  BY SumIsTabulated, FS_EmptySet
<1> QED  BY <1>1 DEF Tabulates

LEMMA SumPick ==
  ASSUME NEW f, NEW S, IsFiniteSet(S), S # {}
  PROVE  SumFunctionOnSet(f, S) = f[Pick(S)] + SumFunctionOnSet(f, S \ {Pick(S)})
<1> DEFINE T == S \ {Pick(S)}
<1>0. IsFiniteSet(T)
  BY FS_RemoveElement
<1>1. PICK g : Tabulates(g, f, S) /\ SumFunctionOnSet(f, S) = g[S]
  BY SumIsTabulated
<1>2. PICK h : Tabulates(h, f, T) /\ SumFunctionOnSet(f, T) = h[T]
  BY <1>0, SumIsTabulated
<1>3. g[T] = h[T]
  BY <1>1, <1>2, TablesAgree
<1>4. g[S] = f[Pick(S)] + g[T]
  BY <1>1 DEF Tabulates
<1> QED  BY <1>1, <1>2, <1>3, <1>4

LEMMA SumType ==
  ASSUME NEW f, NEW S, IsFiniteSet(S), NatOn(f, S)
  PROVE  SumFunctionOnSet(f, S) \in Nat
<1> DEFINE B == {T \in SUBSET S : SumFunctionOnSet(f, T) \notin Nat}
<1> SUFFICES ASSUME B # {} PROVE FALSE
  OBVIOUS
<1>1. PICK T \in B : \A U \in B : U \subseteq T => U = T
  <2> HIDE DEF B
  <2>1. B \subseteq SUBSET S
    BY DEF B
  <2> QED  BY <2>1, LeastSet
<1>2. T # {} /\ IsFiniteSet(T) /\ Pick(T) \in T
  <2>1. SumFunctionOnSet(f, {}) \in Nat
    BY SumEmpty
  <2> QED  BY <1>1, <2>1, FS_Subset, PickIn
<1>3. SumFunctionOnSet(f, T \ {Pick(T)}) \in Nat
  BY <1>1, <1>2
<1>4. f[Pick(T)] \in Nat
  BY <1>2 DEF NatOn
<1> QED  BY <1>2, <1>3, <1>4, SumPick

\* A sum is any of its terms and the sum of the others.
LEMMA SumRemove ==
  ASSUME NEW f, NEW S, IsFiniteSet(S), NatOn(f, S), NEW x \in S
  PROVE  SumFunctionOnSet(f, S) = f[x] + SumFunctionOnSet(f, S \ {x})
<1> DEFINE Splits(T) == \A y \in T : SumFunctionOnSet(f, T) = f[y] + SumFunctionOnSet(f, T \ {y})
           B == {T \in SUBSET S : ~ Splits(T)}
<1> SUFFICES ASSUME B # {} PROVE FALSE
  OBVIOUS
<1>1. PICK T \in B : \A U \in B : U \subseteq T => U = T
  <2> HIDE DEF B
  <2>1. B \subseteq SUBSET S
    BY DEF B
  <2> QED  BY <2>1, LeastSet
<1>2. PICK y \in T : SumFunctionOnSet(f, T) # f[y] + SumFunctionOnSet(f, T \ {y})
  BY <1>1
<1> DEFINE p == Pick(T)
<1>3. p \in T /\ IsFiniteSet(T) /\ T \subseteq S
  BY <1>1, <1>2, FS_Subset, PickIn
<1>4. SumFunctionOnSet(f, T) = f[p] + SumFunctionOnSet(f, T \ {p})
  BY <1>2, <1>3, SumPick
<1>5. y # p
  BY <1>2, <1>4
<1>6. Splits(T \ {p}) /\ Splits(T \ {y})
  BY <1>1, <1>2, <1>3
<1>7. (T \ {p}) \ {y} = T \ {p, y} /\ (T \ {y}) \ {p} = T \ {p, y}
  OBVIOUS
<1>8. /\ SumFunctionOnSet(f, T \ {p}) = f[y] + SumFunctionOnSet(f, T \ {p, y})
      /\ SumFunctionOnSet(f, T \ {y}) = f[p] + SumFunctionOnSet(f, T \ {p, y})
  BY <1>2, <1>3, <1>5, <1>6, <1>7
<1>9. f[p] \in Nat /\ f[y] \in Nat /\ SumFunctionOnSet(f, T \ {p, y}) \in Nat
  <2>1. IsFiniteSet(T \ {p, y}) /\ NatOn(f, T \ {p, y})
    BY <1>3, FS_Subset DEF NatOn
  <2> QED  BY <1>2, <1>3, <2>1, SumType DEF NatOn
<1> QED  BY <1>2, <1>4, <1>8, <1>9

\* Only the terms count.
LEMMA SumEqual ==
  ASSUME NEW f, NEW g, NEW S, IsFiniteSet(S), \A x \in S : f[x] = g[x]
  PROVE  SumFunctionOnSet(f, S) = SumFunctionOnSet(g, S)
<1> DEFINE B == {T \in SUBSET S : SumFunctionOnSet(f, T) # SumFunctionOnSet(g, T)}
<1> SUFFICES ASSUME B # {} PROVE FALSE
  OBVIOUS
<1>1. PICK T \in B : \A U \in B : U \subseteq T => U = T
  <2> HIDE DEF B
  <2>1. B \subseteq SUBSET S
    BY DEF B
  <2> QED  BY <2>1, LeastSet
<1>2. T # {} /\ IsFiniteSet(T) /\ Pick(T) \in T
  BY <1>1, SumEmpty, FS_Subset, PickIn
<1>3. SumFunctionOnSet(f, T \ {Pick(T)}) = SumFunctionOnSet(g, T \ {Pick(T)})
  BY <1>1, <1>2
<1> QED  BY <1>1, <1>2, <1>3, SumPick

\* Terms that are no smaller sum up to no less.
LEMMA SumMonotone ==
  ASSUME NEW f, NEW g, NEW S, IsFiniteSet(S), NatOn(f, S), NatOn(g, S), \A x \in S : f[x] <= g[x]
  PROVE  SumFunctionOnSet(f, S) <= SumFunctionOnSet(g, S)
<1> DEFINE B == {T \in SUBSET S : ~(SumFunctionOnSet(f, T) <= SumFunctionOnSet(g, T))}
<1> SUFFICES ASSUME B # {} PROVE FALSE
  OBVIOUS
<1>1. PICK T \in B : \A U \in B : U \subseteq T => U = T
  <2> HIDE DEF B
  <2>1. B \subseteq SUBSET S
    BY DEF B
  <2> QED  BY <2>1, LeastSet
<1>2. T # {} /\ IsFiniteSet(T) /\ Pick(T) \in T /\ T \subseteq S
  <2>1. SumFunctionOnSet(f, {}) <= SumFunctionOnSet(g, {})
    BY SumEmpty
  <2> QED  BY <1>1, <2>1, FS_Subset, PickIn
<1> DEFINE r == T \ {Pick(T)}
<1>3. SumFunctionOnSet(f, r) <= SumFunctionOnSet(g, r)
  BY <1>1, <1>2
<1>4. /\ SumFunctionOnSet(f, r) \in Nat /\ SumFunctionOnSet(g, r) \in Nat
      /\ f[Pick(T)] \in Nat /\ g[Pick(T)] \in Nat /\ f[Pick(T)] <= g[Pick(T)]
  <2>1. IsFiniteSet(r) /\ NatOn(f, r) /\ NatOn(g, r)
    BY <1>2, FS_Subset DEF NatOn
  <2> HIDE DEF r
  <2> QED  BY <1>2, <2>1, SumType DEF NatOn
<1>5. /\ SumFunctionOnSet(f, T) = f[Pick(T)] + SumFunctionOnSet(f, r)
      /\ SumFunctionOnSet(g, T) = g[Pick(T)] + SumFunctionOnSet(g, r)
  BY <1>2, SumPick
<1> QED  BY <1>1, <1>3, <1>4, <1>5

\* A sum is the sum over a part and the sum over the rest.
LEMMA SumSplit ==
  ASSUME NEW f, NEW S, IsFiniteSet(S), NatOn(f, S), NEW P \in SUBSET S
  PROVE  SumFunctionOnSet(f, S) = SumFunctionOnSet(f, P) + SumFunctionOnSet(f, S \ P)
<1> DEFINE Splits(T) == SumFunctionOnSet(f, S) = SumFunctionOnSet(f, T) + SumFunctionOnSet(f, S \ T)
           B == {T \in SUBSET S : ~ Splits(T)}
<1> SUFFICES ASSUME B # {} PROVE FALSE
  OBVIOUS
<1>1. PICK T \in B : \A U \in B : U \subseteq T => U = T
  <2> HIDE DEF B
  <2>1. B \subseteq SUBSET S
    BY DEF B
  <2> QED  BY <2>1, LeastSet
<1>2. SumFunctionOnSet(f, S) \in Nat
  BY SumType
<1>3. T # {}
  <2>1. S \ {} = S
    OBVIOUS
  <2>2. Splits({})
    BY <1>2, <2>1, SumEmpty
  <2> QED  BY <1>1, <2>2
<1>4. PICK x \in T : Splits(T \ {x})
  BY <1>1, <1>3
<1>5. /\ IsFiniteSet(T) /\ NatOn(f, T) /\ IsFiniteSet(S \ (T \ {x})) /\ NatOn(f, S \ (T \ {x}))
      /\ x \in S \ (T \ {x}) /\ (S \ (T \ {x})) \ {x} = S \ T
      /\ IsFiniteSet(T \ {x}) /\ NatOn(f, T \ {x}) /\ IsFiniteSet(S \ T) /\ NatOn(f, S \ T)
  BY <1>1, FS_Subset DEF NatOn
<1>6. /\ SumFunctionOnSet(f, T) = f[x] + SumFunctionOnSet(f, T \ {x})
      /\ SumFunctionOnSet(f, S \ (T \ {x})) = f[x] + SumFunctionOnSet(f, S \ T)
  <2>1. SumFunctionOnSet(f, T) = f[x] + SumFunctionOnSet(f, T \ {x})
    BY <1>5, SumRemove
  <2>2. SumFunctionOnSet(f, S \ (T \ {x})) = f[x] + SumFunctionOnSet(f, (S \ (T \ {x})) \ {x})
    BY <1>5, SumRemove
  <2> QED  BY <1>5, <2>1, <2>2
<1>7. f[x] \in Nat /\ SumFunctionOnSet(f, T \ {x}) \in Nat /\ SumFunctionOnSet(f, S \ T) \in Nat
  BY <1>5, SumType DEF NatOn
<1>8. Splits(T)
  BY <1>4, <1>6, <1>7
<1> QED  BY <1>1, <1>8

\* Terms that are all zero sum up to zero.
LEMMA SumZero ==
  ASSUME NEW f, NEW S, IsFiniteSet(S), \A x \in S : f[x] = 0
  PROVE  SumFunctionOnSet(f, S) = 0
<1> DEFINE B == {T \in SUBSET S : SumFunctionOnSet(f, T) # 0}
<1> SUFFICES ASSUME B # {} PROVE FALSE
  OBVIOUS
<1>1. PICK T \in B : \A U \in B : U \subseteq T => U = T
  <2> HIDE DEF B
  <2>1. B \subseteq SUBSET S
    BY DEF B
  <2> QED  BY <2>1, LeastSet
<1>2. T # {} /\ IsFiniteSet(T) /\ Pick(T) \in T /\ T \subseteq S
  BY <1>1, SumEmpty, FS_Subset, PickIn
<1>3. SumFunctionOnSet(f, T \ {Pick(T)}) = 0
  BY <1>1, <1>2
<1> QED  BY <1>1, <1>2, <1>3, SumPick

\* Two sums that differ in one term differ by it.
LEMMA SumChange ==
  ASSUME NEW f, NEW g, NEW S, IsFiniteSet(S), NatOn(f, S), NatOn(g, S),
         NEW x \in S, \A y \in S \ {x} : f[y] = g[y]
  PROVE  SumFunctionOnSet(g, S) = SumFunctionOnSet(f, S) - f[x] + g[x]
<1> DEFINE r == S \ {x}
<1>1. IsFiniteSet(r) /\ NatOn(f, r)
  BY FS_Subset DEF NatOn
<1>2. SumFunctionOnSet(f, r) = SumFunctionOnSet(g, r)
  BY <1>1, SumEqual
<1>3. SumFunctionOnSet(f, S) = f[x] + SumFunctionOnSet(f, r)
  BY SumRemove
<1>4. SumFunctionOnSet(g, S) = g[x] + SumFunctionOnSet(g, r)
  BY SumRemove
<1>5. SumFunctionOnSet(f, r) \in Nat /\ f[x] \in Nat /\ g[x] \in Nat
  BY <1>1, SumType DEF NatOn
<1> QED  BY <1>2, <1>3, <1>4, <1>5

-------------------------------------------------------------------------------
(***************************************************************************)
(* The slots, the ledger and the meter.                                    *)
(***************************************************************************)
Frame == {Operation} \union [kind : {"guard"}, pool : Pool, set : WorkingSet]

\* What the slots' properties need of the state: working sets where working sets
\* belong, so that they go back to pools, and arrays in the slots.
IInv == /\ parked \in [Slot -> WorkingSet \union LevelArray \union {Vacant}]
        /\ \A p \in Pool : Parks(p) => parked[p] \in WorkingSet
        /\ \A s \in LevelSlot : Parks(s) => parked[s] \in LevelArray
        /\ frames \in Seq(Frame)

\* A slot's allowance, full or not, decides only whether its value or nothing is parked.
LEMMA ParkEffect ==
  ASSUME NEW s \in Slot, NEW value, NEW bytes, DOMAIN parked = Slot, Park(s, value, bytes)
  PROVE  \/ Admitted(s, bytes) /\ parked' = [parked EXCEPT ![s] = value]
         \/ ~Admitted(s, bytes) /\ parked' = [parked EXCEPT ![s] = Vacant]
  BY DEF Park, Unpark

\* Slots are where pools are not.
LEMMA SlotsApart == Pool \intersect LevelSlot = {} /\ LevelSlot \subseteq Slot /\ Pool \subseteq Slot
  BY PoolAssumption DEF Slot

\* The empty working set is one.
LEMMA NewSetType == NewSet \in WorkingSet
  BY DEF NewSet, WorkingSet, NoBuffer

\* The innermost frame is a frame, and a guard's is a working set of a pool.
LEMMA TopGuard ==
  ASSUME frames \in Seq(Frame), Is("guard")
  PROVE  /\ frames # <<>> /\ Len(frames) \in DOMAIN frames
         /\ Top \in [kind : {"guard"}, pool : Pool, set : WorkingSet]
<1>1. frames # <<>> /\ Top.kind = "guard"
  BY DEF Is
<1>2. Len(frames) \in DOMAIN frames /\ Top \in Frame
  BY <1>1 DEF Top
<1> QED
  BY <1>1, <1>2 DEF Frame, Operation

\* Dropping the innermost frame leaves frames.
LEMMA PoppedType ==
  ASSUME frames \in Seq(Frame), frames # <<>>
  PROVE  Popped \in Seq(Frame)
  BY DEF Popped

\* The pools hold nothing at first.
LEMMA IInvInit == Init => IInv
  BY DEF Init, IInv, Parks, Slot

\* Zeroing the meter changes what is recorded of working sets, not what is parked.
LEMMA ZeroKeeps == ASSUME IInv, Zero, frames' \in Seq(Frame) PROVE IInv'
<1> USE DEF IInv, Zero, Parks
<1>1. ASSUME NEW set \in WorkingSet PROVE CarriedOver(set) \in WorkingSet
  BY <1>1 DEF CarriedOver, WorkingSet
<1>2. DOMAIN parked' = Slot
  OBVIOUS
<1>3. ASSUME NEW p \in Pool, parked'[p] # Vacant PROVE parked'[p] \in WorkingSet
  BY <1>1, <1>3, SlotsApart
<1>4. ASSUME NEW s \in LevelSlot PROVE parked'[s] = parked[s]
  BY SlotsApart
<1> QED
  BY <1>2, <1>3, <1>4

\* Parking a working set in a pool, or an array in a slot, keeps each in its place.
LEMMA ParkKeeps ==
  ASSUME IInv, NEW s \in Slot, NEW value, NEW bytes, Park(s, value, bytes), frames' \in Seq(Frame),
         s \in Pool => value \in WorkingSet, s \in LevelSlot => value \in LevelArray
  PROVE  IInv'
<1>1. DOMAIN parked = Slot
  BY DEF IInv
<1>2. PICK v \in {value, Vacant} : parked' = [parked EXCEPT ![s] = v]
  BY <1>1, ParkEffect
<1>3. v \in WorkingSet \union LevelArray \union {Vacant}
  BY <1>2, SlotsApart DEF Slot
<1>4. parked' \in [Slot -> WorkingSet \union LevelArray \union {Vacant}]
  BY <1>2, <1>3 DEF IInv
<1> QED
  BY <1>2, <1>4, SlotsApart DEF IInv, Parks

\* Taking what is parked leaves the slot vacant.
LEMMA UnparkKeeps ==
  ASSUME IInv, NEW s \in Slot, Unpark(s), frames' \in Seq(Frame)
  PROVE  IInv'
  BY SlotsApart DEF IInv, Parks, Unpark

\* Every step leaves working sets in pools and guards, and arrays in slots.
LEMMA IInvNext == IInv /\ [Next]_vars => IInv'
<1> SUFFICES ASSUME IInv, [Next]_vars PROVE IInv'
  OBVIOUS
<1>0. frames \in Seq(Frame) /\ DOMAIN parked = Slot
  BY DEF IInv
<1>1. ASSUME UNCHANGED parked, frames' \in Seq(Frame) PROVE IInv'
  BY <1>1 DEF IInv, Parks
<1>2. CASE Begin
  <2>1. frames' \in Seq(Frame)
    BY <1>0, <1>2 DEF Begin, Frame
  <2> QED
    BY <1>1, <1>2, <2>1, ZeroKeeps DEF Begin
<1>3. CASE NextPhase
  BY <1>0, <1>1, <1>3, ZeroKeeps DEF NextPhase
<1>4. CASE End
  BY <1>0, <1>1, <1>4, PoppedType DEF End, Is
<1>5. CASE ReturnScratch
  <2>1. PICK released \in Releases(Top.pool, Top.set) :
          Park(Top.pool, Kept(Top.set, released), CapOf(Top.set, Buffer \ released))
    BY <1>5 DEF ReturnScratch
  <2>2. Top.pool \in Pool /\ Top.set \in WorkingSet /\ frames' \in Seq(Frame)
    BY <1>0, <1>5, TopGuard, PoppedType DEF ReturnScratch
  <2>3. Kept(Top.set, released) \in WorkingSet
    BY <2>2 DEF Kept, WorkingSet, NoBuffer
  <2> QED
    BY <2>1, <2>2, <2>3, ParkKeeps, SlotsApart
<1>6. CASE Discard
  BY <1>0, <1>1, <1>6, PoppedType DEF Discard, Is
<1>7. CASE Panic \/ Catch
  BY <1>0, <1>1, <1>7 DEF Panic, Catch
<1>8. CASE ClearScratch
  BY <1>0, <1>8, SlotsApart DEF ClearScratch, IInv, Parks
<1>9. ASSUME NEW p \in Pool, Checkout(p) PROVE IInv'
  <2>1. (IF parked[p] = Vacant THEN NewSet ELSE parked[p]) \in WorkingSet
    BY NewSetType DEF IInv, Parks
  <2>2. frames' \in Seq(Frame)
    BY <1>0, <1>9, <2>1 DEF Checkout, Guard, Frame
  <2> QED
    BY <1>9, <2>2, UnparkKeeps, SlotsApart DEF Checkout
<1>10. ASSUME NEW b \in Buffer, NEW cap \in Capacities, Grow(b, cap) PROVE IInv'
  <2> DEFINE held == [cap |-> cap, charged |-> Top.set[b].charged + (cap - Top.set[b].cap)]
  <2>1. /\ Len(frames) \in DOMAIN frames /\ Top \in [kind : {"guard"}, pool : Pool, set : WorkingSet]
        /\ Top.set \in WorkingSet
    BY <1>0, <1>10, TopGuard DEF Grow
  <2>2. Top.set[b] \in [cap : Nat, charged : Nat] /\ cap \in Nat /\ cap > Top.set[b].cap
    BY <1>10, <2>1, AmountAssumption DEF Grow, WorkingSet
  <2>3. held \in [cap : Nat, charged : Nat]
    BY <2>2
  <2>4. [Top EXCEPT !.set[b] = held] \in [kind : {"guard"}, pool : Pool, set : WorkingSet]
    BY <2>1, <2>3 DEF WorkingSet
  <2>5. frames' = [frames EXCEPT ![Len(frames)] = [Top EXCEPT !.set[b] = held]] /\ UNCHANGED parked
    BY <1>10 DEF Grow, Top
  <2>6. frames' \in Seq(Frame)
    <3>1. [Top EXCEPT !.set[b] = held] \in Frame
      BY <2>4 DEF Frame
    <3>2. \A f \in Frame : [frames EXCEPT ![Len(frames)] = f] \in Seq(Frame)
      BY <1>0, <2>1
    <3> QED
      BY <2>5, <3>1, <3>2
  <2> QED
    BY <1>1, <2>5, <2>6
<1>11. ASSUME NEW n \in Lengths, TakeLevels(n) PROVE IInv'
  BY <1>0, <1>1, <1>11, UnparkKeeps, SlotsApart DEF TakeLevels, Nearest, LevelSlot
<1>12. ASSUME NEW n \in Lengths, NEW arenas \in Arenas, ReturnLevels(n, arenas) PROVE IInv'
  <2>1. PICK s \in GivesWay(n) : Park(s, [length |-> n, bytes |-> n + arenas], n + arenas)
    BY <1>12 DEF ReturnLevels
  <2>2. s \in LevelSlot
    BY DEF GivesWay, LevelSlot
  <2>3. [length |-> n, bytes |-> n + arenas] \in LevelArray
    BY AmountAssumption DEF LevelArray
  <2> QED
    BY <1>0, <1>12, <2>1, <2>2, <2>3, ParkKeeps, SlotsApart DEF ReturnLevels
<1>13. CASE UNCHANGED vars
  BY <1>0, <1>1, <1>13 DEF vars
<1> QED
  BY <1>2, <1>3, <1>4, <1>5, <1>6, <1>7, <1>8, <1>9, <1>10, <1>11, <1>12, <1>13 DEF Next

------------------------------------------------------------------------------
(* The ledger.                                                                 *)

Caps(set)    == [b \in Buffer |-> set[b].cap]
Charges(set) == [b \in Buffer |-> set[b].charged]
Bytes        == [s \in Slot |-> BytesParked(s)]

\* What a working set holds in some of its buffers is a sum over them.
LEMMA CapSum ==
  ASSUME NEW set \in WorkingSet, NEW bs \in SUBSET Buffer
  PROVE  /\ CapOf(set, bs) = SumFunctionOnSet(Caps(set), bs) /\ CapOf(set, bs) \in Nat
         /\ ChargedOf(set, bs) = SumFunctionOnSet(Charges(set), bs) /\ ChargedOf(set, bs) \in Nat
         /\ NatOn(Caps(set), bs) /\ NatOn(Charges(set), bs) /\ IsFiniteSet(bs)
<1>1. IsFiniteSet(bs) /\ NatOn(Caps(set), bs) /\ NatOn(Charges(set), bs)
  BY FS_Subset, PoolAssumption DEF NatOn, Caps, Charges, WorkingSet
<1>2. CapOf(set, bs) = SumFunctionOnSet(Caps(set), bs)
  <2> DEFINE f == [b \in bs |-> set[b].cap]
  <2>1. CapOf(set, bs) = SumFunctionOnSet(f, bs)
    BY DEF CapOf, SumFunction
  <2>2. \A b \in bs : f[b] = Caps(set)[b]
    BY DEF Caps
  <2> HIDE DEF f
  <2> QED  BY <1>1, <2>1, <2>2, SumEqual
<1>3. ChargedOf(set, bs) = SumFunctionOnSet(Charges(set), bs)
  <2> DEFINE f == [b \in bs |-> set[b].charged]
  <2>1. ChargedOf(set, bs) = SumFunctionOnSet(f, bs)
    BY DEF ChargedOf, SumFunction
  <2>2. \A b \in bs : f[b] = Charges(set)[b]
    BY DEF Charges
  <2> HIDE DEF f
  <2> QED  BY <1>1, <2>1, <2>2, SumEqual
<1> QED  BY <1>1, <1>2, <1>3, SumType

\* Releasing buffers keeps the bytes and the charges of the others.
LEMMA KeptSum ==
  ASSUME NEW set \in WorkingSet, NEW released \in SUBSET Buffer
  PROVE  /\ Kept(set, released) \in WorkingSet
         /\ CapOf(Kept(set, released), Buffer) = CapOf(set, Buffer \ released)
         /\ ChargedOf(Kept(set, released), Buffer) = ChargedOf(set, Buffer \ released)
<1> DEFINE kept == Kept(set, released)
           rest == Buffer \ released
<1>1. kept \in WorkingSet
  BY DEF Kept, WorkingSet, NoBuffer
<1>2. \A b \in Buffer : /\ Caps(kept)[b] = IF b \in released THEN 0 ELSE Caps(set)[b]
                        /\ Charges(kept)[b] = IF b \in released THEN 0 ELSE Charges(set)[b]
  BY DEF Kept, Caps, Charges, NoBuffer
<1>3. Buffer \in SUBSET Buffer /\ rest \in SUBSET Buffer /\ Buffer \ released = rest
  OBVIOUS
<1> HIDE DEF kept
<1>4. /\ SumFunctionOnSet(Caps(kept), Buffer)
           = SumFunctionOnSet(Caps(kept), released) + SumFunctionOnSet(Caps(kept), rest)
      /\ SumFunctionOnSet(Charges(kept), Buffer)
           = SumFunctionOnSet(Charges(kept), released) + SumFunctionOnSet(Charges(kept), rest)
  BY <1>1, <1>3, CapSum, SumSplit
<1>5. /\ SumFunctionOnSet(Caps(kept), released) = 0 /\ SumFunctionOnSet(Charges(kept), released) = 0
      /\ SumFunctionOnSet(Caps(kept), rest) = SumFunctionOnSet(Caps(set), rest)
      /\ SumFunctionOnSet(Charges(kept), rest) = SumFunctionOnSet(Charges(set), rest)
  <2>1. IsFiniteSet(released) /\ IsFiniteSet(rest)
    BY <1>1, <1>3, CapSum
  <2>2. SumFunctionOnSet(Caps(kept), released) = 0 /\ SumFunctionOnSet(Charges(kept), released) = 0
    BY <1>2, <2>1, SumZero
  <2>3. \A b \in rest : Caps(kept)[b] = Caps(set)[b] /\ Charges(kept)[b] = Charges(set)[b]
    BY <1>2
  <2> HIDE DEF rest
  <2> QED  BY <2>1, <2>2, <2>3, SumEqual
<1>6. /\ CapOf(kept, Buffer) = SumFunctionOnSet(Caps(kept), Buffer)
      /\ ChargedOf(kept, Buffer) = SumFunctionOnSet(Charges(kept), Buffer)
      /\ CapOf(set, rest) = SumFunctionOnSet(Caps(set), rest) /\ CapOf(set, rest) \in Nat
      /\ ChargedOf(set, rest) = SumFunctionOnSet(Charges(set), rest) /\ ChargedOf(set, rest) \in Nat
  BY <1>1, <1>3, CapSum
<1>7. CapOf(kept, Buffer) = CapOf(set, rest) /\ ChargedOf(kept, Buffer) = ChargedOf(set, rest)
  BY <1>4, <1>5, <1>6
<1> QED  BY <1>1, <1>7 DEF kept

\* A working set is what is released of it and what is kept.
LEMMA SetSplit ==
  ASSUME NEW set \in WorkingSet, NEW bs \in SUBSET Buffer
  PROVE  /\ CapOf(set, Buffer) = CapOf(set, bs) + CapOf(set, Buffer \ bs)
         /\ ChargedOf(set, Buffer) = ChargedOf(set, bs) + ChargedOf(set, Buffer \ bs)
<1>1. Buffer \in SUBSET Buffer /\ Buffer \ bs \in SUBSET Buffer
  OBVIOUS
<1>2. /\ SumFunctionOnSet(Caps(set), Buffer)
           = SumFunctionOnSet(Caps(set), bs) + SumFunctionOnSet(Caps(set), Buffer \ bs)
      /\ SumFunctionOnSet(Charges(set), Buffer)
           = SumFunctionOnSet(Charges(set), bs) + SumFunctionOnSet(Charges(set), Buffer \ bs)
  BY <1>1, CapSum, SumSplit
<1> QED  BY <1>1, <1>2, CapSum

LEMMA SlotsFinite == IsFiniteSet(Slot)
<1>1. IsFiniteSet({"primary"} \union {"secondary"})
  BY FS_Singleton, FS_Union
<1>2. LevelSlot = {"primary"} \union {"secondary"}
  BY DEF LevelSlot
<1> QED  BY <1>1, <1>2, FS_Union, PoolAssumption DEF Slot

LedgerInv == /\ claim = Bytes /\ NatOn(Bytes, Slot)
             /\ ledger = SumFunctionOnSet(Bytes, Slot)
             /\ ledger <= Ceiling

\* What the parked values weigh.
LEMMA BytesTyped == IInv => NatOn(Bytes, Slot) /\ Bytes = [s \in Slot |-> Bytes[s]]
<1> SUFFICES ASSUME IInv PROVE NatOn(Bytes, Slot)
  BY DEF Bytes
<1>1. ASSUME NEW s \in Pool, Parks(s) PROVE CapOf(parked[s], Buffer) \in Nat
  BY <1>1, CapSum DEF IInv
<1>2. ASSUME NEW s \in Slot PROVE BytesParked(s) \in Nat
  <2>1. CASE ~Parks(s)
    BY <2>1 DEF BytesParked
  <2>2. CASE Parks(s) /\ s \in Pool
    BY <1>1, <2>2 DEF BytesParked
  <2>3. CASE Parks(s) /\ s \notin Pool
    <3>1. s \in LevelSlot /\ BytesParked(s) = parked[s].bytes
      BY <2>3 DEF BytesParked, Slot
    <3> QED  BY <2>3, <3>1 DEF IInv, LevelArray
  <2> QED  BY <2>1, <2>2, <2>3
<1> QED  BY <1>2 DEF NatOn, Bytes

LEMMA LedgerType == IInv /\ LedgerInv => ledger \in Nat /\ \A s \in Slot : claim[s] \in Nat /\ claim[s] <= ledger
<1> SUFFICES ASSUME IInv, LedgerInv, NEW s \in Slot
             PROVE  ledger \in Nat /\ claim[s] \in Nat /\ claim[s] <= ledger
  BY SumType, SlotsFinite DEF LedgerInv
<1>1. ledger = Bytes[s] + SumFunctionOnSet(Bytes, Slot \ {s})
  BY SlotsFinite, SumRemove DEF LedgerInv
<1>2. IsFiniteSet(Slot \ {s}) /\ NatOn(Bytes, Slot \ {s})
  BY SlotsFinite, FS_Subset DEF LedgerInv, NatOn
<1>3. SumFunctionOnSet(Bytes, Slot \ {s}) \in Nat /\ Bytes[s] \in Nat
  BY <1>2, SumType DEF LedgerInv, NatOn
<1> QED  BY <1>1, <1>3 DEF LedgerInv

\* A step that parks other bytes in one slot, and moves the ledger by the difference.
LEMMA LedgerMoves ==
  ASSUME IInv, IInv', LedgerInv, NEW s \in Slot, NEW n \in Nat,
         Bytes'[s] = n, \A r \in Slot \ {s} : Bytes'[r] = Bytes[r],
         claim' = [claim EXCEPT ![s] = n], ledger' = ledger - claim[s] + n, ledger' <= Ceiling
  PROVE  LedgerInv'
<1>1. NatOn(Bytes', Slot) /\ Bytes' = [r \in Slot |-> Bytes'[r]]
  BY BytesTyped DEF Bytes, NatOn
<1>2. NatOn(Bytes, Slot) /\ Bytes = [r \in Slot |-> Bytes[r]] /\ claim = Bytes
  BY BytesTyped DEF LedgerInv
<1>3. claim' = Bytes'
  BY <1>1, <1>2
<1>4. SumFunctionOnSet(Bytes', Slot) = SumFunctionOnSet(Bytes, Slot) - Bytes[s] + Bytes'[s]
  BY <1>1, <1>2, SumChange, SlotsFinite
<1>5. ledger' = SumFunctionOnSet(Bytes', Slot)
  BY <1>2, <1>4 DEF LedgerInv
<1> QED  BY <1>1, <1>3, <1>5 DEF LedgerInv

LEMMA UnparkLedger ==
  ASSUME IInv, IInv', LedgerInv, NEW s \in Slot, Unpark(s)
  PROVE  LedgerInv'
<1>1. parked' = [parked EXCEPT ![s] = Vacant] /\ parked \in [Slot -> WorkingSet \union LevelArray \union {Vacant}]
  BY DEF Unpark, IInv
<1>2. Bytes'[s] = 0 /\ \A r \in Slot \ {s} : Bytes'[r] = Bytes[r]
  BY <1>1 DEF Bytes, BytesParked, Parks
<1>3. ledger' = ledger - claim[s] + 0 /\ ledger' <= Ceiling
  BY LedgerType, AmountAssumption DEF Unpark, AfterDrain, LedgerInv
<1>4. claim' = [claim EXCEPT ![s] = 0]
  BY DEF Unpark
<1>5. 0 \in Nat
  OBVIOUS
<1> QED  BY <1>2, <1>3, <1>4, <1>5, LedgerMoves

\* A value that is parked is charged to the ledger with what it weighs.
LEMMA ParkLedger ==
  ASSUME IInv, IInv', LedgerInv, NEW s \in Slot, NEW value, NEW bytes \in Nat, Park(s, value, bytes),
         s \in Pool => value \in WorkingSet /\ bytes = CapOf(value, Buffer),
         s \notin Pool => value \in LevelArray /\ bytes = value.bytes
  PROVE  LedgerInv'
<1>1. CASE ~Admitted(s, bytes)
  BY <1>1, UnparkLedger DEF Park
<1>2. CASE Admitted(s, bytes)
  <2>1. /\ parked' = [parked EXCEPT ![s] = value] /\ parked \in [Slot -> WorkingSet \union LevelArray \union {Vacant}]
        /\ claim' = [claim EXCEPT ![s] = bytes] /\ ledger' = ledger - claim[s] + bytes
        /\ ledger' <= Ceiling
    BY <1>2 DEF Park, IInv, AfterDrain, Admitted
  <2>2. value # Vacant
    BY VacantAssumption
  <2>3. Bytes'[s] = bytes /\ \A r \in Slot \ {s} : Bytes'[r] = Bytes[r]
    BY <2>1, <2>2 DEF Bytes, BytesParked, Parks
  <2> QED  BY <2>1, <2>3, LedgerMoves
<1> QED  BY <1>1, <1>2

\* An operation's start forgets charges, not bytes.
LEMMA CarriedOverSums ==
  ASSUME NEW set \in WorkingSet
  PROVE  /\ CarriedOver(set) \in WorkingSet
         /\ CapOf(CarriedOver(set), Buffer) = CapOf(set, Buffer)
         /\ ChargedOf(CarriedOver(set), Buffer) = 0
<1> DEFINE over == CarriedOver(set)
<1>1. over \in WorkingSet /\ \A b \in Buffer : over[b].cap = set[b].cap /\ over[b].charged = 0
  BY DEF CarriedOver, WorkingSet
<1> HIDE DEF over
<1>2. ASSUME NEW b \in Buffer PROVE Caps(over)[b] = Caps(set)[b] /\ Charges(over)[b] = 0
  <2>1. /\ Caps(over)[b] = over[b].cap /\ Charges(over)[b] = over[b].charged
        /\ Caps(set)[b] = set[b].cap
    BY DEF Caps, Charges
  <2>2. over[b].cap = set[b].cap /\ over[b].charged = 0
    BY <1>1
  <2> QED  BY <2>1, <2>2
<1>3. /\ SumFunctionOnSet(Caps(over), Buffer) = SumFunctionOnSet(Caps(set), Buffer)
      /\ SumFunctionOnSet(Charges(over), Buffer) = 0
  BY <1>2, SumEqual, SumZero, PoolAssumption
<1>4. Buffer \in SUBSET Buffer
  OBVIOUS
<1>5. over \in WorkingSet /\ CapOf(over, Buffer) = CapOf(set, Buffer) /\ ChargedOf(over, Buffer) = 0
  BY <1>1, <1>3, <1>4, CapSum
<1> QED  BY <1>5 DEF over

LEMMA ZeroLedger ==
  ASSUME IInv, IInv', LedgerInv, Zero, UNCHANGED <<claim, ledger>>
  PROVE  LedgerInv'
<1>1. \A s \in Slot : parked'[s] = IF s \in Pool /\ Parks(s) THEN CarriedOver(parked[s]) ELSE parked[s]
  BY DEF Zero, Parks
<1>2. ASSUME NEW s \in Slot PROVE BytesParked(s)' = BytesParked(s)
  <2>1. CASE s \in Pool /\ Parks(s)
    <3>1. parked[s] \in WorkingSet /\ parked'[s] = CarriedOver(parked[s])
      BY <1>1, <2>1 DEF IInv
    <3>2. parked'[s] \in WorkingSet /\ CapOf(parked'[s], Buffer) = CapOf(parked[s], Buffer)
      BY <3>1, CarriedOverSums
    <3> QED  BY <2>1, <3>2, VacantAssumption DEF BytesParked, Parks
  <2>2. CASE ~(s \in Pool /\ Parks(s))
    BY <1>1, <2>2 DEF BytesParked, Parks
  <2> QED  BY <2>1, <2>2
<1>3. Bytes' = Bytes
  BY <1>2 DEF Bytes
<1> QED  BY <1>3 DEF LedgerInv

LEMMA LedgerInit == Init => LedgerInv
<1> SUFFICES ASSUME Init PROVE LedgerInv
  OBVIOUS
<1>1. \A s \in Slot : Bytes[s] = 0
  BY DEF Init, Bytes, BytesParked, Parks
<1>2. claim = Bytes
  BY <1>1 DEF Init, Bytes
<1>3. SumFunctionOnSet(Bytes, Slot) = 0
  BY <1>1, SumZero, SlotsFinite
<1> QED  BY <1>1, <1>2, <1>3, AmountAssumption DEF Init, LedgerInv, NatOn

\* What a drop returns to a pool: the working set but for what is released.
LEMMA ReturnedSet ==
  ASSUME IInv, ReturnScratch
  PROVE  /\ Top.pool \in Pool /\ Top.set \in WorkingSet /\ frames # <<>> /\ Top.kind = "guard"
         /\ \E released \in Releases(Top.pool, Top.set) :
              /\ released \in SUBSET Buffer
              /\ Park(Top.pool, Kept(Top.set, released), CapOf(Top.set, Buffer \ released))
              /\ meter' = Sub(meter, CapOf(Top.set, released))
              /\ overReturned' = overReturned + CapOf(Top.set, released) - ChargedOf(Top.set, released)
<1>1. Top.pool \in Pool /\ Top.set \in WorkingSet /\ frames # <<>> /\ Top.kind = "guard"
  BY TopGuard DEF ReturnScratch, IInv, Is
<1>2. Releases(Top.pool, Top.set) \subseteq SUBSET Buffer
  BY DEF Releases, Oversized
<1> QED  BY <1>1, <1>2 DEF ReturnScratch

\* No step loses or doubles a claim.
LEMMA LedgerNext == IInv /\ IInv' /\ LedgerInv /\ [Next]_vars => LedgerInv'
<1> SUFFICES ASSUME IInv, IInv', LedgerInv, [Next]_vars PROVE LedgerInv'
  OBVIOUS
<1>1. ASSUME UNCHANGED <<parked, claim, ledger>> PROVE LedgerInv'
  <2>1. Bytes' = Bytes
    BY <1>1 DEF Bytes, BytesParked, Parks
  <2> QED  BY <1>1, <2>1 DEF LedgerInv
<1>2. CASE Begin
  BY <1>1, <1>2, ZeroLedger DEF Begin
<1>3. CASE NextPhase
  BY <1>1, <1>3, ZeroLedger DEF NextPhase
<1>4. CASE End \/ Discard \/ Panic \/ Catch \/ UNCHANGED vars
  BY <1>1, <1>4 DEF End, Discard, Panic, Catch, vars
<1>5. CASE ReturnScratch
  <2>1. Top.pool \in Pool /\ Top.set \in WorkingSet
    BY <1>5, ReturnedSet
  <2>2. PICK released \in SUBSET Buffer :
          Park(Top.pool, Kept(Top.set, released), CapOf(Top.set, Buffer \ released))
    BY <1>5, ReturnedSet
  <2>3. /\ Kept(Top.set, released) \in WorkingSet
        /\ CapOf(Kept(Top.set, released), Buffer) = CapOf(Top.set, Buffer \ released)
    BY <2>1, KeptSum
  <2>4. CapOf(Top.set, Buffer \ released) \in Nat
    <3>1. Buffer \ released \in SUBSET Buffer
      OBVIOUS
    <3> QED  BY <2>1, <3>1, CapSum
  <2> QED  BY <2>1, <2>2, <2>3, <2>4, ParkLedger, SlotsApart
<1>6. CASE ClearScratch
  <2>1. \A s \in Slot : parked'[s] = Vacant
    BY <1>6 DEF ClearScratch
  <2>2. \A s \in Slot : Bytes'[s] = 0
    BY <2>1 DEF Bytes, BytesParked, Parks
  <2>3. claim' = Bytes'
    BY <1>6, <2>2 DEF ClearScratch, Bytes
  <2>4. SumFunctionOnSet(Bytes', Slot) = 0
    BY <2>2, SumZero, SlotsFinite
  <2>5. SumFunction(claim) = SumFunctionOnSet(Bytes, Slot)
    BY DEF LedgerInv, SumFunction, Bytes
  <2>6. ledger' = 0
    BY <1>6, <2>5, LedgerType DEF ClearScratch, LedgerInv
  <2> QED  BY <2>2, <2>3, <2>4, <2>6, AmountAssumption DEF LedgerInv, NatOn
<1>7. ASSUME NEW p \in Pool, Checkout(p) PROVE LedgerInv'
  BY <1>7, UnparkLedger, SlotsApart DEF Checkout
<1>8. ASSUME NEW b \in Buffer, NEW cap \in Capacities, Grow(b, cap) PROVE LedgerInv'
  BY <1>1, <1>8 DEF Grow
<1>9. ASSUME NEW n \in Lengths, TakeLevels(n) PROVE LedgerInv'
  BY <1>1, <1>9, UnparkLedger, SlotsApart DEF TakeLevels, Nearest, LevelSlot
<1>10. ASSUME NEW n \in Lengths, NEW arenas \in Arenas, ReturnLevels(n, arenas) PROVE LedgerInv'
  <2>1. PICK s \in GivesWay(n) : Park(s, [length |-> n, bytes |-> n + arenas], n + arenas)
    BY <1>10 DEF ReturnLevels
  <2>2. s \in LevelSlot /\ s \in Slot /\ s \notin Pool
    BY SlotsApart DEF GivesWay, LevelSlot
  <2>3. [length |-> n, bytes |-> n + arenas] \in LevelArray /\ n + arenas \in Nat
    BY AmountAssumption DEF LevelArray
  <2> QED  BY <2>1, <2>2, <2>3, ParkLedger
<1> QED  BY <1>2, <1>3, <1>4, <1>5, <1>6, <1>7, <1>8, <1>9, <1>10 DEF Next

\* The ledger is what is parked, within the engine's allowance, whatever nests,
\* is refused, cleared or unwound (execution/pool.rs).
THEOREM LedgerExact == Spec => []LedgerIsExact
<1>1. LedgerInv => LedgerIsExact
  BY DEF LedgerInv, LedgerIsExact, Bytes, SumFunction
<1> QED
  BY <1>1, IInvInit, IInvNext, LedgerInit, LedgerNext, PTL DEF Spec

------------------------------------------------------------------------------
(* Retention. *)

\* One buffer holds no more than its working set.
LEMMA BufferWithin ==
  ASSUME NEW set \in WorkingSet, NEW b \in Buffer
  PROVE  /\ set[b].cap \in Nat /\ set[b].cap <= CapOf(set, Buffer)
<1>1. Buffer \in SUBSET Buffer /\ Buffer \ {b} \in SUBSET Buffer
  OBVIOUS
<1>2. CapOf(set, Buffer) = Caps(set)[b] + SumFunctionOnSet(Caps(set), Buffer \ {b})
  BY <1>1, CapSum, SumRemove
<1>3. SumFunctionOnSet(Caps(set), Buffer \ {b}) \in Nat
  BY <1>1, CapSum, SumType
<1>4. Caps(set)[b] = set[b].cap /\ set[b].cap \in Nat
  BY DEF Caps, WorkingSet
<1> QED  BY <1>2, <1>3, <1>4

\* What the retention policy leaves keeps to it.
LEMMA PolicyKeeps ==
  ASSUME NEW p \in Pool, NEW set \in WorkingSet, NEW released \in Releases(p, set)
  PROVE  /\ \A b \in Buffer : Kept(set, released)[b].cap <= Retain
         /\ p \in Whole => CapOf(Kept(set, released), Buffer) <= Retain
<1>0. released \in SUBSET Buffer /\ Retain \in Nat
  BY AmountAssumption DEF Releases, Oversized
<1>1. /\ Kept(set, released) \in WorkingSet
      /\ CapOf(Kept(set, released), Buffer) = CapOf(set, Buffer \ released)
  BY <1>0, KeptSum
<1>2. CASE released = Buffer
  <2>1. \A b \in Buffer : Kept(set, released)[b].cap = 0
    BY <1>2 DEF Kept, NoBuffer
  <2>2. CapOf(Kept(set, released), Buffer) = 0
    <3>1. CapOf(set, {}) = SumFunctionOnSet(Caps(set), {}) /\ Buffer \ Buffer = {}
      BY CapSum
    <3> QED  BY <1>1, <1>2, <3>1, SumEmpty
  <2> QED  BY <1>0, <2>1, <2>2
<1>3. CASE released # Buffer /\ p \in Whole
  <2>1. released = {} /\ CapOf(set, Buffer) <= Retain
    <3>1. CapOf(set, Buffer) \in Nat
      <4>1. Buffer \in SUBSET Buffer
        OBVIOUS
      <4> QED  BY <4>1, CapSum
    <3> QED  BY <1>0, <1>3, <3>1 DEF Releases
  <2>2. CapOf(Kept(set, released), Buffer) <= Retain
    <3>1. Buffer \ released = Buffer
      BY <2>1
    <3> QED  BY <1>1, <2>1, <3>1
  <2>3. ASSUME NEW b \in Buffer PROVE Kept(set, released)[b].cap <= Retain
    <3>1. /\ Kept(set, released)[b].cap \in Nat
          /\ Kept(set, released)[b].cap <= CapOf(Kept(set, released), Buffer)
      BY <1>1, BufferWithin
    <3>2. CapOf(Kept(set, released), Buffer) \in Nat
      <4>1. Buffer \in SUBSET Buffer
        OBVIOUS
      <4> QED  BY <1>1, <4>1, CapSum
    <3> QED  BY <1>0, <2>2, <3>1, <3>2
  <2> QED  BY <2>2, <2>3
<1>4. CASE released # Buffer /\ p \notin Whole
  <2>1. released = Oversized(set)
    BY <1>4 DEF Releases
  <2>2. ASSUME NEW b \in Buffer PROVE Kept(set, released)[b].cap <= Retain
    <3>1. set[b].cap \in Nat
      BY DEF WorkingSet
    <3> QED  BY <1>0, <2>1, <3>1 DEF Kept, NoBuffer, Oversized
  <2> QED  BY <1>4, <2>2
<1> QED  BY <1>2, <1>3, <1>4

\* Every working set comes into a pool through its retention policy.
LEMMA PolicyNext == IInv /\ IInv' /\ ParkedWithinPolicy /\ [Next]_vars => ParkedWithinPolicy'
<1> SUFFICES ASSUME IInv, IInv', ParkedWithinPolicy, [Next]_vars, NEW p \in Pool, Parks(p)'
             PROVE  /\ \A b \in Buffer : parked'[p][b].cap <= Retain
                    /\ p \in Whole => CapOf(parked'[p], Buffer) <= Retain
  BY DEF ParkedWithinPolicy
<1> DEFINE Within(set) == /\ \A b \in Buffer : set[b].cap <= Retain
                          /\ p \in Whole => CapOf(set, Buffer) <= Retain
<1>0. p \in Slot /\ p \notin LevelSlot /\ p \in DOMAIN parked
  BY SlotsApart DEF IInv
<1>1. ASSUME parked'[p] = parked[p] PROVE Within(parked'[p])
  BY <1>1 DEF ParkedWithinPolicy, Parks
<1>2. ASSUME Zero PROVE Within(parked'[p])
  <2>1. parked[p] \in WorkingSet /\ parked'[p] = CarriedOver(parked[p])
    BY <1>0, <1>2 DEF Zero, Parks, IInv
  <2>2. \A b \in Buffer : parked'[p][b].cap = parked[p][b].cap
    BY <2>1 DEF CarriedOver, WorkingSet
  <2>3. CapOf(parked'[p], Buffer) = CapOf(parked[p], Buffer)
    BY <2>1, CarriedOverSums
  <2>4. Within(parked[p])
    BY <1>0, <1>2 DEF Zero, Parks, ParkedWithinPolicy
  <2> QED  BY <2>2, <2>3, <2>4
<1>3. ASSUME NEW s \in Slot, parked' = [parked EXCEPT ![s] = Vacant] PROVE Within(parked'[p])
  BY <1>0, <1>1, <1>3 DEF Parks
<1>4. CASE Begin
  BY <1>1, <1>2, <1>4 DEF Begin
<1>5. CASE NextPhase
  BY <1>1, <1>2, <1>5 DEF NextPhase
<1>6. CASE End \/ Discard \/ Panic \/ Catch \/ UNCHANGED vars
  BY <1>1, <1>6 DEF End, Discard, Panic, Catch, vars
<1>7. CASE ReturnScratch
  <2>1. Top.pool \in Pool /\ Top.set \in WorkingSet
    BY <1>7, ReturnedSet
  <2>2. PICK released \in Releases(Top.pool, Top.set) :
          Park(Top.pool, Kept(Top.set, released), CapOf(Top.set, Buffer \ released))
    BY <1>7, ReturnedSet
  <2>3. \/ parked' = [parked EXCEPT ![Top.pool] = Kept(Top.set, released)]
        \/ parked' = [parked EXCEPT ![Top.pool] = Vacant]
    BY <2>1, <2>2, SlotsApart DEF Park, Unpark
  <2>4. CASE p = Top.pool /\ parked' = [parked EXCEPT ![Top.pool] = Kept(Top.set, released)]
    <3>1. parked'[p] = Kept(Top.set, released)
      BY <1>0, <2>4
    <3>2. Within(Kept(Top.set, released))
      BY <2>1, <2>4, PolicyKeeps
    <3> QED  BY <3>1, <3>2
  <2>5. CASE p # Top.pool
    BY <1>0, <1>1, <2>3, <2>5
  <2> QED  BY <1>3, <2>1, <2>3, <2>4, <2>5, SlotsApart
<1>8. CASE ClearScratch
  BY <1>0, <1>8 DEF ClearScratch, Parks
<1>9. ASSUME NEW q \in Pool, Checkout(q) PROVE Within(parked'[p])
  BY <1>3, <1>9, SlotsApart DEF Checkout, Unpark
<1>10. ASSUME NEW b \in Buffer, NEW cap \in Capacities, Grow(b, cap) PROVE Within(parked'[p])
  BY <1>1, <1>10 DEF Grow
<1>11. ASSUME NEW n \in Lengths, TakeLevels(n) PROVE Within(parked'[p])
  BY <1>1, <1>3, <1>11, SlotsApart DEF TakeLevels, Nearest, LevelSlot, Unpark
<1>12. ASSUME NEW n \in Lengths, NEW arenas \in Arenas, ReturnLevels(n, arenas) PROVE Within(parked'[p])
  <2>1. PICK s \in GivesWay(n) : Park(s, [length |-> n, bytes |-> n + arenas], n + arenas)
    BY <1>12 DEF ReturnLevels
  <2>2. s \in LevelSlot
    BY DEF GivesWay, LevelSlot
  <2>3. parked'[p] = parked[p]
    BY <1>0, <2>1, <2>2 DEF Park, Unpark
  <2> QED  BY <1>1, <2>3
<1> QED  BY <1>4, <1>5, <1>6, <1>7, <1>8, <1>9, <1>10, <1>11, <1>12 DEF Next

\* Nothing a pool parks exceeds its retention policy, buffer by buffer or as a whole.
THEOREM PolicyKept == Spec => []ParkedWithinPolicy
<1>1. Init => ParkedWithinPolicy
  BY SlotsApart DEF Init, ParkedWithinPolicy, Parks
<1> QED
  BY <1>1, IInvInit, IInvNext, PolicyNext, PTL DEF Spec

------------------------------------------------------------------------------
(* The meter. *)

Honest(set) == \A b \in Buffer : set[b].charged <= set[b].cap

\* What frames and pools hold that this operation charged, as sums.
FrameCharges(fs) == [i \in DOMAIN fs |-> ChargedIn(fs[i])]
FrameSum(fs)     == SumFunctionOnSet(FrameCharges(fs), DOMAIN fs)
PoolCharges      == [p \in Pool |-> ChargedParked(p)]
PoolSum          == SumFunctionOnSet(PoolCharges, Pool)

\* No buffer was charged more than it holds, guards live inside an operation,
\* and the meter is short only of what it gave back for earlier operations.
MeterInv ==
  /\ meter \in Nat /\ overReturned \in Nat /\ panicking \in BOOLEAN
  /\ \A p \in Pool : Parks(p) => Honest(parked[p])
  /\ \A i \in 1 .. Len(frames) : frames[i].kind = "guard" => Honest(frames[i].set)
  /\ frames # <<>> => frames[1] = Operation
  /\ meter + overReturned >= FrameSum(frames) + PoolSum

LEMMA LiveIsSums == ChargedLive = FrameSum(frames) + PoolSum
BY DEF ChargedLive, FrameSum, FrameCharges, PoolSum, PoolCharges, SumFunction

\* Nothing is charged beyond what it holds, buffer by buffer and in sum.
LEMMA HonestSum ==
  ASSUME NEW set \in WorkingSet, Honest(set), NEW bs \in SUBSET Buffer
  PROVE  ChargedOf(set, bs) <= CapOf(set, bs)
<1>1. \A b \in bs : Charges(set)[b] <= Caps(set)[b]
  BY DEF Honest, Charges, Caps
<1>2. SumFunctionOnSet(Charges(set), bs) <= SumFunctionOnSet(Caps(set), bs)
  BY <1>1, CapSum, SumMonotone
<1> QED  BY <1>2, CapSum

LEMMA FrameChargeType == \A f \in Frame : ChargedIn(f) \in Nat /\ (f.kind # "guard" => ChargedIn(f) = 0)
<1> SUFFICES ASSUME NEW f \in Frame, f.kind = "guard" PROVE ChargedOf(f.set, Buffer) \in Nat
  BY DEF ChargedIn
<1>1. f.set \in WorkingSet /\ Buffer \in SUBSET Buffer
  BY DEF Frame, Operation
<1> QED  BY <1>1, CapSum

LEMMA FrameSumType ==
  ASSUME NEW fs \in Seq(Frame)
  PROVE  /\ DOMAIN fs = 1 .. Len(fs) /\ IsFiniteSet(DOMAIN fs) /\ NatOn(FrameCharges(fs), DOMAIN fs)
         /\ FrameSum(fs) \in Nat
<1>1. DOMAIN fs = 1 .. Len(fs) /\ Len(fs) \in Int
  OBVIOUS
<1>2. IsFiniteSet(DOMAIN fs)
  BY <1>1, FS_Interval
<1>3. NatOn(FrameCharges(fs), DOMAIN fs)
  <2>1. \A i \in DOMAIN fs : fs[i] \in Frame
    OBVIOUS
  <2> QED  BY <2>1, FrameChargeType DEF NatOn, FrameCharges
<1> QED  BY <1>1, <1>2, <1>3, SumType DEF FrameSum

\* A frame adds its own charges.
LEMMA FrameSumAppend ==
  ASSUME NEW fs \in Seq(Frame), NEW f \in Frame
  PROVE  FrameSum(Append(fs, f)) = FrameSum(fs) + ChargedIn(f)
<1> DEFINE gs == Append(fs, f)
           n  == Len(fs) + 1
<1>1. gs \in Seq(Frame) /\ Len(gs) = n /\ gs[n] = f /\ n \in 1 .. n /\ (1 .. n) \ {n} = 1 .. Len(fs)
      /\ \A i \in 1 .. Len(fs) : gs[i] = fs[i]
  OBVIOUS
<1> HIDE DEF gs
<1>2. DOMAIN gs = 1 .. n
  BY <1>1, FrameSumType
<1>3. FrameSum(gs) = FrameCharges(gs)[n] + SumFunctionOnSet(FrameCharges(gs), 1 .. Len(fs))
  <2>1. FrameSum(gs) = FrameCharges(gs)[n] + SumFunctionOnSet(FrameCharges(gs), (1 .. n) \ {n})
    BY <1>1, <1>2, FrameSumType, SumRemove DEF FrameSum
  <2> QED  BY <1>1, <2>1
<1>4. FrameCharges(gs)[n] = ChargedIn(f)
  BY <1>1, <1>2 DEF FrameCharges
<1>5. \A i \in 1 .. Len(fs) : FrameCharges(gs)[i] = FrameCharges(fs)[i]
  BY <1>1, <1>2 DEF FrameCharges
<1>6. SumFunctionOnSet(FrameCharges(gs), 1 .. Len(fs)) = FrameSum(fs)
  BY <1>5, FrameSumType, SumEqual DEF FrameSum
<1>7. FrameSum(gs) = FrameSum(fs) + ChargedIn(f)
  BY <1>3, <1>4, <1>6, FrameSumType, FrameChargeType
<1> QED  BY <1>7 DEF gs

\* Dropping the innermost frame takes its charges away.
LEMMA FrameSumPopped ==
  ASSUME frames \in Seq(Frame), frames # <<>>
  PROVE  FrameSum(frames) = FrameSum(Popped) + ChargedIn(Top)
<1>1. Popped \in Seq(Frame) /\ Top \in Frame /\ frames = Append(Popped, Top)
  BY DEF Popped, Top
<1> QED  BY <1>1, FrameSumAppend

LEMMA PoppedFacts ==
  ASSUME frames \in Seq(Frame), frames # <<>>
  PROVE  /\ Popped \in Seq(Frame) /\ Len(Popped) = Len(frames) - 1 /\ Len(frames) \in Nat \ {0}
         /\ \A i \in 1 .. Len(Popped) : Popped[i] = frames[i]
         /\ Popped # <<>> => Popped[1] = frames[1]
<1> DEFINE n == Len(frames) - 1
           front == SubSeq(frames, 1, n)
<1>1. Len(frames) \in Nat \ {0} /\ n \in Nat
  OBVIOUS
<1>2. front \in Seq(Frame)
  BY <1>1
<1>3. Len(front) = n
  <2>1. n \in Int /\ \A i \in 1 .. n : frames[i] \in Frame
    BY <1>1
  <2>2. Len(front) = IF 1 <= n THEN n - 1 + 1 ELSE 0
    BY <2>1, SubSeqProperties
  <2> HIDE DEF n, front
  <2> QED  BY <1>1, <2>2
<1>4. ASSUME NEW i \in 1 .. n PROVE front[i] = frames[i]
  BY <1>1
<1> HIDE DEF front
<1>5. front # <<>> => 1 \in 1 .. n
  BY <1>1, <1>2, <1>3
<1>6. Popped = front
  BY DEF Popped, front
<1> QED  BY <1>1, <1>2, <1>3, <1>4, <1>5, <1>6

\* What the pools hold, and how it moves with one pool.
LEMMA PoolChargeType == IInv => NatOn(PoolCharges, Pool) /\ PoolSum \in Nat
<1> SUFFICES ASSUME IInv PROVE NatOn(PoolCharges, Pool)
  BY SumType, PoolAssumption DEF PoolSum
<1>1. ASSUME NEW p \in Pool, Parks(p) PROVE ChargedOf(parked[p], Buffer) \in Nat
  <2>1. parked[p] \in WorkingSet /\ Buffer \in SUBSET Buffer
    BY <1>1 DEF IInv
  <2> QED  BY <2>1, CapSum
<1> QED  BY <1>1 DEF NatOn, PoolCharges, ChargedParked

LEMMA PoolSumMoves ==
  ASSUME IInv, NEW p \in Pool, \A q \in Pool \ {p} : parked'[q] = parked[q], ChargedParked(p)' \in Nat
  PROVE  /\ PoolSum' = PoolSum - ChargedParked(p) + ChargedParked(p)'
         /\ PoolSum \in Nat /\ ChargedParked(p) \in Nat /\ PoolSum' \in Nat
<1>1. \A q \in Pool \ {p} : PoolCharges[q] = PoolCharges'[q]
  BY DEF PoolCharges, ChargedParked, Parks
<1>2. NatOn(PoolCharges, Pool) /\ NatOn(PoolCharges', Pool)
  <2>1. NatOn(PoolCharges, Pool)
    BY PoolChargeType
  <2>2. PoolCharges'[p] \in Nat
    BY DEF PoolCharges
  <2> QED  BY <1>1, <2>1, <2>2 DEF NatOn
<1>3. SumFunctionOnSet(PoolCharges', Pool)
        = SumFunctionOnSet(PoolCharges, Pool) - PoolCharges[p] + PoolCharges'[p]
  BY <1>1, <1>2, SumChange, PoolAssumption
<1>4. PoolCharges[p] = ChargedParked(p) /\ PoolCharges'[p] = ChargedParked(p)'
  BY DEF PoolCharges
<1>5. PoolSum \in Nat /\ PoolSum' \in Nat /\ PoolCharges[p] \in Nat
  BY <1>2, SumType, PoolAssumption DEF PoolSum, NatOn
<1> QED  BY <1>3, <1>4, <1>5 DEF PoolSum

LEMMA PoolSumKept ==
  ASSUME \A q \in Pool : parked'[q] = parked[q]
  PROVE  PoolSum' = PoolSum
<1>1. PoolCharges' = PoolCharges
  BY DEF PoolCharges, ChargedParked, Parks
<1> QED  BY <1>1 DEF PoolSum

\* A new operation, outermost, finds no charge left anywhere.
LEMMA ZeroPoolSum ==
  ASSUME IInv, Zero
  PROVE  PoolSum' = 0 /\ \A p \in Pool : Parks(p)' => Honest(parked'[p])
<1>1. ASSUME NEW p \in Pool, Parks(p)' PROVE /\ Honest(parked'[p])
                                            /\ ChargedOf(parked'[p], Buffer) = 0
  <2>1. parked[p] \in WorkingSet /\ parked'[p] = CarriedOver(parked[p])
    BY <1>1, SlotsApart DEF Zero, Parks, IInv
  <2>2. \A b \in Buffer : parked'[p][b].charged = 0 /\ parked'[p][b].cap \in Nat
    BY <2>1 DEF CarriedOver, WorkingSet
  <2> QED  BY <2>1, <2>2, CarriedOverSums DEF Honest
<1>2. \A p \in Pool : PoolCharges'[p] = 0
  BY <1>1 DEF PoolCharges, ChargedParked
<1> QED  BY <1>1, <1>2, SumZero, PoolAssumption DEF PoolSum

\* Outside every operation there is no frame, and inside exactly one, its frame
\* innermost, there is no other.
LEMMA DepthFrames ==
  ASSUME frames \in Seq(Frame), frames # <<>> => frames[1] = Operation
  PROVE  /\ Depth = 0 <=> frames = <<>>
         /\ Depth = 1 /\ Is("operation") => Len(frames) = 1
<1> DEFINE ops == {i \in DOMAIN frames : frames[i].kind = "operation"}
<1>1. IsFiniteSet(ops) /\ ops \subseteq 1 .. Len(frames)
  <2>1. DOMAIN frames = 1 .. Len(frames) /\ IsFiniteSet(DOMAIN frames)
    BY FrameSumType
  <2> QED  BY <2>1, FS_Subset
<1>2. frames = <<>> => ops = {}
  BY <1>1
<1>3. frames # <<>> => 1 \in ops
  BY DEF Operation
<1>4. Is("operation") => Len(frames) \in ops
  BY DEF Is, Top
<1>5. Depth = Cardinality(ops)
  BY DEF Depth
<1>6. Depth = 0 <=> ops = {}
  BY <1>1, <1>5, FS_EmptySet
<1>7. Depth = 1 => \E x : ops = {x}
  BY <1>1, <1>5, FS_Singleton
<1>8. Is("operation") => frames # <<>>
  BY DEF Is
<1>9. Depth = 0 <=> frames = <<>>
  BY <1>2, <1>3, <1>6
<1>10. ASSUME Depth = 1, Is("operation") PROVE Len(frames) = 1
  <2>1. 1 \in ops /\ Len(frames) \in ops
    BY <1>3, <1>4, <1>8, <1>10
  <2>2. PICK x : ops = {x}
    BY <1>7, <1>10
  <2> HIDE DEF ops
  <2> QED  BY <2>1, <2>2
<1> QED  BY <1>9, <1>10

\* The new working set a vacant pool gives was charged for nothing.
LEMMA NewSetCharges == NewSet \in WorkingSet /\ Honest(NewSet) /\ ChargedOf(NewSet, Buffer) = 0
<1>1. NewSet \in WorkingSet /\ Honest(NewSet)
  BY NewSetType DEF Honest, NewSet, NoBuffer
<1>2. \A b \in Buffer : Charges(NewSet)[b] = 0
  BY DEF Charges, NewSet, NoBuffer
<1>3. SumFunctionOnSet(Charges(NewSet), Buffer) = 0
  BY <1>2, SumZero, PoolAssumption
<1>4. Buffer \in SUBSET Buffer
  OBVIOUS
<1> QED  BY <1>1, <1>3, <1>4, CapSum

LEMMA MeterInit == Init => MeterInv
<1> SUFFICES ASSUME Init PROVE MeterInv
  OBVIOUS
<1>1. frames = <<>> /\ <<>> \in Seq(Frame) /\ \A p \in Pool : ~Parks(p)
  BY SlotsApart DEF Init, Parks
<1>2. FrameSum(frames) = 0
  BY <1>1, SumEmpty DEF FrameSum
<1>3. PoolSum = 0
  <2>1. \A p \in Pool : PoolCharges[p] = 0
    BY <1>1 DEF PoolCharges, ChargedParked
  <2> QED  BY <2>1, SumZero, PoolAssumption DEF PoolSum
<1>4. meter = 0 /\ overReturned = 0 /\ meter + overReturned >= FrameSum(frames) + PoolSum
  BY <1>2, <1>3 DEF Init
<1>5. \A i \in 1 .. Len(frames) : FALSE
  BY <1>1
<1>6. panicking \in BOOLEAN
  BY DEF Init
<1> QED  BY <1>1, <1>4, <1>5, <1>6 DEF MeterInv

\* Steps that leave the frames alone and the pools no fuller.
LEMMA MeterQuiet ==
  ASSUME IInv, IInv', MeterInv, meter' \in Nat, meter' >= meter, panicking' \in BOOLEAN,
         UNCHANGED <<frames, overReturned>>,
         \A p \in Pool : parked'[p] = parked[p] \/ parked'[p] = Vacant,
         PoolSum' <= PoolSum
  PROVE  MeterInv'
<1>1. \A p \in Pool : Parks(p)' => Honest(parked'[p])
  BY DEF MeterInv, Parks
<1>2. FrameSum(frames') = FrameSum(frames) /\ FrameSum(frames) \in Nat /\ PoolSum \in Nat
  BY FrameSumType, PoolChargeType DEF IInv
<1>3. PoolSum' \in Nat
  <2>1. \A p \in Pool : PoolCharges'[p] = 0 \/ PoolCharges'[p] = PoolCharges[p]
    BY DEF PoolCharges, ChargedParked, Parks
  <2>2. NatOn(PoolCharges', Pool)
    BY <2>1, PoolChargeType DEF NatOn
  <2> QED  BY <2>2, SumType, PoolAssumption DEF PoolSum
<1>4. meter' + overReturned' >= FrameSum(frames') + PoolSum'
  BY <1>2, <1>3 DEF MeterInv
<1> QED  BY <1>1, <1>4 DEF MeterInv

\* Emptying slots leaves no more charged in the pools.
LEMMA PoolSumFalls ==
  ASSUME IInv, \A p \in Pool : parked'[p] = parked[p] \/ parked'[p] = Vacant
  PROVE  PoolSum' <= PoolSum
<1>1. \A p \in Pool : PoolCharges'[p] = 0 \/ PoolCharges'[p] = PoolCharges[p]
  BY DEF PoolCharges, ChargedParked, Parks
<1>2. NatOn(PoolCharges, Pool) /\ NatOn(PoolCharges', Pool) /\ \A p \in Pool : PoolCharges'[p] <= PoolCharges[p]
  BY <1>1, PoolChargeType DEF NatOn
<1> QED  BY <1>2, SumMonotone, PoolAssumption DEF PoolSum

\* An operation begins or changes phase.
LEMMA MeterBegin == ASSUME IInv, IInv', MeterInv, Begin PROVE MeterInv'
<1>1. /\ frames \in Seq(Frame) /\ Operation \in Frame /\ frames' = Append(frames, Operation)
      /\ UNCHANGED panicking
  BY DEF IInv, Begin, Frame
<1>2. FrameSum(frames') = FrameSum(frames) /\ FrameSum(frames) \in Nat
  <2>1. ChargedIn(Operation) = 0
    BY DEF ChargedIn, Operation
  <2> QED  BY <1>1, <2>1, FrameSumAppend, FrameSumType
<1>3. \A i \in 1 .. Len(frames') : frames'[i].kind = "guard" => Honest(frames'[i].set)
  <2>1. Len(frames') = Len(frames) + 1 /\ Len(frames) \in Nat /\ frames'[Len(frames) + 1] = Operation
        /\ \A i \in 1 .. Len(frames) : frames'[i] = frames[i]
    BY <1>1
  <2> QED  BY <2>1 DEF MeterInv, Operation
<1>4. frames'[1] = Operation
  BY <1>1 DEF MeterInv
<1>5. CASE Depth = 0
  <2>1. frames = <<>> /\ Zero
    BY <1>1, <1>5, DepthFrames DEF Begin, MeterInv
  <2>2. FrameSum(frames) = 0
    BY <2>1, SumEmpty DEF FrameSum
  <2>3. PoolSum' = 0 /\ \A p \in Pool : Parks(p)' => Honest(parked'[p])
    BY <2>1, ZeroPoolSum
  <2>4. meter' = 0 /\ overReturned' = 0
    BY <2>1 DEF Zero
  <2>5. meter' + overReturned' >= FrameSum(frames') + PoolSum'
    BY <1>2, <2>2, <2>3, <2>4
  <2> QED  BY <1>1, <1>3, <1>4, <2>3, <2>4, <2>5 DEF MeterInv
<1>6. CASE Depth # 0
  <2>1. UNCHANGED <<meter, overReturned, parked>>
    BY <1>6 DEF Begin
  <2>2. PoolSum' = PoolSum
    BY <2>1, PoolSumKept
  <2> QED  BY <1>1, <1>2, <1>3, <1>4, <2>1, <2>2 DEF MeterInv, Parks
<1> QED  BY <1>5, <1>6

LEMMA MeterPhase == ASSUME IInv, IInv', MeterInv, NextPhase PROVE MeterInv'
<1>1. frames \in Seq(Frame) /\ UNCHANGED <<frames, panicking>> /\ Is("operation")
  BY DEF IInv, NextPhase
<1>2. CASE Depth = 1
  <2>1. Zero /\ Len(frames) = 1 /\ Top.kind = "operation"
    BY <1>1, <1>2, DepthFrames DEF NextPhase, MeterInv, Is
  <2>2. PoolSum' = 0 /\ (\A p \in Pool : Parks(p)' => Honest(parked'[p])) /\ meter' = 0 /\ overReturned' = 0
    BY <2>1, ZeroPoolSum DEF Zero
  <2>3. FrameSum(frames) = 0
    <3>1. DOMAIN frames = 1 .. 1 /\ Top = frames[1]
      BY <1>1, <2>1 DEF Top
    <3>2. Top \in Frame
      BY <1>1, <3>1
    <3>3. \A i \in DOMAIN frames : FrameCharges(frames)[i] = 0
      BY <2>1, <3>1, <3>2, FrameChargeType DEF FrameCharges
    <3> QED  BY <1>1, <3>3, SumZero, FrameSumType DEF FrameSum
  <2>4. meter' + overReturned' >= FrameSum(frames') + PoolSum'
    BY <1>1, <2>2, <2>3
  <2> QED  BY <1>1, <2>2, <2>4 DEF MeterInv
<1>3. CASE Depth # 1
  <2>1. UNCHANGED <<meter, overReturned, parked>>
    BY <1>3 DEF NextPhase
  <2>2. PoolSum' = PoolSum
    BY <2>1, PoolSumKept
  <2> QED  BY <1>1, <2>1, <2>2 DEF MeterInv, Parks
<1> QED  BY <1>2, <1>3

\* A drop in a panic, or the end of an operation, takes a frame's charges away.
LEMMA MeterPopped ==
  ASSUME IInv, IInv', MeterInv, frames # <<>>, frames' = Popped,
         UNCHANGED <<parked, meter, panicking, overReturned>>
  PROVE  MeterInv'
<1>1. frames \in Seq(Frame) /\ Top \in Frame
  BY DEF IInv, Top
<1>2. FrameSum(frames) = FrameSum(frames') + ChargedIn(Top) /\ ChargedIn(Top) \in Nat /\ FrameSum(frames') \in Nat
  BY <1>1, FrameSumPopped, FrameChargeType, PoppedFacts, FrameSumType
<1>3. PoolSum' = PoolSum /\ PoolSum \in Nat
  BY PoolSumKept, PoolChargeType
<1>4. meter' + overReturned' >= FrameSum(frames') + PoolSum'
  BY <1>2, <1>3 DEF MeterInv
<1>5. \A i \in 1 .. Len(frames') : i \in 1 .. Len(frames) /\ frames'[i] = frames[i]
  BY <1>1, PoppedFacts
<1>6. frames' # <<>> => frames'[1] = Operation
  BY <1>1, PoppedFacts DEF MeterInv
<1> QED  BY <1>4, <1>5, <1>6 DEF MeterInv, Parks

\* A checkout moves charges from the pool to the guard.
LEMMA MeterCheckout == ASSUME IInv, IInv', MeterInv, NEW p \in Pool, Checkout(p) PROVE MeterInv'
<1> DEFINE set == IF parked[p] = Vacant THEN NewSet ELSE parked[p]
<1>1. /\ frames \in Seq(Frame) /\ frames' = Append(frames, Guard(p, set)) /\ Depth > 0
      /\ parked' = [parked EXCEPT ![p] = Vacant] /\ p \in DOMAIN parked
      /\ UNCHANGED <<meter, panicking, overReturned>>
  BY SlotsApart DEF IInv, Checkout, Unpark
<1>2. /\ set \in WorkingSet /\ Honest(set) /\ ChargedOf(set, Buffer) = ChargedParked(p)
      /\ Guard(p, set) \in Frame
  BY NewSetCharges DEF IInv, MeterInv, ChargedParked, Parks, Guard, Frame
<1> HIDE DEF set
<1>3. FrameSum(frames') = FrameSum(frames) + ChargedParked(p) /\ FrameSum(frames) \in Nat
  <2>1. ChargedIn(Guard(p, set)) = ChargedParked(p)
    BY <1>2 DEF ChargedIn, Guard
  <2> QED  BY <1>1, <1>2, <2>1, FrameSumAppend, FrameSumType
<1>4. PoolSum' = PoolSum - ChargedParked(p) /\ PoolSum \in Nat /\ ChargedParked(p) \in Nat /\ PoolSum' \in Nat
  <2>1. ChargedParked(p)' = 0 /\ \A q \in Pool \ {p} : parked'[q] = parked[q]
    BY <1>1, SlotsApart DEF ChargedParked, Parks, IInv
  <2> QED  BY <2>1, PoolSumMoves
<1>5. meter' + overReturned' >= FrameSum(frames') + PoolSum'
  BY <1>1, <1>3, <1>4 DEF MeterInv
<1>6. /\ Len(frames') = Len(frames) + 1 /\ Len(frames) \in Nat /\ frames'[Len(frames) + 1] = Guard(p, set)
      /\ \A i \in 1 .. Len(frames) : frames'[i] = frames[i]
  BY <1>1
<1>7. \A i \in 1 .. Len(frames') : frames'[i].kind = "guard" => Honest(frames'[i].set)
  BY <1>2, <1>6 DEF MeterInv, Guard
<1>8. frames' # <<>> => frames'[1] = Operation
  <2>1. frames # <<>>
    <3>1. Depth # 0
      BY <1>1
    <3> QED  BY <1>1, <3>1, DepthFrames DEF MeterInv
  <2>2. 1 \in 1 .. Len(frames)
    BY <1>1, <2>1
  <2> QED  BY <1>6, <2>1, <2>2 DEF MeterInv
<1>9. \A q \in Pool : Parks(q)' => Honest(parked'[q])
  BY <1>1, SlotsApart DEF MeterInv, Parks, IInv
<1> QED  BY <1>1, <1>5, <1>7, <1>8, <1>9 DEF MeterInv

\* A guard grows by what the meter grows.
LEMMA MeterGrow ==
  ASSUME IInv, IInv', MeterInv, NEW b \in Buffer, NEW cap \in Capacities, Grow(b, cap)
  PROVE  MeterInv'
<1> DEFINE n     == Len(frames)
           grown == cap - Top.set[b].cap
           held  == [cap |-> cap, charged |-> Top.set[b].charged + grown]
           new   == [Top.set EXCEPT ![b] = held]
           guard == [Top EXCEPT !.set[b] = held]
<1>1. /\ frames \in Seq(Frame) /\ frames # <<>> /\ n \in DOMAIN frames /\ Top = frames[n]
      /\ Top \in [kind : {"guard"}, pool : Pool, set : WorkingSet] /\ Top.set \in WorkingSet
  BY TopGuard DEF IInv, Grow, Top
<1>2. Top.set[b] \in [cap : Nat, charged : Nat] /\ cap \in Nat /\ cap > Top.set[b].cap
  BY <1>1, AmountAssumption DEF Grow, WorkingSet
<1>3. grown \in Nat /\ held \in [cap : Nat, charged : Nat]
  BY <1>2
<1>4. /\ frames' = [frames EXCEPT ![n] = guard] /\ meter' = meter + grown
      /\ UNCHANGED <<parked, overReturned, panicking>>
  BY DEF Grow, Growth, Top
<1>5. guard.kind = "guard" /\ guard.set = new /\ guard \in Frame
  <2>1. guard \in [kind : {"guard"}, pool : Pool, set : WorkingSet] /\ guard.kind = "guard" /\ guard.set = new
    BY <1>1, <1>3 DEF WorkingSet
  <2> QED  BY <2>1 DEF Frame
<1>6. new \in WorkingSet /\ Honest(new)
  <2>1. Honest(Top.set)
    BY <1>1 DEF MeterInv
  <2>2. new \in WorkingSet /\ new[b] = held /\ \A c \in Buffer \ {b} : new[c] = Top.set[c]
    BY <1>1, <1>3 DEF WorkingSet
  <2>3. held.charged <= held.cap
    BY <1>2, <2>1 DEF Honest
  <2> QED  BY <2>1, <2>2, <2>3 DEF Honest
<1>7. ChargedOf(new, Buffer) = ChargedOf(Top.set, Buffer) + grown
  <2>1. Buffer \in SUBSET Buffer
    OBVIOUS
  <2>2. Charges(new)[b] = Charges(Top.set)[b] + grown /\ \A c \in Buffer \ {b} : Charges(Top.set)[c] = Charges(new)[c]
    BY <1>1, <1>3 DEF Charges, WorkingSet
  <2> HIDE DEF new, grown
  <2>3. SumFunctionOnSet(Charges(new), Buffer)
          = SumFunctionOnSet(Charges(Top.set), Buffer) - Charges(Top.set)[b] + Charges(new)[b]
    BY <1>1, <1>6, <2>1, <2>2, CapSum, SumChange
  <2>4. Charges(Top.set)[b] \in Nat /\ SumFunctionOnSet(Charges(Top.set), Buffer) \in Nat
    BY <1>1, <2>1, CapSum, SumType DEF NatOn
  <2> QED  BY <1>1, <1>3, <1>6, <2>1, <2>2, <2>3, <2>4, CapSum
<1> HIDE DEF new, held, guard, grown
<1>8. FrameSum(frames') = FrameSum(frames) + grown /\ FrameSum(frames) \in Nat
  <2>1. frames' \in Seq(Frame) /\ DOMAIN frames' = DOMAIN frames
    BY <1>1, <1>4 DEF IInv
  <2>2. FrameCharges(frames)[n] = ChargedOf(Top.set, Buffer)
    BY <1>1 DEF FrameCharges, ChargedIn
  <2>3. FrameCharges(frames')[n] = ChargedOf(new, Buffer)
    BY <1>1, <1>4, <1>5, <2>1 DEF FrameCharges, ChargedIn
  <2>4. \A i \in DOMAIN frames \ {n} : FrameCharges(frames)[i] = FrameCharges(frames')[i]
    BY <1>1, <1>4, <2>1 DEF FrameCharges
  <2>5. SumFunctionOnSet(FrameCharges(frames'), DOMAIN frames)
          = SumFunctionOnSet(FrameCharges(frames), DOMAIN frames)
              - FrameCharges(frames)[n] + FrameCharges(frames')[n]
    BY <1>1, <2>1, <2>4, FrameSumType, SumChange
  <2>6. ChargedOf(Top.set, Buffer) \in Nat
    <3>1. Buffer \in SUBSET Buffer
      OBVIOUS
    <3> QED  BY <1>1, <3>1, CapSum
  <2>7. FrameSum(frames') = FrameSum(frames) - ChargedOf(Top.set, Buffer) + ChargedOf(new, Buffer)
    BY <2>1, <2>2, <2>3, <2>5 DEF FrameSum
  <2> QED  BY <1>1, <1>3, <1>7, <2>6, <2>7, FrameSumType
<1>9. PoolSum' = PoolSum /\ PoolSum \in Nat
  BY <1>4, PoolSumKept, PoolChargeType
<1>10. meter' \in Nat /\ meter' + overReturned' >= FrameSum(frames') + PoolSum'
  BY <1>3, <1>4, <1>8, <1>9 DEF MeterInv
<1>11. Len(frames') = Len(frames) /\ \A i \in 1 .. Len(frames) : frames'[i] = IF i = n THEN guard ELSE frames[i]
  BY <1>1, <1>4
<1>12. \A i \in 1 .. Len(frames') : frames'[i].kind = "guard" => Honest(frames'[i].set)
  BY <1>5, <1>6, <1>11 DEF MeterInv
<1>13. frames'[1] = Operation
  <2>1. frames[1] = Operation /\ n # 1 /\ 1 \in 1 .. Len(frames)
    BY <1>1 DEF MeterInv, Operation
  <2> QED  BY <1>11, <2>1
<1> QED  BY <1>4, <1>10, <1>12, <1>13 DEF MeterInv, Parks

\* A drop returns a guard's working set, and gives back what it releases of it.
LEMMA MeterReturn == ASSUME IInv, IInv', MeterInv, ReturnScratch PROVE MeterInv'
<1>0. PICK p \in Pool, set \in WorkingSet : p = Top.pool /\ set = Top.set
  BY ReturnedSet
<1>1. /\ frames # <<>> /\ Top.kind = "guard" /\ Honest(set)
      /\ frames \in Seq(Frame) /\ Top \in Frame /\ frames' = Popped /\ UNCHANGED panicking
  <2>1. frames # <<>> /\ Top.kind = "guard" /\ frames \in Seq(Frame) /\ frames' = Popped /\ UNCHANGED panicking
    BY ReturnedSet DEF IInv, ReturnScratch
  <2>2. Len(frames) \in 1 .. Len(frames) /\ Top = frames[Len(frames)] /\ Top \in Frame
    BY <2>1 DEF Top
  <2> QED  BY <1>0, <2>1, <2>2 DEF MeterInv
<1>2. PICK released \in SUBSET Buffer :
        /\ Park(p, Kept(set, released), CapOf(set, Buffer \ released))
        /\ meter' = Sub(meter, CapOf(set, released))
        /\ overReturned' = overReturned + CapOf(set, released) - ChargedOf(set, released)
  BY <1>0, ReturnedSet
<1> DEFINE kept  == Kept(set, released)
           cap   == CapOf(set, released)
           given == ChargedOf(set, released)
           held  == ChargedOf(kept, Buffer)
<1>3. /\ cap \in Nat /\ given \in Nat /\ held \in Nat /\ given <= cap
      /\ ChargedOf(set, Buffer) = given + held /\ kept \in WorkingSet
  <2>1. Buffer \ released \in SUBSET Buffer
    OBVIOUS
  <2>2. cap \in Nat /\ given \in Nat /\ ChargedOf(set, Buffer \ released) \in Nat
    BY <1>1, <2>1, CapSum
  <2>3. held = ChargedOf(set, Buffer \ released) /\ kept \in WorkingSet
    BY <1>1, KeptSum
  <2>4. ChargedOf(set, Buffer) = given + ChargedOf(set, Buffer \ released)
    BY <1>1, SetSplit
  <2>5. given <= cap
    BY <1>1, HonestSum
  <2> QED  BY <2>2, <2>3, <2>4, <2>5
<1>4. Honest(kept)
  <2>1. \A b \in Buffer : set[b].charged <= set[b].cap
    BY <1>1 DEF Honest
  <2> QED  BY <2>1 DEF Honest, Kept, NoBuffer
<1> HIDE DEF kept, cap, given, held
<1>5. /\ \A q \in Pool \ {p} : parked'[q] = parked[q]
      /\ parked'[p] = kept \/ parked'[p] = Vacant
  BY <1>1, <1>2, SlotsApart DEF IInv, Park, Unpark, kept
<1>6. ChargedParked(p)' \in Nat /\ ChargedParked(p)' <= held
  BY <1>3, <1>5 DEF ChargedParked, Parks, held
<1>7. PoolSum' = PoolSum - ChargedParked(p) + ChargedParked(p)' /\ PoolSum \in Nat
      /\ ChargedParked(p) \in Nat /\ PoolSum' \in Nat
  BY <1>1, <1>5, <1>6, PoolSumMoves
<1>8. FrameSum(frames) = FrameSum(frames') + given + held /\ FrameSum(frames') \in Nat
  <2>1. ChargedIn(Top) = given + held
    BY <1>0, <1>1, <1>3 DEF ChargedIn
  <2>2. FrameSum(frames) = FrameSum(frames') + ChargedIn(Top) /\ FrameSum(frames') \in Nat
    BY <1>1, FrameSumPopped, PoppedFacts, FrameSumType
  <2> QED  BY <1>3, <2>1, <2>2
<1>9. meter' \in Nat /\ meter' >= meter - cap /\ overReturned' = overReturned + cap - given
      /\ overReturned' \in Nat
  <2>1. meter' = Sub(meter, cap) /\ overReturned' = overReturned + cap - given
    BY <1>2 DEF cap, given
  <2> QED  BY <1>3, <2>1 DEF MeterInv, Sub
<1>10. meter' + overReturned' >= FrameSum(frames') + PoolSum'
  <2>1. meter \in Nat /\ overReturned \in Nat /\ meter + overReturned >= FrameSum(frames) + PoolSum
    BY DEF MeterInv
  <2>2. meter' + overReturned' >= meter + overReturned - given
    <3>1. cap \in Nat /\ given \in Nat /\ given <= cap
      BY <1>3
    <3>2. \A m, n, o, q, c, g \in Nat : n >= m - c /\ q = o + c - g => n + q >= m + o - g
      OBVIOUS
    <3> QED  BY <1>9, <2>1, <3>1, <3>2
  <2>3. FrameSum(frames) + PoolSum - given >= FrameSum(frames') + PoolSum'
    BY <1>3, <1>6, <1>7, <1>8
  <2> QED  BY <1>3, <1>7, <1>8, <1>9, <2>1, <2>2, <2>3
<1>11. \A i \in 1 .. Len(frames') : i \in 1 .. Len(frames) /\ frames'[i] = frames[i]
  BY <1>1, PoppedFacts
<1>12. frames' # <<>> => frames'[1] = Operation
  BY <1>1, PoppedFacts DEF MeterInv
<1>13. \A q \in Pool : Parks(q)' => Honest(parked'[q])
  BY <1>1, <1>4, <1>5 DEF MeterInv, Parks
<1> QED  BY <1>1, <1>9, <1>10, <1>11, <1>12, <1>13 DEF MeterInv

\* No step makes the meter shorter of what is charged than what it gave back in
\* excess.
LEMMA MeterNext == IInv /\ IInv' /\ MeterInv /\ [Next]_vars => MeterInv'
<1> SUFFICES ASSUME IInv, IInv', MeterInv, [Next]_vars PROVE MeterInv'
  OBVIOUS
<1>1. CASE Begin
  BY <1>1, MeterBegin
<1>2. CASE NextPhase
  BY <1>2, MeterPhase
<1>3. CASE End \/ Discard
  BY <1>3, MeterPopped DEF End, Discard, Is
<1>4. ASSUME UNCHANGED <<frames, overReturned>>, meter' \in Nat, meter' >= meter, panicking' \in BOOLEAN,
             \A p \in Pool : parked'[p] = parked[p] \/ parked'[p] = Vacant
      PROVE  MeterInv'
  BY <1>4, MeterQuiet, PoolSumFalls
<1>5. meter \in Nat /\ meter >= meter /\ panicking \in BOOLEAN
  BY DEF MeterInv
<1>6. CASE Panic \/ Catch \/ UNCHANGED vars
  <2>1. panicking' \in BOOLEAN
    BY <1>5, <1>6 DEF Panic, Catch, vars
  <2> QED  BY <1>4, <1>5, <1>6, <2>1 DEF Panic, Catch, vars
<1>7. CASE ReturnScratch
  BY <1>7, MeterReturn
<1>8. CASE ClearScratch
  BY <1>4, <1>5, <1>8, SlotsApart DEF ClearScratch
<1>9. ASSUME NEW p \in Pool, Checkout(p) PROVE MeterInv'
  BY <1>9, MeterCheckout
<1>10. ASSUME NEW b \in Buffer, NEW cap \in Capacities, Grow(b, cap) PROVE MeterInv'
  BY <1>10, MeterGrow
<1>11. ASSUME NEW n \in Lengths, TakeLevels(n) PROVE MeterInv'
  <2>1. /\ UNCHANGED <<frames, panicking, overReturned>>
        /\ \A p \in Pool : parked'[p] = parked[p]
    BY <1>11, SlotsApart DEF IInv, TakeLevels, Nearest, LevelSlot, Unpark
  <2>2. n \in Nat /\ \A s \in LevelSlot : Parks(s) => parked[s].length \in Nat
    BY AmountAssumption DEF IInv, LevelArray
  <2>3. meter' \in Nat /\ meter' >= meter
    <3>1. CASE Nearest(n) = {}
      BY <1>5, <1>11, <2>2, <3>1 DEF TakeLevels
    <3>2. CASE Nearest(n) # {}
      <4>1. PICK s \in Nearest(n) : meter' \in {meter, meter + Sub(n, parked[s].length)}
        BY <1>11, <3>2 DEF TakeLevels
      <4>2. parked[s].length \in Nat
        BY <2>2 DEF Nearest, Useful, LevelSlot
      <4> QED  BY <1>5, <2>2, <4>1, <4>2 DEF Sub
    <3> QED  BY <3>1, <3>2
  <2> QED  BY <1>4, <1>5, <2>1, <2>3
<1>12. ASSUME NEW n \in Lengths, NEW arenas \in Arenas, ReturnLevels(n, arenas) PROVE MeterInv'
  <2>1. UNCHANGED <<frames, meter, panicking, overReturned>>
    BY <1>12 DEF ReturnLevels
  <2>2. PICK s \in GivesWay(n) : Park(s, [length |-> n, bytes |-> n + arenas], n + arenas)
    BY <1>12 DEF ReturnLevels
  <2>3. s \in LevelSlot
    BY DEF GivesWay, LevelSlot
  <2>4. \A p \in Pool : parked'[p] = parked[p]
    BY <2>2, <2>3, SlotsApart DEF IInv, Park, Unpark
  <2> QED  BY <1>4, <1>5, <2>1, <2>4
<1> QED  BY <1>1, <1>2, <1>3, <1>6, <1>7, <1>8, <1>9, <1>10, <1>11, <1>12 DEF Next

\* The meter covers what this operation charged and still holds, but for the
\* capacity of earlier operations that was given back with it.
THEOREM MeterShortfall == Spec => []MeterShortOnlyByRecycled
<1>1. MeterInv => MeterShortOnlyByRecycled
  BY LiveIsSums DEF MeterInv, MeterShortOnlyByRecycled
<1> QED
  BY <1>1, IInvInit, IInvNext, MeterInit, MeterNext, PTL DEF Spec

\* Working sets and arrays where they belong, and every amount a natural number.
THEOREM TypeCorrect == Spec => []TypeOK
<1>1. ASSUME IInv, LedgerInv, MeterInv PROVE TypeOK
  <2>1. claim \in [Slot -> Nat] /\ ledger \in Nat
    <3>1. claim = [s \in Slot |-> claim[s]]
      BY <1>1 DEF LedgerInv, Bytes
    <3> QED  BY <1>1, <3>1, LedgerType
  <2>2. ASSUME NEW i \in DOMAIN frames
        PROVE  \/ frames[i] = Operation
               \/ \E p \in Pool : \E set \in {frames[i].set} : set \in WorkingSet /\ frames[i] = Guard(p, set)
    <3>1. frames[i] \in Frame
      BY <1>1 DEF IInv
    <3>2. CASE frames[i] \in [kind : {"guard"}, pool : Pool, set : WorkingSet]
      BY <3>2 DEF Guard
    <3> QED  BY <3>1, <3>2 DEF Frame
  <2> QED  BY <1>1, <2>1, <2>2 DEF IInv, MeterInv, TypeOK
<1> QED
  BY <1>1, IInvInit, IInvNext, LedgerInit, LedgerNext, MeterInit, MeterNext, PTL DEF Spec

------------------------------------------------------------------------------
(* The level slots. *)

\* take_level_array takes the array its documentation names.
LEMMA TakeIsNearest ==
  ASSUME IInv, NEW n \in Lengths, TakeLevels(n)
  PROVE  LET all   == {s \in LevelSlot : Parks(s)}
             taken == {s \in all : parked'[s] = Vacant}
         IN  /\ \A t \in taken : Gap(t, n) < n /\ \A s \in all \ taken : Gap(t, n) <= Gap(s, n)
             /\ taken = {} => \A s \in all : Gap(s, n) >= n
<1> DEFINE all   == {s \in LevelSlot : Parks(s)}
           taken == {s \in all : parked'[s] = Vacant}
<1>1. n \in Nat /\ \A s \in all : Gap(s, n) \in Nat
  BY AmountAssumption DEF IInv, Gap, LevelArray
<1>2. CASE Nearest(n) = {}
  <2>1. UNCHANGED parked
    BY <1>2 DEF TakeLevels
  <2>2. taken = {}
    BY <2>1 DEF Parks
  <2>3. ASSUME NEW s \in all PROVE Gap(s, n) >= n
    BY <1>1, <1>2, <2>3 DEF Nearest, Useful, LevelSlot, Parks
  <2> QED
    BY <2>2, <2>3
<1>3. ASSUME NEW s \in Nearest(n), Unpark(s) PROVE taken = {s} /\ s \in LevelSlot
  <2>1. s \in LevelSlot /\ Parks(s)
    BY <1>3 DEF Nearest, Useful, LevelSlot
  <2>2. parked' = [parked EXCEPT ![s] = Vacant]
    BY <1>3 DEF Unpark
  <2> QED
    BY <2>1, <2>2, SlotsApart DEF IInv, Parks
<1>4. CASE \E s \in Nearest(n) : Unpark(s)
  <2>1. PICK s \in Nearest(n) : Unpark(s)
    BY <1>4
  <2>2. taken = {s} /\ s \in LevelSlot
    BY <1>3, <2>1
  <2>3. s \in all /\ Gap(s, n) < n
    BY <2>1, <2>2 DEF Nearest, Useful
  <2>4. ASSUME NEW r \in all \ taken PROVE Gap(s, n) <= Gap(r, n)
    BY <1>1, <2>1, <2>2, <2>3, <2>4 DEF Nearest, Useful, LevelSlot
  <2> QED
    BY <2>2, <2>3, <2>4
<1> QED
  BY <1>2, <1>4 DEF TakeLevels

\* return_levels gives up only what its documentation lets it.
LEMMA ReturnIsLonger ==
  ASSUME IInv, NEW n \in Lengths, NEW arenas \in Arenas, ReturnLevels(n, arenas),
         NEW s \in LevelSlot, NEW other \in LevelSlot, s # other, Parks(s), parked'[s] # parked[s]
  PROVE  /\ Parks(other) /\ parked[other].length >= parked[s].length /\ n > parked[s].length
         /\ parked'[s] = Vacant => ~Admitted(s, n + arenas)
<1> DEFINE array == [length |-> n, bytes |-> n + arenas]
<1>1. PICK r \in GivesWay(n) : Park(r, array, n + arenas)
  BY DEF ReturnLevels
<1>2. r \in LevelSlot /\ n \in Nat /\ arenas \in Nat /\ array \in LevelArray /\ array # Vacant
  BY <1>1, AmountAssumption, VacantAssumption DEF GivesWay, LevelSlot, LevelArray
<1>3. \/ Admitted(r, n + arenas) /\ parked' = [parked EXCEPT ![r] = array]
      \/ ~Admitted(r, n + arenas) /\ parked' = [parked EXCEPT ![r] = Vacant]
  BY <1>1, <1>2, ParkEffect, SlotsApart DEF IInv
<1>4. r = s
  <2> SUFFICES ASSUME r # s PROVE FALSE
    OBVIOUS
  <2>1. s \in DOMAIN parked
    BY SlotsApart DEF IInv
  <2>2. parked' = [parked EXCEPT ![r] = array] => parked'[s] = parked[s]
    BY <2>1
  <2>3. parked' = [parked EXCEPT ![r] = Vacant] => parked'[s] = parked[s]
    BY <2>1
  <2> QED
    BY <1>3, <2>2, <2>3
<1>5. parked[s].length \in Nat /\ (Parks(other) => parked[other].length \in Nat)
  BY DEF IInv, LevelArray
<1>6. Parks("primary") /\ Parks("secondary")
  BY <1>1, <1>4 DEF GivesWay, LevelSlot
<1>7. Parks(other) /\ parked[other].length >= parked[s].length /\ n > parked[s].length
  BY <1>1, <1>2, <1>4, <1>5, <1>6 DEF GivesWay, LevelSlot
<1>8. parked'[s] = Vacant => ~Admitted(s, n + arenas)
  BY <1>2, <1>3, <1>4, SlotsApart DEF IInv
<1> QED
  BY <1>7, <1>8

\* A take of levels gets the parked array nearest in length, or none that would help.
THEOREM TakesAreNearest == Spec => TakesNearest
<1>1. IInv /\ [Next]_vars =>
        [\A n \in Lengths : TakeLevels(n) =>
           LET all   == {s \in LevelSlot : Parks(s)}
               taken == {s \in all : parked'[s] = Vacant}
           IN  /\ \A t \in taken : Gap(t, n) < n /\ \A s \in all \ taken : Gap(t, n) <= Gap(s, n)
               /\ taken = {} => \A s \in all : Gap(s, n) >= n]_vars
  BY TakeIsNearest
<1> QED
  BY <1>1, IInvInit, IInvNext, PTL DEF Spec, TakesNearest

\* A return of levels keeps the longer arrays, within the engine's allowance.
THEOREM ReturnsKeepLonger == Spec => ReturnKeepsLonger
<1>1. IInv /\ [Next]_vars =>
        [\A n \in Lengths, arenas \in Arenas : ReturnLevels(n, arenas) =>
           \A s, other \in LevelSlot : s # other /\ Parks(s) /\ parked'[s] # parked[s] =>
             /\ Parks(other) /\ parked[other].length >= parked[s].length /\ n > parked[s].length
             /\ parked'[s] = Vacant => ~Admitted(s, n + arenas)]_vars
  BY ReturnIsLonger
<1> QED
  BY <1>1, IInvInit, IInvNext, PTL DEF Spec, ReturnKeepsLonger
================================================================================
