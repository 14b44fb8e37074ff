---------------------------- MODULE ScratchPools ----------------------------
(***************************************************************************)
(* The scratch an engine keeps between uses (execution/pool.rs,            *)
(* diagram/pool.rs) and the byte meter it shares with the operations       *)
(* (limits/mod.rs, limits/growth.rs).                                      *)
(*                                                                         *)
(* Pools of working sets, and two slots of level arrays, park what their   *)
(* last users return, within one allowance. Checkouts nest: an operation   *)
(* inside another finds a pool vacant, and both working sets come back to  *)
(* it. Capacity outlives the operation whose meter was charged for it.     *)
(***************************************************************************)
EXTENDS Naturals, Sequences, FiniteSetsExt

CONSTANTS Pool,             \* the pools of working sets
          Whole,            \* those that keep or release a working set as one
          Buffer,           \* the buffers of a working set
          Vacant,           \* the value of a pool that parks nothing
          Retain,           \* SCRATCH_RETAIN_BYTES
          Ceiling,          \* ENGINE_RETAIN_BYTES
          Capacities,       \* bound: bytes a buffer grows to
          Lengths,          \* bound: levels of an array, one unit of bytes each
          Arenas,           \* bound: bytes a returned array keeps beside its levels
          MaxMeter,         \* bound: the byte meter
          MaxFrames         \* bound: operations and checkouts in progress

LevelSlot == {"primary", "secondary"}
Slot      == Pool \union LevelSlot

ASSUME PoolAssumption == /\ Whole \subseteq Pool /\ Pool \intersect LevelSlot = {}
                         /\ IsFiniteSet(Pool) /\ IsFiniteSet(Buffer)
ASSUME AmountAssumption == /\ Retain \in Nat /\ Ceiling \in Nat
                           /\ Capacities \subseteq Nat /\ Lengths \subseteq Nat /\ Arenas \subseteq Nat

VARIABLES parked,           \* Pool::value
          claim,            \* Pool::bytes
          ledger,           \* ScratchLedger
          frames,           \* operations and checkout guards, innermost last
          meter,            \* in_flight_bytes
          panicking,        \* std::thread::panicking()
          overReturned      \* history: bytes given back that this operation never charged

vars == <<parked, claim, ledger, frames, meter, panicking, overReturned>>

\* A buffer's capacity and, as history, how much of it this operation charged.
NoBuffer   == [cap |-> 0, charged |-> 0]
WorkingSet == [Buffer -> [cap : Nat, charged : Nat]]
LevelArray == [length : Nat, bytes : Nat]
ASSUME VacantAssumption == Vacant \notin WorkingSet \union LevelArray
NewSet     == [b \in Buffer |-> NoBuffer]

Operation     == [kind |-> "operation"]
Guard(p, set) == [kind |-> "guard", pool |-> p, set |-> set]
Top      == frames[Len(frames)]
Is(kind) == frames # <<>> /\ Top.kind = kind
Popped   == SubSeq(frames, 1, Len(frames) - 1)
Depth    == Cardinality({i \in DOMAIN frames : frames[i].kind = "operation"})      \* op_depth

\* Mutant: the meter is lowered without saturating.
SubUnsaturated(a, b) == a - b

Sub(a, b) == IF a < b THEN 0 ELSE a - b                                            \* saturating_sub

CapOf(set, bs)     == SumFunction([b \in bs |-> set[b].cap])
ChargedOf(set, bs) == SumFunction([b \in bs |-> set[b].charged])
------------------------------------------------------------------------------
(* Parking. *)

\* Mutant: the claim of the value replaced stays in the total.
AfterDrainKeepsClaim(s) == ledger

\* The ledger once a slot's claim is taken away.
AfterDrain(s) == ledger - claim[s]

\* Pool::take: the value parked, with its claim.
Unpark(s) == /\ parked' = [parked EXCEPT ![s] = Vacant]
             /\ claim'  = [claim EXCEPT ![s] = 0]
             /\ ledger' = AfterDrain(s)

Admitted(s, bytes) == AfterDrain(s) + bytes <= Ceiling

\* Pool::put, once the retention policy left this value: the old one goes in any case.
Park(s, value, bytes) ==
  IF Admitted(s, bytes)
  THEN /\ parked' = [parked EXCEPT ![s] = value]
       /\ claim'  = [claim EXCEPT ![s] = bytes]
       /\ ledger' = AfterDrain(s) + bytes
  ELSE Unpark(s)

Oversized(set) == {b \in Buffer : set[b].cap > Retain}

\* Mutant: a working set kept as one is judged buffer by buffer.
ReleasesEach(p, set) == {Oversized(set), Buffer}

\* The buffers a pool's retention policy may release: the oversized ones, or all when
\* the buffers describe one thing, or when a Layout's vtree is gone or a search's
\* triples outgrew their cap.
Releases(p, set) == IF p \notin Whole THEN {Oversized(set), Buffer}
                    ELSE IF CapOf(set, Buffer) > Retain THEN {Buffer} ELSE {{}, Buffer}

Kept(set, released) == [b \in Buffer |-> IF b \in released THEN NoBuffer ELSE set[b]]
------------------------------------------------------------------------------
(* Operations and the working sets they check out. *)

\* What is parked was charged to an operation that ended.
CarriedOver(value) == [b \in Buffer |-> [value[b] EXCEPT !.charged = 0]]
Zero == /\ meter' = 0 /\ overReturned' = 0
        /\ parked' = [s \in Slot |-> IF s \in Pool /\ parked[s] # Vacant THEN CarriedOver(parked[s])
                                     ELSE parked[s]]

Begin == /\ Len(frames) < MaxFrames
         /\ frames' = Append(frames, Operation)
         /\ IF Depth = 0 THEN Zero ELSE UNCHANGED <<meter, overReturned, parked>>
         /\ UNCHANGED <<claim, ledger, panicking>>

\* No route holds a working set of its own from one phase to the next.
NextPhase == /\ Is("operation")
             /\ IF Depth = 1 THEN Zero ELSE UNCHANGED <<meter, overReturned, parked>>
             /\ UNCHANGED <<claim, ledger, frames, panicking>>

End == /\ Is("operation")
       /\ frames' = Popped
       /\ UNCHANGED <<parked, claim, ledger, meter, panicking, overReturned>>

\* Pool::checkout: a pool that parks nothing gives a new working set.
Checkout(p) ==
  /\ Depth > 0 /\ Len(frames) < MaxFrames
  /\ frames' = Append(frames, Guard(p, IF parked[p] = Vacant THEN NewSet ELSE parked[p]))
  /\ Unpark(p)
  /\ UNCHANGED <<meter, panicking, overReturned>>

\* Mutant: growth of a recycled buffer is taken to be charged already.
GrowthOfFresh(buffer, cap) == IF buffer.cap = 0 THEN cap ELSE 0

Growth(buffer, cap) == cap - buffer.cap

\* Limits::reserve_impl: what is charged is the growth.
Grow(b, cap) ==
  /\ Is("guard") /\ cap > Top.set[b].cap
  /\ LET grown == Growth(Top.set[b], cap)
         held  == [cap |-> cap, charged |-> Top.set[b].charged + (cap - Top.set[b].cap)]
     IN  /\ meter + grown <= MaxMeter
         /\ meter' = meter + grown
         /\ frames' = [frames EXCEPT ![Len(frames)].set[b] = held]
  /\ UNCHANGED <<parked, claim, ledger, panicking, overReturned>>

\* PoolGuard::drop outside a panic: all a released buffer holds is given back.
ReturnScratch ==
  /\ Is("guard") /\ ~panicking
  /\ \E released \in Releases(Top.pool, Top.set) :
        /\ Park(Top.pool, Kept(Top.set, released), CapOf(Top.set, Buffer \ released))
        /\ meter' = Sub(meter, CapOf(Top.set, released))
        /\ overReturned' = overReturned + CapOf(Top.set, released) - ChargedOf(Top.set, released)
  /\ frames' = Popped
  /\ UNCHANGED panicking

\* PoolGuard::drop during one.
Discard == /\ Is("guard") /\ panicking
           /\ frames' = Popped
           /\ UNCHANGED <<parked, claim, ledger, meter, panicking, overReturned>>

\* A panic starts, and is caught once the frames it unwinds are gone.
Panic == /\ frames # <<>> /\ ~panicking
         /\ panicking' = TRUE
         /\ UNCHANGED <<parked, claim, ledger, frames, meter, overReturned>>
Catch == /\ panicking /\ panicking' = FALSE
         /\ UNCHANGED <<parked, claim, ledger, frames, meter, overReturned>>
------------------------------------------------------------------------------
(* The two recycled level arrays. *)

Gap(s, n) == IF parked[s].length < n THEN n - parked[s].length ELSE parked[s].length - n
Parks(s)  == parked[s] # Vacant
Useful(s, n) == Parks(s) /\ Gap(s, n) < n

\* take_level_array: the slot it takes from, the primary on a tie.
Nearest(n) ==
  IF Useful("secondary", n) /\ (Parks("primary") => Gap("secondary", n) < Gap("primary", n))
  THEN {"secondary"}
  ELSE IF Useful("primary", n) THEN {"primary"} ELSE {}

\* take_levels, and try_take_levels, which charges the levels an array is short of.
TakeLevels(n) ==
  /\ Depth > 0
  /\ \/ /\ Nearest(n) = {}
        /\ meter' \in {meter, meter + n}
        /\ UNCHANGED <<parked, claim, ledger>>
     \/ \E s \in Nearest(n) :
        /\ meter' \in {meter, meter + Sub(n, parked[s].length)}
        /\ Unpark(s)
  /\ meter' <= MaxMeter
  /\ UNCHANGED <<frames, panicking, overReturned>>

\* return_levels: the slot that takes an array of n levels, none when both are as long.
GivesWay(n) ==
  CASE ~Parks("primary")   -> {"primary"}
    [] ~Parks("secondary") -> {"secondary"}
    [] OTHER -> LET shorter == IF parked["secondary"].length < parked["primary"].length
                               THEN "secondary" ELSE "primary"
                IN  IF n <= parked[shorter].length THEN {} ELSE {shorter}

\* An array of any diagram comes back, reset, with what its arenas keep.
ReturnLevels(n, arenas) ==
  /\ Depth > 0
  /\ \E s \in GivesWay(n) : Park(s, [length |-> n, bytes |-> n + arenas], n + arenas)
  /\ UNCHANGED <<frames, meter, panicking, overReturned>>
------------------------------------------------------------------------------
\* Engine::clear_scratch, between operations.
ClearScratch == /\ frames = <<>>
                /\ parked' = [s \in Slot |-> Vacant]
                /\ claim'  = [s \in Slot |-> 0]
                /\ ledger' = ledger - SumFunction(claim)
                /\ UNCHANGED <<frames, meter, panicking, overReturned>>

Init == /\ parked = [s \in Slot |-> Vacant] /\ claim = [s \in Slot |-> 0]
        /\ ledger = 0 /\ frames = <<>> /\ meter = 0
        /\ panicking = FALSE /\ overReturned = 0

Next == \/ Begin \/ NextPhase \/ End \/ ReturnScratch \/ Discard \/ Panic \/ Catch \/ ClearScratch
        \/ \E p \in Pool : Checkout(p)
        \/ \E b \in Buffer, cap \in Capacities : Grow(b, cap)
        \/ \E n \in Lengths : TakeLevels(n)
        \/ \E n \in Lengths, arenas \in Arenas : ReturnLevels(n, arenas)

Spec == Init /\ [][Next]_vars
------------------------------------------------------------------------------
(* Properties. *)

\* Every variable has its type: working sets in pools and guards, arrays in the slots.
TypeOK ==
  /\ parked \in [Slot -> WorkingSet \union LevelArray \union {Vacant}]
  /\ \A p \in Pool : Parks(p) => parked[p] \in WorkingSet
  /\ \A s \in LevelSlot : Parks(s) => parked[s] \in LevelArray
  /\ claim \in [Slot -> Nat] /\ ledger \in Nat /\ meter \in Nat /\ overReturned \in Nat
  /\ \A i \in DOMAIN frames : \/ frames[i] = Operation
                              \/ \E p \in Pool : \E set \in {frames[i].set} :
                                   set \in WorkingSet /\ frames[i] = Guard(p, set)
  /\ panicking \in BOOLEAN

\* The ledger is what the pools and slots really park, and within the engine's
\* allowance: no nesting, refusal, clearing or panic loses or doubles a claim.
BytesParked(s) == IF ~Parks(s) THEN 0
                  ELSE IF s \in Pool THEN CapOf(parked[s], Buffer) ELSE parked[s].bytes
LedgerIsExact == /\ ledger = SumFunction([s \in Slot |-> BytesParked(s)])
                 /\ ledger <= Ceiling
                 /\ \A s \in Slot : claim[s] = BytesParked(s)

\* What a pool parks keeps to its policy: no buffer past the retention size, and
\* no working set past it as a whole where its buffers describe one thing.
ParkedWithinPolicy ==
  \A p \in Pool : Parks(p) =>
    /\ \A b \in Buffer : parked[p][b].cap <= Retain
    /\ p \in Whole => CapOf(parked[p], Buffer) <= Retain

\* What this operation charged for scratch that is still allocated, in a guard or parked.
ChargedIn(f)     == IF f.kind = "guard" THEN ChargedOf(f.set, Buffer) ELSE 0
ChargedParked(p) == IF Parks(p) THEN ChargedOf(parked[p], Buffer) ELSE 0
ChargedLive      == SumFunction([i \in DOMAIN frames |-> ChargedIn(frames[i])])
                      + SumFunction([p \in Pool |-> ChargedParked(p)])

\* release_bytes is called with "the exact charged capacity": the meter covers
\* all that this operation charged and still holds.
MeterCovers == meter >= ChargedLive

\* The meter falls short of that by no more than the capacity recycled from
\* earlier operations that was given back with the buffers it had grown into.
MeterShortOnlyByRecycled == meter + overReturned >= ChargedLive

\* A take leaves no parked array nearer in length to what it asked for than the one
\* it took, and starts afresh only when no parked array would have spared it levels.
TakesNearest ==
  [][\A n \in Lengths : TakeLevels(n) =>
       LET all   == {s \in LevelSlot : Parks(s)}
           taken == {s \in all : parked'[s] = Vacant}
       IN  /\ \A t \in taken : Gap(t, n) < n /\ \A s \in all \ taken : Gap(t, n) <= Gap(s, n)
           /\ taken = {} => \A s \in all : Gap(s, n) >= n]_vars

\* A return keeps the longest arrays: it shortens no slot, gives up an array only
\* where the other is no shorter, and empties a slot only at the ceiling.
ReturnKeepsLonger ==
  [][\A n \in Lengths, arenas \in Arenas : ReturnLevels(n, arenas) =>
       \A s, other \in LevelSlot : s # other /\ Parks(s) /\ parked'[s] # parked[s] =>
         /\ Parks(other) /\ parked[other].length >= parked[s].length /\ n > parked[s].length
         /\ parked'[s] = Vacant => ~Admitted(s, n + arenas)]_vars
==============================================================================
