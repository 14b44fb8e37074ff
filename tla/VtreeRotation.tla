---------------------------- MODULE VtreeRotation ----------------------------
(***************************************************************************)
(* The vtree's links, its maintained bottom-up order, and the rotations    *)
(* whose order repair is deferred (vtree/rotate.rs, vtree/topo.rs).        *)
(*                                                                         *)
(* A rotation relinks two nodes at once and leaves the order stale; the    *)
(* PendingTopo token it hands out is later committed (the order is         *)
(* repaired) or reverted (the links are put back).  RotationTrial          *)
(* (restructure/search/probe.rs) stacks several tokens: it drains them     *)
(* first to last to keep the sequence and pops them last to first to drop  *)
(* it.  The pool search (restructure/search/pool.rs) makes one rotation,   *)
(* its promoted node's children swapped first when the move is crossed.    *)
(*                                                                         *)
(* Node indices are the integers the code uses: leaves first, the root     *)
(* last, and an index names the same node forever.                         *)
(***************************************************************************)
EXTENDS Integers, Sequences

CONSTANTS NumLeaves,     \* leaves of the tree; it has NumLeaves - 1 internal nodes
          Layouts,       \* the freshly built trees, as `reindex` lays them out
          MaxPending     \* bound: rotations one trial stacks

N        == 2 * NumLeaves - 1
Node     == 0 .. N - 1
Leaf     == 0 .. NumLeaves - 1
Internal == NumLeaves .. N - 1
Root     == N - 1
None     == -1
Kinds    == {"Left", "Right"}

Shape == [left : [Internal -> Node], right : [Internal -> Node],
          parent : [Node -> Node \cup {None}]]

\* Vtree::validate_links: every child names its parent, no node is the child
\* of two nodes, and the root alone has no parent.
Linked(s) ==
  /\ \A t \in Internal : /\ s.parent[s.left[t]] = t
                         /\ s.parent[s.right[t]] = t
                         /\ s.left[t] # s.right[t]
  /\ \A n \in Node \ {Root} : /\ s.parent[n] \in Internal
                              /\ n \in {s.left[s.parent[n]], s.right[s.parent[n]]}
  /\ s.parent[Root] = None

ASSUME NumLeavesAssumption == NumLeaves \in Nat \ {0}
ASSUME MaxPendingAssumption == MaxPending \in Nat \ {0}
\* What relabel_leaves_then_internals promises: child.idx() < parent.idx().
ASSUME LayoutsAssumption ==
  \A s \in Layouts : /\ s \in Shape
                     /\ Linked(s)
                     /\ \A t \in Internal : s.left[t] < t /\ s.right[t] < t
------------------------------------------------------------------------------
(* Pointer surgery. *)

\* promoted_first: the child a rotation of `kind` promotes, and the other one.
Promoted(s, v, kind) == IF kind = "Left" THEN s.right[v] ELSE s.left[v]
Other(s, v, kind)    == IF kind = "Left" THEN s.left[v] ELSE s.right[v]

CanRotate(s, v, kind) == v \in Internal /\ Promoted(s, v, kind) \in Internal

RotationInfo(s, v, kind) ==
  LET w == Promoted(s, v, kind)
      x == Other(s, v, kind)
      y == Promoted(s, w, kind)
  IN  [kind |-> kind, v |-> v, w |-> w, b |-> Other(s, w, kind),
       a |-> IF kind = "Left" THEN x ELSE y,
       c |-> IF kind = "Left" THEN y ELSE x]

\* Mutant: the promoted node's grandchildren keep their sides.
RotateSwappingGrandchildren(s, v, kind) ==
  LET w == Promoted(s, v, kind)
      x == Other(s, v, kind)
      y == Other(s, w, kind)
      z == Promoted(s, w, kind)
  IN  [left   |-> IF kind = "Left" THEN [s.left EXCEPT ![v] = w, ![w] = x]
                                   ELSE [s.left EXCEPT ![v] = y, ![w] = z],
       right  |-> IF kind = "Left" THEN [s.right EXCEPT ![v] = y, ![w] = z]
                                   ELSE [s.right EXCEPT ![v] = w, ![w] = x],
       parent |-> [s.parent EXCEPT ![w] = v, ![x] = w, ![y] = v]]

RotatePointers(s, v, kind) ==
  LET w == Promoted(s, v, kind)
      x == Other(s, v, kind)
      y == Promoted(s, w, kind)
      z == Other(s, w, kind)
  IN  [left   |-> IF kind = "Left" THEN [s.left EXCEPT ![v] = w, ![w] = x]
                                   ELSE [s.left EXCEPT ![v] = y, ![w] = z],
       right  |-> IF kind = "Left" THEN [s.right EXCEPT ![v] = y, ![w] = z]
                                   ELSE [s.right EXCEPT ![v] = w, ![w] = x],
       parent |-> [s.parent EXCEPT ![w] = v, ![x] = w, ![y] = v]]

UnrotatePointers(s, i) ==
  LET left == i.kind = "Left"
      x    == IF left THEN i.a ELSE i.c
      y    == IF left THEN i.c ELSE i.a
  IN  [left   |-> IF left THEN [s.left EXCEPT ![i.v] = x, ![i.w] = i.b]
                          ELSE [s.left EXCEPT ![i.v] = i.w, ![i.w] = y],
       right  |-> IF left THEN [s.right EXCEPT ![i.v] = i.w, ![i.w] = y]
                          ELSE [s.right EXCEPT ![i.v] = x, ![i.w] = i.b],
       parent |-> [s.parent EXCEPT ![i.w] = i.v, ![x] = i.v, ![y] = i.w]]

SwapChildren(s, v) == [left   |-> [s.left EXCEPT ![v] = s.right[v]],
                       right  |-> [s.right EXCEPT ![v] = s.left[v]],
                       parent |-> s.parent]
------------------------------------------------------------------------------
(* The bottom-up order: `order` lists the nodes, `pos` is its inverse and   *)
(* `internal` its filter to internal nodes.                                *)

Slots == 0 .. NumLeaves - 2         \* indices of the internal view

Topo == [order : [Node -> Node], pos : [Node -> Node],
         internal : [Slots -> Internal]]

IdentityOrder == [order    |-> [k \in Node |-> k],
                  pos      |-> [n \in Node |-> n],
                  internal |-> [k \in Slots |-> NumLeaves + k]]

\* Mutant: the rotated slice takes the place of the whole list.
RotateLeft1Slice(f, lo, hi) == [k \in lo .. hi |-> IF k < hi THEN f[k + 1] ELSE f[lo]]

\* slice[lo..=hi].rotate_left(1)
RotateLeft1(f, lo, hi) ==
  [k \in DOMAIN f |-> IF lo <= k /\ k < hi THEN f[k + 1]
                      ELSE IF k = hi THEN f[lo] ELSE f[k]]

\* Mutant: the bound is off by one.
PartitionPointShort(t, bound) ==
  CHOOSE i \in 0 .. NumLeaves - 1 :
    /\ \A k \in 0 .. i - 1 : t.pos[t.internal[k]] < bound - 1
    /\ \A k \in i .. NumLeaves - 2 : t.pos[t.internal[k]] >= bound - 1

\* slice::partition_point on the internal view, for `pos < bound`: the number
\* of leading entries whose position is below the bound.
PartitionPoint(t, bound) ==
  CHOOSE i \in 0 .. NumLeaves - 1 :
    /\ \A k \in 0 .. i - 1 : t.pos[t.internal[k]] < bound
    /\ \A k \in i .. NumLeaves - 2 : t.pos[t.internal[k]] >= bound

\* Mutant: the left rotation's case for both.
MisplacedRootOfLeft(i) == i.a

MisplacedRoot(i) == IF i.kind = "Left" THEN i.a ELSE i.c

FixupAfterRotate(t, i) ==
  LET wPos == t.pos[i.w]
      mEnd == t.pos[MisplacedRoot(i)]
      iW   == PartitionPoint(t, wPos)
      iEnd == PartitionPoint(t, mEnd + 1)
      new  == RotateLeft1(t.order, wPos, mEnd)
  IN  IF mEnd < wPos THEN t
      ELSE [order    |-> new,
            pos      |-> [n \in Node |->
                            IF \E k \in wPos .. mEnd : new[k] = n
                            THEN CHOOSE k \in wPos .. mEnd : new[k] = n
                            ELSE t.pos[n]],
            internal |-> RotateLeft1(t.internal, iW, iEnd - 1)]
------------------------------------------------------------------------------
VARIABLES shape,    \* Vtree::nodes, the links
          topo,     \* Vtree::topo
          pending,  \* the PendingTopo tokens in the order they were handed out
          mode,     \* "open", or the tokens are being drained ("commit", "revert")
          crossed,  \* the node whose children the pool's crossed move swapped, or None
          base,     \* history: the links when the trial under way began
          eager     \* history: links and order had every token been committed at once

vars == <<shape, topo, pending, mode, crossed, base, eager>>

Settled == pending = <<>> /\ mode = "open"

Init == /\ shape \in Layouts
        /\ topo = IdentityOrder
        /\ pending = <<>>
        /\ mode = "open"
        /\ crossed = None
        /\ base = shape
        /\ eager = <<[shape |-> shape, topo |-> topo]>>

\* Rotate the links of s at v, whose order, had the tokens before been
\* committed, would be t.
HandOut(s, t, v, kind) ==
  LET i   == RotationInfo(s, v, kind)
      new == RotatePointers(s, v, kind)
  IN  /\ shape' = new
      /\ pending' = Append(pending, i)
      /\ eager' = Append(IF pending = <<>> THEN <<[shape |-> s, topo |-> t]>> ELSE eager,
                         [shape |-> new, topo |-> FixupAfterRotate(t, i)])

\* RotationTrial::rotate: one more pointer-only rotation on the stack.
Rotate(v, kind) ==
  /\ mode = "open" /\ crossed = None
  /\ Len(pending) < MaxPending
  /\ CanRotate(shape, v, kind)
  /\ HandOut(shape, eager[Len(eager)].topo, v, kind)
  /\ base' = IF pending = <<>> THEN shape ELSE base
  /\ UNCHANGED <<topo, mode, crossed>>

\* pool.rs move_in_place with `crossed`: the promoted node's children swapped,
\* then the rotation.
CrossedRotate(v, kind) ==
  /\ Settled
  /\ CanRotate(shape, v, kind)
  /\ LET w == Promoted(shape, v, kind)
     IN  /\ HandOut(SwapChildren(shape, w), topo, v, kind)
         /\ crossed' = w
  /\ base' = shape
  /\ UNCHANGED <<topo, mode>>

\* mirror_at: the children of an internal node exchanged, the order kept.
Mirror(v) ==
  /\ Settled
  /\ shape' = SwapChildren(shape, v)
  /\ base' = shape'
  /\ eager' = <<[shape |-> shape', topo |-> topo]>>
  /\ UNCHANGED <<topo, pending, mode, crossed>>

\* RotationTrial::commit begins its drain; its Drop begins the rollback.
Keep == /\ mode = "open" /\ pending # <<>>
        /\ mode' = "commit"
        /\ UNCHANGED <<shape, topo, pending, crossed, base, eager>>

Discard == /\ mode = "open" /\ pending # <<>>
           /\ mode' = "revert"
           /\ UNCHANGED <<shape, topo, pending, crossed, base, eager>>

\* Mutant: the tokens are drained last to first.
CommitLast ==
  /\ mode = "commit"
  /\ topo' = FixupAfterRotate(topo, pending[Len(pending)])
  /\ pending' = SubSeq(pending, 1, Len(pending) - 1)
  /\ eager' = Tail(eager)
  /\ mode' = IF Len(pending) = 1 THEN "open" ELSE mode
  /\ crossed' = None
  /\ base' = IF Len(pending) = 1 THEN shape ELSE base
  /\ UNCHANGED shape

\* PendingTopo::commit of the oldest token.
CommitFirst ==
  /\ mode = "commit"
  /\ topo' = FixupAfterRotate(topo, Head(pending))
  /\ pending' = Tail(pending)
  /\ eager' = Tail(eager)
  /\ mode' = IF Len(pending) = 1 THEN "open" ELSE mode
  /\ crossed' = None
  /\ base' = IF Len(pending) = 1 THEN shape ELSE base
  /\ UNCHANGED shape

\* Mutant: a reverted crossed move keeps its swap.
RevertWithoutSwapBack ==
  /\ mode = "revert"
  /\ shape' = UnrotatePointers(shape, pending[Len(pending)])
  /\ pending' = SubSeq(pending, 1, Len(pending) - 1)
  /\ eager' = IF Len(pending) = 1 THEN <<[shape |-> shape', topo |-> topo]>>
                                  ELSE SubSeq(eager, 1, Len(eager) - 1)
  /\ mode' = IF Len(pending) = 1 THEN "open" ELSE mode
  /\ crossed' = None
  /\ UNCHANGED <<topo, base>>

\* PendingTopo::revert of the newest token, and the swap back a reverted
\* crossed move owes (pool.rs probe_in_place).
RevertLast ==
  /\ mode = "revert"
  /\ LET i    == pending[Len(pending)]
         back == UnrotatePointers(shape, i)
     IN  shape' = IF crossed = None THEN back ELSE SwapChildren(back, i.w)
  /\ pending' = SubSeq(pending, 1, Len(pending) - 1)
  /\ eager' = IF Len(pending) = 1 THEN <<[shape |-> shape', topo |-> topo]>>
                                  ELSE SubSeq(eager, 1, Len(eager) - 1)
  /\ mode' = IF Len(pending) = 1 THEN "open" ELSE mode
  /\ crossed' = None
  /\ UNCHANGED <<topo, base>>

Next == \/ \E v \in Internal, kind \in Kinds : Rotate(v, kind) \/ CrossedRotate(v, kind)
        \/ \E v \in Internal : Mirror(v)
        \/ Keep \/ Discard \/ CommitFirst \/ RevertLast

Spec == Init /\ [][Next]_vars
------------------------------------------------------------------------------
(* Properties. *)

Info == [kind : Kinds, v : Internal, w : Internal, a : Node, b : Node, c : Node]

\* Every variable has its type: links join nodes of the tree, the order and its
\* views list nodes, and a token names the nodes of one rotation.
TypeOK == /\ shape \in Shape
          /\ topo \in Topo
          /\ pending \in Seq(Info)
          /\ mode \in {"open", "commit", "revert"}
          /\ crossed \in Internal \cup {None}
          /\ base \in Shape
          /\ eager \in Seq([shape : Shape, topo : Topo])

\* TopoOrder::validate's walk: the order lists every node once, `pos` is its
\* inverse, and a node comes after its children.
BottomUp(s, t) ==
  /\ \A n \in Node : t.order[t.pos[n]] = n /\ t.pos[t.order[n]] = n
  /\ \A n \in Internal : t.pos[s.left[n]] < t.pos[n] /\ t.pos[s.right[n]] < t.pos[n]

\* The internal view is the order filtered: its entries are strictly
\* increasing by position and cover the internal nodes.
InternalView(t) ==
  /\ \A j, k \in Slots : j < k => t.pos[t.internal[j]] < t.pos[t.internal[k]]
  /\ \A n \in Internal : \E k \in Slots : t.internal[k] = n

\* Once every token is settled, whichever way, the tree passes Vtree::validate:
\* links agree both ways and the maintained order is a bottom-up order of the
\* links (vtree/topo.rs, `validate`), after any number of trials.  The slice
\* internal_bottomup() reads is that order filtered, which the two partition
\* points of fixup_after_rotate must keep.
ValidWhenSettled == Settled => Linked(shape) /\ BottomUp(shape, topo) /\ InternalView(topo)

\* Dropping a trial gives back exactly the links it began with, crossed or
\* not, however many rotations it stacked (RotationTrial::drop, probe_in_place).
DropRestoresLinks == [][(mode = "revert" /\ mode' = "open") => shape' = base]_vars

\* Deferring the repairs loses nothing: draining the tokens in order leaves
\* the order that repairing after each rotation would have left.
DeferredIsEager ==
  /\ eager[Len(eager)].shape = shape
  /\ eager[1].topo = topo
  /\ Len(eager) = Len(pending) + 1

\* The leaves below a node, by the links of s.
LeavesBelow(s) ==
  LET below[n \in Node] == IF n \in Leaf THEN {n}
                           ELSE below[s.left[n]] \cup below[s.right[n]]
  IN  below

\* Leaf m is read before leaf n when the tree is read left to right.
LeftOf(s, below, m, n) ==
  \E t \in Internal : m \in below[s.left[t]] /\ n \in below[s.right[t]]

\* A rotation changes the leaves below no node but the promoted one, and never
\* the left-to-right order of the leaves: the levels it does not rebuild keep
\* their meaning (rotate.rs, "the descendant sets are unchanged").  A crossed
\* move permutes only the leaves below its pivot.
RotationKeepsScopes ==
  [][\A v \in Internal, kind \in Kinds :
       LET w == Promoted(shape, v, kind)
           before == LeavesBelow(shape)
           after  == LeavesBelow(shape')
       IN  /\ Rotate(v, kind) =>
                /\ \A n \in Node \ {w} : after[n] = before[n]
                /\ \A m, n \in Leaf : LeftOf(shape', after, m, n) <=> LeftOf(shape, before, m, n)
           /\ CrossedRotate(v, kind) => \A n \in Node \ {w} : after[n] = before[n]]_vars
==============================================================================
