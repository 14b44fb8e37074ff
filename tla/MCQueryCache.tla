----------------------------- MODULE MCQueryCache -----------------------------
(* Two vtrees.  In ((0 M) 5), where M is the level over 1 and 2, the level M   *)
(* is summed out, the maintained order and the postorder differ, and the       *)
(* leaves that can be pinned lie at different depths.  (0 1) is small enough   *)
(* for the rows of tables of both its variables.                               *)
EXTENDS QueryCache, TLC

ColumnNode   == 0 .. 6
ColumnLeaf   == {0, 1, 2, 5}
ColumnParent == (0 :> 4) @@ (1 :> 3) @@ (2 :> 3) @@ (3 :> 4) @@ (4 :> 6) @@ (5 :> 6) @@ (6 :> NoNode)
ColumnLeft   == (3 :> 1) @@ (4 :> 0) @@ (6 :> 4)
ColumnRight  == (3 :> 2) @@ (4 :> 3) @@ (6 :> 5)
ColumnPos    == (5 :> 3) @@ (3 :> 4) @@ (4 :> 5) @@ [n \in {0, 1, 2, 6} |-> n]
ColumnPost   == [n \in ColumnNode |-> n]
ColumnBelow  == [n \in ColumnNode |-> CASE n = 6 -> {0, 3, 4, 5, 6} [] n = 4 -> {0, 3, 4} [] OTHER -> {n}]

MarginalRootOrFalse == {3, 6, NoNode}
-------------------------------------------------------------------------------
PairNode   == 0 .. 2
PairLeaf   == 0 .. 1
PairParent == (0 :> 2) @@ (1 :> 2) @@ (2 :> NoNode)
PairLeft   == 2 :> 0
PairRight  == 2 :> 1
PairPos    == [n \in PairNode |-> n]
PairBelow  == [n \in PairNode |-> IF n = 2 THEN PairNode ELSE {n}]
==============================================================================
