--------------------------- MODULE MCVtreeRotation ---------------------------
(* VtreeRotation from the balanced vtree of five leaves, whose rotations reach *)
(* every other shape.                                                          *)
EXTENDS VtreeRotation, TLC

\* The laid-out tree with these child links.
Laid(l, r) ==
  [left |-> l, right |-> r,
   parent |-> [n \in Node |-> IF n = Root THEN None
                              ELSE CHOOSE t \in Internal : n \in {l[t], r[t]}]]

\* Vtree::balanced(5).
Layouts5 == {Laid(5 :> 0 @@ 6 :> 2 @@ 7 :> 4 @@ 8 :> 6, 5 :> 1 @@ 6 :> 3 @@ 7 :> 5 @@ 8 :> 7)}
==============================================================================
