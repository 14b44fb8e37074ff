----------------------------- MODULE MCOperations -----------------------------
EXTENDS Operations

\* The vtree ((0 1) (2 (3 4))).
Leaf_    == 0 .. 4
Internal_ == 5 .. 8
Left_    == [t \in Internal_ |-> CASE t = 5 -> 0 [] t = 6 -> 3 [] t = 7 -> 2 [] t = 8 -> 5]
Right_   == [t \in Internal_ |-> CASE t = 5 -> 1 [] t = 6 -> 4 [] t = 7 -> 6 [] t = 8 -> 7]

Term(pos, neg) == Cube([v \in Leaf |-> IF v \in pos THEN Pos ELSE IF v \in neg THEN Neg ELSE One])
Clause(pos, neg) ==
  LET made == Complement(Term(neg, pos)) IN Certified(PruneComplement(made.result, made.old))

\* If 0 then (if 2 then 3 and 4 else 3 and not 4) else (not 2, not 3, and 4).
Choice == Seated(5 :> <<{<<Pos, One>>}, {<<Neg, One>>}>>
                   @@ 6 :> <<{<<Pos, Pos>>}, {<<Pos, Neg>>}, {<<Neg, Pos>>}>>
                   @@ 7 :> <<{<<Pos, 1>>, <<Neg, 2>>}, {<<Neg, 3>>}>>
                   @@ 8 :> <<{<<1, 1>>, <<2, 2>>}>>, 1)

\* 0, and 3 or 4.
Spine == Seated(5 :> <<{<<Pos, One>>}>>
                  @@ 6 :> <<{<<Pos, Pos>>, <<Pos, Neg>>, <<Neg, Pos>>}>>
                  @@ 7 :> <<{<<One, 1>>}>>
                  @@ 8 :> <<{<<1, 1>>}>>, 1)

Operands   == {Choice, Clause({1, 3}, {4}), Spine}
Quantified == {{4}, {3, 4}, {0, 2, 3, 4}}
Fallbacks  == {Clause({1, 3}, {4})}
===============================================================================
