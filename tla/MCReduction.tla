----------------------------- MODULE MCReduction -----------------------------
EXTENDS Reduction

\* The vtree ((0 1) (2 (3 4))).
Leaf_    == 0 .. 4
Internal_ == 5 .. 8
Left_    == [t \in Internal_ |-> CASE t = 5 -> 0 [] t = 6 -> 3 [] t = 7 -> 2 [] t = 8 -> 5]
Right_   == [t \in Internal_ |-> CASE t = 5 -> 1 [] t = 6 -> 4 [] t = 7 -> 6 [] t = 8 -> 7]

Term(pos, neg) == Cube([v \in Leaf |-> IF v \in pos THEN Pos ELSE IF v \in neg THEN Neg ELSE One])

\* Below the root a level's first node is where no literal holds, its second
\* where some does.
Clause(pos, neg) ==
  LET scope[t \in Leaf \cup Internal] == IF t \in Leaf THEN {t} ELSE scope[Left[t]] \cup scope[Right[t]]
      free(t)  == scope[t] \cap (pos \cup neg) = {}
      none(t)  == IF t \in Internal THEN 1 ELSE IF free(t) THEN One ELSE IF t \in pos THEN Neg ELSE Pos
      some(t)  == IF t \in Internal THEN 2 ELSE IF t \in pos THEN Pos ELSE Neg
      slots(t) == IF free(t) THEN {none(t)} ELSE {none(t), some(t)}
      no(t)    == {<<none(Left[t]), none(Right[t])>>}
      yes(t)   == (slots(Left[t]) \X slots(Right[t])) \ no(t)
      level(t) == IF t = Root THEN <<yes(t)>> ELSE IF free(t) THEN <<no(t)>> ELSE <<no(t), yes(t)>>
  IN  Certified(PruneWhole(Seated(Table([t \in Internal |-> level(t)]), 1)))

\* If 0 then (if 2 then 3 and 4 else 3 and not 4) else (not 2, not 3, and 4).
Choice == Seated(5 :> <<{<<Pos, One>>}, {<<Neg, One>>}>>
                   @@ 6 :> <<{<<Pos, Pos>>}, {<<Pos, Neg>>}, {<<Neg, Pos>>}>>
                   @@ 7 :> <<{<<Pos, 1>>, <<Neg, 2>>}, {<<Neg, 3>>}>>
                   @@ 8 :> <<{<<1, 1>>, <<2, 2>>}>>, 1)

Operands == {Choice, Term({2}, {}), Clause({1, 3}, {4}), Conjoin(Clause({0, 3}, {2}), Clause({2, 4}, {}))}
==============================================================================
