----------------------------- MODULE Disjunction -----------------------------
(***************************************************************************)
(* f or g, f and not g, and the sum f + g of two structural diagrams       *)
(* (apply/overlay.rs), up to the reduction each ends with.                 *)
(*                                                                         *)
(* Each node of an operand is split by the other operand's nodes at its    *)
(* level into disjoint pieces; a cell of two pieces lies in the operand    *)
(* node that holds the pair of the pieces' parts, or in none.  No level is *)
(* complemented.  A piece is <<the node of f, the node of g>> it lies in.  *)
(***************************************************************************)
EXTENDS Diagrams

Absent == 0

\* names_one: a level names a leaf in one form throughout; an empty one does
\* not constrain it.
NamesOne(d, c) == Named(d.levels, c) \subseteq {One}

\* Pieces::leaf: One alone where both operands name the leaf so, else the two
\* polarities, each within either operand's label.
LeafParts(f, g, c) ==
  LET one  == [f |-> NamesOne(f, c), g |-> NamesOne(g, c)]
      label(is, x) == IF is THEN One ELSE x
  IN  [x \in (IF one.f /\ one.g THEN {One} ELSE {Pos, Neg}) |-> <<label(one.f, x), label(one.g, x)>>]

\* The cells a node of operand k splits into, over the children's pieces.
Cells(node, k, left, right) ==
  {c \in (DOMAIN left) \X (DOMAIN right) : <<left[c[1]][k], right[c[2]][k]>> \in node}

\* The pair of operand k a cell lies in, which may be of no node.
Under(c, k, left, right) == <<left[c[1]][k], right[c[2]][k]>>

\* index_owners
Owner(level, pair) == IF \E b \in DOMAIN level : pair \in level[b]
                      THEN CHOOSE b \in DOMAIN level : pair \in level[b] ELSE Absent

\* Mutant: the residue of g is every cell of g's node.
ResidueWhole(op, F, node, left, right) == IF op = "and_not" THEN {} ELSE Cells(node, 2, left, right)

\* g's cells no node of f holds; a difference never walks g.
Residue(op, F, node, left, right) ==
  IF op = "and_not" THEN {}
  ELSE {c \in Cells(node, 2, left, right) : Under(c, 1, left, right) \notin PairsOf(F)}

\* inner_level: f's nodes in order, each by the node of g its cells lie in and
\* then those in none, and g's residues.  The m-th is the part PartAt(F, G, m).
PartAt(F, G, m) ==
  LET width == Len(G) + 1
  IN  IF m <= Len(F) * width THEN <<((m - 1) \div width) + 1, m % width>>
      ELSE <<Absent, m - Len(F) * width>>

PartCells(op, F, G, left, right, part) ==
  IF part[1] = Absent THEN Residue(op, F, G[part[2]], left, right)
  ELSE {c \in Cells(F[part[1]], 1, left, right) : Owner(G, Under(c, 2, left, right)) = part[2]}

OverlayLevel(op, F, G, left, right) ==
  LET cells == Table([m \in 1 .. Len(F) * (Len(G) + 1) + Len(G) |->
                        PartCells(op, F, G, left, right, PartAt(F, G, m))])
      made  == Ascending({m \in DOMAIN cells : cells[m] # {}})
  IN  [parts |-> [k \in DOMAIN made |-> PartAt(F, G, made[k])],
       level |-> [k \in DOMAIN made |-> cells[made[k]]]]

\* Mutant: the cells of g's output outside f's are taken for the difference.
RootCellsSwapped(op, f_out, g_out, left, right) ==
  LET of(node, k) == Cells(node, k, left, right)
      outside(cells, node, k) == {c \in cells : Under(c, k, left, right) \notin node}
  IN  IF op = "and_not" THEN outside(of(g_out, 2), f_out, 1)
      ELSE of(f_out, 1) \cup outside(of(g_out, 2), f_out, 1)

\* root_cells
RootCells(op, f_out, g_out, left, right) ==
  LET of(node, k) == Cells(node, k, left, right)
      outside(cells, node, k) == {c \in cells : Under(c, k, left, right) \notin node}
  IN  IF op = "and_not" THEN outside(of(f_out, 1), g_out, 2)
      ELSE of(f_out, 1) \cup outside(of(g_out, 2), f_out, 1)

\* Mutant: a sum is made of any two operands.
SharesNever(f_out, g_out, left, right) == FALSE

\* What a sum refuses: a cell of both outputs.
SharesCell(f_out, g_out, left, right) ==
  \E c \in Cells(g_out, 2, left, right) : Under(c, 1, left, right) \in f_out

\* The levels of both operands split against each other, from the leaves up.
OverlayBelow(op, f, g) ==
  LET over[t \in Leaf \cup Internal] ==
        IF t \in Leaf THEN [parts |-> LeafParts(f, g, t), level |-> <<>>]
        ELSE OverlayLevel(op, f.levels[t], g.levels[t], over[Left[t]].parts, over[Right[t]].parts)
  IN  Table(over)

\* overlay_levels, for operands neither of which is false.  Assembly::finish
\* owes every level to both passes.
OverlayLevels(op, f, g, over) ==
  LET left   == over[Left[Root]].parts
      right  == over[Right[Root]].parts
      f_out  == f.levels[Root][f.out]
      g_out  == g.levels[Root][g.out]
      cells  == RootCells(op, f_out, g_out, left, right)
      levels == [t \in Internal |-> IF t = Root THEN <<cells>> ELSE over[t].level]
  IN  [shared |-> op = "add" /\ SharesCell(f_out, g_out, left, right),
       result |-> IF cells = {} THEN ConstantFalse
                  ELSE Diagram(Table(levels), 1, Internal, Internal, Unknown, FALSE)]

\* overlay_on up to its reduction.
Overlay(op, f, g) ==
  LET as(d) == [shared |-> FALSE, result |-> d]
  IN  IF f.out = Zero THEN as(IF op = "and_not" THEN ConstantFalse ELSE g)
      ELSE IF g.out = Zero THEN as(f)
      ELSE OverlayLevels(op, f, g, OverlayBelow(op, f, g))
==============================================================================
