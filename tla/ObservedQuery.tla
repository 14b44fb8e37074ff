----------------------------- MODULE ObservedQuery -----------------------------
(***************************************************************************)
(* What a retained query (`Counter`, `Evaluation`) promises its caller:    *)
(* observations change as asked, and every answer is the one a fresh pass  *)
(* over the diagram would give under the observations and the query in     *)
(* force, or a refusal.  Nothing here is cached.                           *)
(*                                                                         *)
(* A value is the set of what was read to compute it: one triple           *)
(* <<query, level, observation>> per level at or below the one asked for.  *)
(* Two computations that read the same things return the same number in    *)
(* every algebra.                                                          *)
(***************************************************************************)
EXTENDS Integers, Sequences, FiniteSets

CONSTANTS Node, Leaf,        \* vtree nodes and its leaves
          Below,             \* Below[n]: the levels a pass reads for level n
          Pinnable,          \* leaves whose structure is not summed out
          MaxTableVars,      \* MAX_COUNT_TABLE_VARS
          Outputs,           \* where the output may be
          Observed,          \* bound: the observations calls pass
          MaxBatch           \* bound: observations one call applies

VARIABLES output,            \* the output node's level, NoNode for constant false
          asked,             \* the observations the caller has in force
          query,             \* version of the query: algebra or prepared layout
          result             \* what the last operation returned

NoNode       == -1
Observation  == {"free", "true", "false"}
Pin          == [leaf : Leaf \cup {NoNode}, value : Observed]

Seen(pins, n)     == IF n \in Leaf THEN pins[n] ELSE "free"
Fresh(q, pins, n) == {<<q, m, Seen(pins, m)>> : m \in Below[n]}
Answer(q, pins)   == IF output = NoNode THEN {<<q, NoNode, "free">>}
                     ELSE Fresh(q, pins, output)

Outcome(kind, rows) == [kind |-> kind, rows |-> rows]
None                == Outcome("none", <<>>)
Failure             == {Outcome("refused", <<>>), Outcome("unwound", <<>>)}

Batches == UNION {[1 .. n -> Pin] : n \in 0 .. MaxBatch}

\* The last value of a leaf in the batch wins.
Override(pins, batch) ==
  [l \in Leaf |->
     LET at == {i \in 1 .. Len(batch) : batch[i].leaf = l}
     IN  IF at = {} THEN pins[l]
         ELSE batch[CHOOSE i \in at : \A j \in at : j <= i].value]

\* Row `row` of a table over `listed`: variable k has bit k of the row.
Bit(row, k)          == (row \div 2^k) % 2
RowPins(listed, row) == [k \in 1 .. Len(listed) |->
                           [leaf  |-> listed[k],
                            value |-> IF Bit(row, k - 1) = 1 THEN "true" ELSE "false"]]
Valid(batch)         == \A i \in 1 .. Len(batch) : batch[i].leaf \in Pinnable
------------------------------------------------------------------------------
Init == /\ output \in Outputs
        /\ asked = [l \in Leaf |-> "free"]
        /\ query = 1
        /\ result = None

\* A batch takes effect whole or not at all.
SetPins(batch) ==
  \/ /\ Valid(batch)
     /\ result' = None
     /\ asked' = Override(asked, batch)
     /\ UNCHANGED <<output, query>>
  \/ /\ ~Valid(batch)
     /\ result' = Outcome("rejected", <<>>)
     /\ UNCHANGED <<output, asked, query>>

ClearPins == /\ asked' = [l \in Leaf |-> "free"]
             /\ result' = None
             /\ UNCHANGED <<output, query>>

ReplaceQuery == /\ query' = query + 1
                /\ result' = None
                /\ UNCHANGED <<output, asked>>

\* A call that may take several steps is under way.
Begin == /\ result' = None
         /\ UNCHANGED <<output, asked, query>>

Read == /\ result' \in {Outcome("value", <<Answer(query, asked)>>)} \cup Failure
        /\ UNCHANGED <<output, asked, query>>

\* Every listed assignment in order, each under the caller's other pins.
CountTable(listed) ==
  LET row(r) == Answer(query, Override(asked, RowPins(listed, r - 1)))
  IN  /\ Len(listed) <= MaxTableVars
      /\ \A i, j \in 1 .. Len(listed) : listed[i] = listed[j] => i = j
      /\ Valid(RowPins(listed, 0))
      /\ result' = Outcome("table", [r \in 1 .. 2^Len(listed) |-> row(r)])
      /\ UNCHANGED <<output, asked, query>>

Refuse == /\ result' \in Failure \cup {Outcome("rejected", <<>>)}
          /\ UNCHANGED <<output, asked, query>>

\* A panic inside a table abandons it with the pins of its row in place.
AbandonTable(listed) ==
  /\ result' = Outcome("unwound", <<>>)
  /\ \E row \in 0 .. 2^Len(listed) - 1 : asked' = Override(asked, RowPins(listed, row))
  /\ UNCHANGED <<output, query>>

Tables == UNION {[1 .. n -> Leaf] : n \in 0 .. MaxTableVars}

Next == \/ Begin
        \/ ClearPins
        \/ \E batch \in Batches : SetPins(batch)
        \/ ReplaceQuery
        \/ Read
        \/ Refuse
        \/ \E listed \in Tables : CountTable(listed) \/ AbandonTable(listed)

vars == <<output, asked, query, result>>
Spec == Init /\ [][Next]_vars
==============================================================================
