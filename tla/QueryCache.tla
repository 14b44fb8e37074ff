------------------------------ MODULE QueryCache ------------------------------
(***************************************************************************)
(* The cached columns and pin observations behind `Counter` and            *)
(* `Evaluation` (query/cache.rs, query/fold.rs, query/count/incremental.rs,*)
(* query/evaluator.rs).                                                    *)
(*                                                                         *)
(* An observation marks its leaf; the next read closes the marked leaves   *)
(* under ancestors and folds those levels again.  A read may be refused or *)
(* unwound between any two levels, and inside one: a refusal is followed   *)
(* by `invalidate`, an unwinding by nothing at all.  count_table makes a   *)
(* read per assignment and puts the caller's pins back.                    *)
(*                                                                         *)
(* A column is the set of what its computation read (see ObservedQuery);   *)
(* {} is a released or never computed column.                              *)
(***************************************************************************)
EXTENDS Integers, Sequences, FiniteSets

CONSTANTS Node, Leaf, Marginal,
          Parent, Left, Right,   \* the vtree's links
          Pos,                   \* position in the maintained order
          Post,                  \* position in left-to-right postorder
          Below,                 \* levels a pass reads for a level
          Retentions,            \* the policies a cache may be created with
          Outputs,               \* where the output may be; NoNode: constant false
          Observed,              \* bound: the observations calls pass
          MaxTableVars,
          MaxBatch,              \* bound: observations one call applies
          MaxQuery               \* bound: query versions

VARIABLES retention, output,          \* fixed at creation
          value, dirty, changed,      \* Observations: pins[..].value, .dirty
          evaluated,
          query, cols,                \* QueryCache
          pc, queue, walk, todo,      \* where the call in flight is
          table,                      \* count_table's locals
          asked, result               \* history: the caller's view

NoNode   == -1
Internal == Node \ Leaf
Pinnable == {l \in Leaf : l \notin Marginal /\ Parent[l] \notin Marginal}

Abstract == INSTANCE ObservedQuery

Observation == Abstract!Observation
Seen(n)     == Abstract!Seen(value, n)
Torn        == {<<0, NoNode, "free">>}   \* a column cut in the middle

ASSUME TreeAssumption ==
  /\ Leaf \subseteq Node /\ Node \subseteq Nat /\ Marginal \subseteq Node
  /\ IsFiniteSet(Node)
  /\ Parent \in [Node -> Internal \cup {NoNode}]
  /\ Left \in [Internal -> Node] /\ Right \in [Internal -> Node]
  /\ \A n \in Internal : Parent[Left[n]] = n /\ Parent[Right[n]] = n
  /\ \A n \in Node : Parent[n] # NoNode => n \in {Left[Parent[n]], Right[Parent[n]]}
  /\ \A m, n \in Node : Parent[m] = NoNode /\ Parent[n] = NoNode => m = n

\* A level's subtree: itself and the levels whose every way up passes it.
UpClosed == {s \in SUBSET Node : \A n \in s : Parent[n] # NoNode => Parent[n] \in s}
Subtree  == [p \in Node |-> {n \in Node : \A s \in UpClosed : n \in s => p \in s}]

\* Both orders put children first, and postorder finishes a subtree before it
\* leaves it.
ASSUME OrderAssumption ==
  /\ Pos \in [Node -> Nat] /\ Post \in [Node -> Nat]
  /\ \A m, n \in Node : m # n => Pos[m] # Pos[n] /\ Post[m] # Post[n]
  /\ \A n \in Node : Parent[n] # NoNode => Pos[n] < Pos[Parent[n]] /\ Post[n] < Post[Parent[n]]
  /\ \A n, k \in Node : Parent[n] # NoNode /\ Post[n] < Post[k] /\ Post[k] <= Post[Parent[n]]
                          => k \in Subtree[Parent[n]]
\* Marginality is downward closed: a level below a marginal one is marginal or a leaf.
ASSUME MarginalAssumption ==
  \A n \in Marginal \cap Internal : {Left[n], Right[n]} \subseteq Leaf \cup Marginal
ASSUME BelowAssumption ==
  Below = [n \in Node |-> Below[n]] /\
  \A n \in Node : Below[n] = {n} \cup (IF n \in Leaf \cup Marginal THEN {}
                                        ELSE Below[Left[n]] \cup Below[Right[n]])
ASSUME CreationAssumption == /\ Retentions \subseteq {"All", "Frontier"}
                             /\ Outputs \subseteq Node \cup {NoNode}
ASSUME BoundAssumption == Observed \subseteq Observation /\ MaxTableVars \in Nat /\ MaxBatch \in Nat /\ MaxQuery \in Nat \ {0}

NoTable == [on |-> FALSE, listed |-> <<>>, before |-> <<>>, rows |-> <<>>, failed |-> FALSE]
NoWalk  == [leaf |-> 0, cur |-> NoNode, leaves |-> 0, full |-> FALSE]

observations == <<value, dirty, changed, evaluated>>
fixed        == <<retention, output>>
vars == <<fixed, observations, query, cols, pc, queue, walk, todo, table, asked, result>>

Elements(s) == {s[i] : i \in 1 .. Len(s)}

Init == /\ retention \in Retentions
        /\ output \in Outputs
        /\ value = [l \in Leaf |-> "free"]
        /\ dirty = [n \in Node |-> FALSE]
        /\ changed = <<>>
        /\ evaluated = FALSE
        /\ query = 1
        /\ cols = [n \in Node |-> {}]
        /\ pc = "idle" /\ queue = <<>> /\ walk = NoWalk /\ todo = {}
        /\ table = NoTable
        /\ asked = value
        /\ result = Abstract!None
------------------------------------------------------------------------------
(* Observations. *)

\* Mutant: the list is cleared and its marks stay.
UndirtyNothing == dirty

\* Observations::clear_changed, as the new value of `dirty`.
Undirty == [n \in Node |-> IF n \in Elements(changed) THEN FALSE ELSE dirty[n]]

ClearChanged == changed' = <<>> /\ dirty' = Undirty

\* Observations::invalidate
Invalidate == evaluated' = FALSE /\ ClearChanged /\ UNCHANGED value

\* Mutant: a marked leaf is listed again.
SetLeafPinTwice(leaf, val) ==
  /\ value' = [value EXCEPT ![leaf] = val]
  /\ \/ /\ ~evaluated
        /\ ClearChanged
     \/ /\ evaluated
        /\ changed' = IF value[leaf] = val THEN changed ELSE Append(changed, leaf)
        /\ dirty' = [dirty EXCEPT ![leaf] = TRUE]
  /\ UNCHANGED evaluated

\* Mutant: under Frontier nothing says the answer is out of date.
SetLeafPinKeepsAnswer(leaf, val) ==
  /\ value' = [value EXCEPT ![leaf] = val]
  /\ UNCHANGED <<dirty, changed, evaluated>>

\* set_leaf_pin
SetLeafPin(leaf, val) ==
  /\ value' = [value EXCEPT ![leaf] = val]
  /\ \/ /\ retention = "Frontier"
        /\ evaluated' = (evaluated /\ value[leaf] = val)
        /\ UNCHANGED <<dirty, changed>>
     \/ /\ retention = "All" /\ ~evaluated
        /\ ClearChanged
        /\ UNCHANGED evaluated
     \/ /\ retention = "All" /\ evaluated
        /\ IF value[leaf] = val \/ dirty[leaf]
           THEN UNCHANGED <<dirty, changed>>
           ELSE /\ changed' = Append(changed, leaf)
                /\ dirty' = [dirty EXCEPT ![leaf] = TRUE]
        /\ UNCHANGED evaluated

Enters(step)     == pc' = step /\ result' = Abstract!None
Returns(outcome) == pc' = "idle" /\ result' = outcome
Rejects == /\ Returns(Abstract!Outcome("rejected", <<>>))
           /\ UNCHANGED <<fixed, observations, query, cols, queue, walk, todo, table, asked>>

\* set_pin, set_pins and observe: validate every pin, then apply them in order.
ApplyPins(batch) ==
  /\ pc = "idle"
  /\ \/ ~Abstract!Valid(batch) /\ Rejects
     \/ /\ Abstract!Valid(batch)
        /\ Enters("pin") /\ queue' = batch
        /\ asked' = Abstract!Override(asked, batch)
        /\ UNCHANGED <<fixed, observations, query, cols, walk, todo, table>>

ClearPins ==
  LET pinned == {l \in Leaf : value[l] # "free"}
  IN  /\ pc = "idle"
      /\ Enters("pin")
      /\ \E s \in [1 .. Cardinality(pinned) -> pinned] :
           /\ \A i, j \in DOMAIN s : i < j => s[i] < s[j]
           /\ queue' = [i \in DOMAIN s |-> [leaf |-> s[i], value |-> "free"]]
      /\ asked' = [l \in Leaf |-> "free"]
      /\ UNCHANGED <<fixed, observations, query, cols, walk, todo, table>>

ApplyPin ==
  /\ pc = "pin" /\ queue # <<>>
  /\ SetLeafPin(queue[1].leaf, queue[1].value)
  /\ queue' = Tail(queue)
  /\ UNCHANGED <<fixed, query, cols, pc, walk, todo, table, asked, result>>

\* Mutant: the columns of the query before stay.
ReplaceQueryKeepsColumns ==
  /\ pc = "idle" /\ query < MaxQuery
  /\ query' = query + 1
  /\ Enters("idle")
  /\ UNCHANGED <<fixed, observations, cols, queue, walk, todo, table, asked>>

\* replace_algebra, or a `prepare` that succeeds: columns laid out by another
\* query must not be read again.
ReplaceQuery ==
  /\ pc = "idle" /\ query < MaxQuery
  /\ query' = query + 1
  /\ Invalidate
  /\ Enters("idle")
  /\ UNCHANGED <<fixed, cols, queue, walk, todo, table, asked>>
------------------------------------------------------------------------------
(* A read. *)

\* Mutant: the increment's carry is lost.
TablePinsNoCarry(row) == SubSeq(Abstract!RowPins(table.listed, row), 1, 1)

\* The pins set before a row: every one for row 0, and trailing_zeros + 1 of
\* them later, the bits the increment carries through.
TablePins(row) ==
  LET width == Cardinality({t \in 1 .. Len(table.listed) : row % 2^(t - 1) = 0})
  IN  SubSeq(Abstract!RowPins(table.listed, row), 1, width)

\* Mutant: a refused row is read again.
ReadRefusedRetries ==
  \/ /\ ~table.on
     /\ Returns(Abstract!Outcome("refused", <<>>))
     /\ UNCHANGED <<queue, table>>
  \/ /\ table.on
     /\ pc' = "read"
     /\ UNCHANGED <<queue, table, result>>

\* The end of a read: the caller gets it, or count_table goes on.  An error
\* leaves the loop over the rows, and the pins it set are put back.
ReadRefused ==
  \/ /\ ~table.on
     /\ Returns(Abstract!Outcome("refused", <<>>))
     /\ UNCHANGED <<queue, table>>
  \/ /\ table.on
     /\ pc' = "pin" /\ queue' = table.before
     /\ table' = [table EXCEPT !.failed = TRUE]
     /\ UNCHANGED result

ReadReturns(answer) ==
  LET row == Len(table.rows) + 1
  IN  \/ /\ ~table.on
         /\ Returns(Abstract!Outcome("value", <<answer>>))
         /\ UNCHANGED <<queue, table>>
      \/ /\ table.on
         /\ pc' = "pin"
         /\ queue' = IF row = 2^Len(table.listed) THEN table.before ELSE TablePins(row)
         /\ table' = [table EXCEPT !.rows = Append(@, answer)]
         /\ UNCHANGED result

BeginRead == /\ pc = "idle"
             /\ Enters("read")
             /\ UNCHANGED <<fixed, observations, query, cols, queue, walk, todo, table, asked>>

\* lim.enter()? : the stop refuses before anything is looked at.
EnterRefused == /\ pc = "read"
                /\ ReadRefused
                /\ UNCHANGED <<fixed, observations, query, cols, walk, todo, asked>>

\* A constant-false diagram, or columns with nothing pending.
NothingToRefresh == /\ pc = "read"
                    /\ output = NoNode \/ (evaluated /\ changed = <<>>)
                    /\ pc' = "finish"
                    /\ UNCHANGED <<fixed, observations, query, cols, queue, walk, todo, table, asked, result>>

MustRefresh == pc = "read" /\ output # NoNode /\ ~(evaluated /\ changed = <<>>)

StartIncremental ==
  /\ MustRefresh
  /\ evaluated /\ retention = "All"
  /\ evaluated' = FALSE
  /\ pc' = "close"
  /\ walk' = [leaf |-> 1, cur |-> changed[1], leaves |-> Len(changed), full |-> FALSE]
  /\ UNCHANGED <<fixed, value, dirty, changed, query, cols, queue, todo, table, asked, result>>

StartFull ==
  /\ MustRefresh
  /\ ~(evaluated /\ retention = "All")
  /\ evaluated' = FALSE
  /\ cols' = IF retention = "Frontier" THEN [n \in Node |-> {}] ELSE cols
  /\ pc' = "fold"
  /\ todo' = Node
  /\ walk' = [NoWalk EXCEPT !.full = TRUE]
  /\ UNCHANGED <<fixed, value, dirty, changed, query, queue, table, asked, result>>

\* add_ancestors: one step per level pushed and one per leaf finished.
\* Mutant: only the parent of a changed leaf is marked.
PathMarkedOneUp == walk.cur \in Leaf /\ Parent[walk.cur] # NoNode => dirty[Parent[walk.cur]]

PathMarked == Parent[walk.cur] # NoNode => dirty[Parent[walk.cur]]

\* Mutant: the climb does not stop at the root.
MarkPastRoot ==
  LET parent == Parent[walk.cur]
  IN  /\ pc = "close" /\ (parent = NoNode \/ ~PathMarked)
      /\ changed' = Append(changed, parent)
      /\ dirty' = [n \in Node |-> n = parent \/ dirty[n]]
      /\ walk' = [walk EXCEPT !.cur = parent]
      /\ UNCHANGED <<fixed, value, evaluated, query, cols, pc, queue, todo, table, asked, result>>

MarkAncestor ==
  LET parent == Parent[walk.cur]
  IN  /\ pc = "close" /\ ~PathMarked
      /\ changed' = Append(changed, parent)
      /\ dirty' = [dirty EXCEPT ![parent] = TRUE]
      /\ walk' = [walk EXCEPT !.cur = parent]
      /\ UNCHANGED <<fixed, value, evaluated, query, cols, pc, queue, todo, table, asked, result>>

\* Mutant: every level from the first changed one on is folded.
NextLeafFoldsRest ==
  /\ pc = "close" /\ PathMarked
  /\ \/ /\ walk.leaf < walk.leaves
        /\ walk' = [walk EXCEPT !.leaf = @ + 1, !.cur = changed[walk.leaf + 1]]
        /\ UNCHANGED <<pc, todo>>
     \/ /\ walk.leaf = walk.leaves
        /\ pc' = "fold"
        /\ todo' = {n \in Node : \E m \in Elements(changed) : Pos[m] <= Pos[n]}
        /\ UNCHANGED walk
  /\ UNCHANGED <<fixed, observations, query, cols, queue, table, asked, result>>

NextLeaf ==
  /\ pc = "close" /\ PathMarked
  /\ \/ /\ walk.leaf < walk.leaves
        /\ walk' = [walk EXCEPT !.leaf = @ + 1, !.cur = changed[walk.leaf + 1]]
        /\ UNCHANGED <<pc, todo>>
     \/ /\ walk.leaf = walk.leaves
        /\ pc' = "fold" /\ todo' = Elements(changed)
        /\ UNCHANGED walk
  /\ UNCHANGED <<fixed, observations, query, cols, queue, table, asked, result>>

\* fold_level
Fold(n) == {<<query, n, Seen(n)>>}
             \cup (IF n \in Leaf \cup Marginal THEN {} ELSE cols[Left[n]] \cup cols[Right[n]])

\* Mutant: the changed levels are folded as they were marked, unsorted.
IsNextAsMarked(n) ==
  LET at(m) == CHOOSE i \in DOMAIN changed : changed[i] = m
  IN  n \in todo /\ \A m \in todo : IF walk.full THEN Post[n] <= Post[m] ELSE at(n) <= at(m)

\* Next level of the walk: postorder for a full pass, the maintained order for
\* the sorted changed levels.
IsNext(n) == n \in todo /\ \A m \in todo : IF walk.full THEN Post[n] <= Post[m] ELSE Pos[n] <= Pos[m]

\* Mutant: the right child is kept.
ReleasedLeft(n) == IF walk.full /\ retention = "Frontier" /\ n \in Internal
                   THEN {Left[n]} \ {output} ELSE {}

\* Children a full frontier walk releases once n is complete.
Released(n) == IF walk.full /\ retention = "Frontier" /\ n \in Internal
               THEN {Left[n], Right[n]} \ {output} ELSE {}

FoldLevel(n) ==
  /\ pc = "fold" /\ IsNext(n)
  /\ cols' = [m \in Node |-> IF m = n THEN Fold(n) ELSE IF m \in Released(n) THEN {} ELSE cols[m]]
  /\ todo' = todo \ {n}
  /\ UNCHANGED <<fixed, observations, query, pc, queue, walk, table, asked, result>>

Refreshed == /\ pc = "fold" /\ todo = {}
             /\ ClearChanged /\ evaluated' = TRUE
             /\ pc' = "finish"
             /\ walk' = NoWalk
             /\ UNCHANGED <<fixed, value, query, cols, queue, todo, table, asked, result>>

\* gate.finish() lets the answer out.
FinishRead ==
  /\ pc = "finish"
  /\ ReadReturns(IF output = NoNode THEN {<<query, NoNode, "free">>} ELSE cols[output])
  /\ UNCHANGED <<fixed, observations, query, cols, walk, todo, asked>>

\* The level being written when the walk is cut keeps its old values, or part
\* of the new ones.
MayTear == \/ UNCHANGED cols
           \/ \E n \in todo : pc = "fold" /\ IsNext(n) /\ cols' = [cols EXCEPT ![n] = Torn]

\* A refused reservation, or a stop at a poll.
RefuseRead == /\ pc \in {"close", "fold", "finish"}
              /\ Invalidate
              /\ MayTear
              /\ ReadRefused
              /\ walk' = NoWalk /\ todo' = {}
              /\ UNCHANGED <<fixed, query, asked>>

\* User arithmetic or a stop callback panics: nothing below it runs, neither
\* `invalidate` nor count_table's restoring set_pins.
Unwind == /\ pc \in {"read", "close", "fold", "finish"}
          /\ MayTear
          /\ Returns(Abstract!Outcome("unwound", <<>>))
          /\ queue' = <<>> /\ walk' = NoWalk /\ todo' = {} /\ table' = NoTable
          /\ asked' = value
          /\ UNCHANGED <<fixed, observations, query>>
------------------------------------------------------------------------------
(* count_table. *)

\* The checks and the table's reservation, before anything is counted.
Tabulable(listed) == /\ Len(listed) <= MaxTableVars
                     /\ \A i, j \in 1 .. Len(listed) : listed[i] = listed[j] => i = j
                     /\ \A i \in 1 .. Len(listed) : listed[i] \in Pinnable

CountTable(listed) ==
  /\ pc = "idle"
  /\ \/ ~Tabulable(listed) /\ Rejects
     \/ /\ Tabulable(listed)
        /\ Enters("pin")
        /\ table' = [on |-> TRUE, listed |-> listed, rows |-> <<>>, failed |-> FALSE,
                     before |-> [i \in 1 .. Len(listed) |->
                                   [leaf |-> listed[i], value |-> value[listed[i]]]]]
        /\ queue' = Abstract!RowPins(listed, 0)
        /\ UNCHANGED <<fixed, observations, query, cols, walk, todo, asked>>

\* The table's own entry, or its reservation, is refused.
TableRefused == /\ pc = "idle"
                /\ Returns(Abstract!Outcome("refused", <<>>))
                /\ UNCHANGED <<fixed, observations, query, cols, queue, walk, todo, table, asked>>

\* The rows are over, or one failed, and the caller's pins are back.
TableOver == table.on /\ (table.failed \/ Len(table.rows) = 2^Len(table.listed))

\* Mutant: a failed row returns before the pins are put back.
PinsAppliedEarly ==
  /\ pc = "pin"
  /\ IF table.on /\ table.failed THEN queue' = <<>> ELSE queue = <<>> /\ UNCHANGED queue
  /\ \/ /\ ~table.on /\ pc' = "idle"
        /\ UNCHANGED <<table, result>>
     \/ /\ table.on /\ ~TableOver /\ pc' = "read"
        /\ UNCHANGED <<table, result>>
     \/ /\ TableOver
        /\ Returns(IF table.failed THEN Abstract!Outcome("refused", <<>>)
                                   ELSE Abstract!Outcome("table", table.rows))
        /\ table' = NoTable
  /\ UNCHANGED <<fixed, observations, query, cols, walk, todo, asked>>

PinsApplied ==
  /\ pc = "pin" /\ queue = <<>>
  /\ \/ /\ ~table.on /\ pc' = "idle"
        /\ UNCHANGED <<table, result>>
     \/ /\ table.on /\ ~TableOver /\ pc' = "read"
        /\ UNCHANGED <<table, result>>
     \/ /\ TableOver
        /\ Returns(IF table.failed THEN Abstract!Outcome("refused", <<>>)
                                   ELSE Abstract!Outcome("table", table.rows))
        /\ table' = NoTable
  /\ UNCHANGED <<fixed, observations, query, cols, queue, walk, todo, asked>>
------------------------------------------------------------------------------
Batches == Abstract!Batches
Listings == UNION {[1 .. n -> Leaf] : n \in 0 .. MaxTableVars + 1}

\* A call in flight runs on: it holds the cache by `&mut self`.
Continue == \/ ApplyPin \/ PinsApplied
            \/ EnterRefused \/ NothingToRefresh \/ StartIncremental \/ StartFull
            \/ MarkAncestor \/ NextLeaf
            \/ \E n \in Node : FoldLevel(n)
            \/ Refreshed \/ FinishRead \/ RefuseRead \/ Unwind

Call == \/ \E batch \in Batches : ApplyPins(batch)
        \/ ClearPins \/ ReplaceQuery \/ BeginRead
        \/ \E listed \in Listings : CountTable(listed)
        \/ TableRefused

Next == Call \/ Continue
Spec == Init /\ [][Next]_vars
FairSpec == Spec /\ WF_vars(Continue)
------------------------------------------------------------------------------
(* Properties. *)

Steps   == {"idle", "pin", "read", "close", "fold", "finish"}
Reading == (0 .. MaxQuery) \X (Node \cup {NoNode}) \X Observation
LeafPin == [leaf : Leaf, value : Observation]
Tabling == [on : BOOLEAN, listed : Seq(Leaf), before : Seq(LeafPin),
            rows : Seq(SUBSET Reading), failed : BOOLEAN]
Walking == [leaf : Nat, cur : Node \cup {NoNode}, leaves : Nat, full : BOOLEAN]

\* Every variable has its type: columns hold readings of levels, marks and
\* worklists hold levels, and the call in flight is at a step of its code.
TypeOK ==
  /\ retention \in {"All", "Frontier"} /\ output \in Node \cup {NoNode}
  /\ value \in [Leaf -> Observation]
  /\ dirty \in [Node -> BOOLEAN]
  /\ changed \in Seq(Node)
  /\ evaluated \in BOOLEAN
  /\ query \in 1 .. MaxQuery
  /\ cols \in [Node -> SUBSET Reading]
  /\ pc \in Steps
  /\ queue \in Seq(LeafPin)
  /\ walk \in Walking
  /\ todo \subseteq Node
  /\ table \in Tabling

\* Whatever pins were set, refused reads retried, panics caught and queries
\* replaced before it, a read returns what a pass over the whole diagram would
\* return now, and a table the same for each of its assignments: caching is
\* invisible (QueryCache::read, count_table).
AnswersAreFresh == Abstract!Spec

\* A column above no marked leaf is current whenever the cache says it is
\* evaluated: the reason an incremental refresh may leave the others alone.
UnmarkedAreCurrent ==
  evaluated /\ retention = "All" =>
    \A n \in Node : Below[n] \cap Elements(changed) = {} => cols[n] = Abstract!Fresh(query, value, n)

\* The column a read is about to answer from is current, whichever levels are
\* summed out: a cached answer, an incremental refresh and a full pass agree.
AnswerIsCurrent ==
  pc = "finish" /\ output # NoNode => cols[output] = Abstract!Fresh(query, value, output)

\* The dirty bits are exactly membership in `changed`, once each, through
\* refusals and unwindings that leave both half built: add_ancestors stops at
\* a dirty parent only because its ancestors are already listed.
DirtyIsListed ==
  /\ \A n \in Node : dirty[n] <=> n \in Elements(changed)
  /\ \A i, j \in 1 .. Len(changed) : changed[i] = changed[j] => i = j

\* Between calls the pins are the ones the caller asked for: a batch applies
\* whole or not at all, and a table puts back the pins it found, an error in
\* any of its reads included.
PinsAsAsked == pc = "idle" => value = asked

\* A frontier walk holds a column only while its parent is still to come, at
\* most one per ancestor of the level being computed, the output aside.
FrontierIsThin ==
  retention = "Frontier" /\ pc = "fold" =>
    \A n \in Node \ {output} : cols[n] # {} =>
      \A next \in Node : IsNext(next) => Parent[n] # NoNode /\ next \in Subtree[Parent[n]]

\* After a change an incremental read folds only the changed leaves and their
\* ancestors: every level it will write reads a leaf that is marked.
RefreshesOnlyAncestors ==
  pc = "fold" /\ ~walk.full =>
    \A n \in todo : \E l \in Leaf \cap Elements(changed) : l \in Below[n]

\* Every call comes back: the marking of ancestors, the walk over the levels
\* and the rows of a table all run out, whatever is refused on the way.
CallsReturn == (pc # "idle") ~> (pc = "idle")

\* model_count: "A refusal invalidates the cached result".
RefusalInvalidates ==
  [][pc = "read" /\ result' = Abstract!Outcome("refused", <<>>) /\ pc' = "idle" => ~evaluated']_vars
==============================================================================
