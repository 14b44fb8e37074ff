# A verification project for tididi

tididi is a Rust library of tree decision diagrams (TDDs): Boolean functions,
counts and weighted counts represented level by level over a *vtree*, a binary
tree of the variables. This directory holds TLA+ models of its stateful parts,
the TLC runs that check them on small instances, and proofs, checked by TLAPS,
that hold for every size. Paths below are relative to the repository's root.

## Inventory

| Component | Code | State it keeps | Operations | What is hard |
|---|---|---|---|---|
| Vtree rotation and order | `src/vtree/rotate.rs`, `topo.rs` | links, `order`, `pos`, internal view | rotate, unrotate, swap children, deferred repair, commit, revert | order repaired locally and late; several tokens drained in order |
| Retained queries | `src/query/cache.rs`, `evaluator.rs`, `count/incremental.rs` | columns, pins, dirty bits, worklist | set pins, clear, read, replace query, count table | refusals, stops and panics between any two steps; stale columns |
| One-shot queries, values | `src/query/*`, `src/value/*` | columns of one pass | fold, enumerate, compare | order of release of columns |
| Execution contexts | `src/execution/context.rs` | one idle engine behind a mutex | run, with_limits, clear_scratch | threads, nesting, panics, destructors that call back |
| Scratch pools | `src/execution/pool.rs`, `src/diagram/pool.rs` | parked buffers, one ledger, two level slots | checkout, return, drain, admit | nested checkouts, one allowance, panics |
| Limits and cancellation | `src/limits/*` | budget, rules, quiet bounds, clock reading, meters | install, scope, poll, charge, release | cached bounds, amortized clock, callbacks that re-enter |
| Diagram storage and state | `src/diagram/*` | levels, worklists, canonical-form record | edits, renumbering | worklists that must survive refusals |
| Reduction | `src/reduce/*` | pending work per level and per pass, the sweep's working set | prune, contract, merge, leaf pass, slot prune | order of passes, refusal half way, walks that skip what is argued to be done |
| Maintenance | `src/maintain/*` | factor index | replace, update | agreement of index and factors |
| Apply | `src/apply/*` | product tables, owners, cells | and, negate, condition, or, and-not, sum, xor, ite, quantify, and-exists, and in place | what a result owes the passes is inferred, never searched; phases refused half way |
| Marginal levels | `src/marginal/*` | value slots | marginalize, fold | shared slots, references tagged by kind |
| Restructuring and search | `src/restructure/*` | preimages of levels, best-so-far | rotate, graft, relevel, search | rollback of levels and worklists |
| Construction, CNF, I/O, bindings | `src/build`, `src/cnf`, `src/io`, `bindings` | little | conversion | input validation |

The components meet in four places. A *vtree* is shared by the diagrams over it
and mutated in place only by rotations. An *engine*, checked out of a *context*,
owns the pools and the *limits*; every operation polls the limits and returns
scratch to the pools. A *retained query* borrows a diagram and runs under
whatever engine each call brings. A *search* rotates the vtree, rebuilds levels
and puts both back.

`PROJECT.json` lists every component with its source files and status, and
under `hazards` the places in this code that a test would hardly reach, each
with the properties that cover it or the reason none does yet.

## Plan

The modules are ordered so that the code whose correctness the rest relies on,
and whose hazards no unit test reaches, comes first. Every module takes its
sizes as CONSTANTS with named assumptions, has one action per operation or
per point where another actor can step in, and avoids RECURSIVE operators so
that it can be proved about.

| | Modules | Question | State |
|---|---|---|---|
| 1 | `VtreeRotation` | does local, deferred repair of the order keep it right? | checked, proved |
| 2 | `ObservedQuery`, `QueryCache` | is caching invisible to the caller? | checked, proved, the refinement too |
| 3 | `ExecutionContext` | are engines exclusive and clean under threads, nesting and panics? | checked, proved |
| 4 | `StopClock` | do the shortcuts of a cancellation test hide or invent a stop? | checked, proved |
| 5 | `ScratchPools` | do the pools keep to one allowance, the level slots to their promise, and the byte meter to what was charged? | checked, proved |
| 6 | `Diagrams`, `Pruning`, `Contraction`, `Conjunction`, `Negation`, `BooleanFunctions`, `Reduction` | does a diagram's pending work, its loose levels and its certificate tell the truth through operations, passes and refusals, and does the owner get the function promised? | checked, proved, the refinement too |
| 7 | `Disjunction`, `Projection`, `InPlaceConjunction`, `Operations` | the same of the operations put together from those, in several phases | checked; that disjunction, difference and sum are exact proved |
| 8 | `PollGate` | does a bulk charge equal the polls it replaces, and is no unit lost or charged twice? | planned |
| 9 | `RotationTrial` | levels, preimages and worklists put back by a refused or rejected search step; composes `VtreeRotation` and `Diagrams` | planned |
| 10 | `Maintain` | the factor index follows updates | planned |
| 11 | `MarginalSlots` | value slots shared between references, fusion, pruning | planned |
| 12 | `CountVec`, `VtreeBuild` | pure algorithms: the overflow store, the layout that `reindex` gives | planned |

Theorems planned: of `Operations`, soundness by the same route as
`Reduction_proofs`, of which `NodesDisjoint` is a part, and `LooseStaysListed` by
that of `Reduction_canonical`; and that `RotationTrial` implements "nothing
happened" on rejection.

## What is modelled, and how it corresponds to the code

### VtreeRotation

State: `shape` (the links of `Vtree`), `topo` (`TopoOrder`: `order`, `pos` and
the internal view), `pending` (the `PendingTopo` tokens a trial holds), `mode`
(whether a trial is open, being committed or being dropped) and `crossed` (the
swap a crossed pool move owes). `base` and `eager` are history: the links at the
trial's start, and the states that repairing after every rotation would have
gone through.

`Rotate` is `rotate_pointers` by `RotationTrial::rotate`; `CrossedRotate` and
`Mirror` are the child swaps of `move_in_place` and `mirror_at`; `Keep` with
`CommitFirst` is `RotationTrial::commit`, one token per step;
`Discard` with `RevertLast` is its drop and `probe_in_place`.
`FixupAfterRotate` is `TopoOrder::fixup_after_rotate` with its slice rotation
and partition points.

### ObservedQuery and QueryCache

`ObservedQuery` is the promise: observations in force, and every answer the one
a fresh pass would give, or a refusal. `QueryCache` is the implementation:
`value`/`dirty`/`changed` are `Observations`, `evaluated`, `query` and `cols` the
`QueryCache` fields, `pc`, `queue`, `walk`, `todo` and `table` the locals of the
call in flight. A call is split where a refusal, a stop or a panic may fall:
between two pins, two marked ancestors, two folded levels, two rows of a table.
A column is the set of what its computation read, so two columns are equal
exactly when they depend on the same observations, levels and query version.
`AnswersAreFresh` is the refinement `QueryCache => ObservedQuery`, checked as a
property of the `query_cache_tables` run.

### ExecutionContext

`lock`/`idle` are the mutex of `Context` and the engine it guards; `frames` is
per thread the stack of context calls in progress, each at the step of
`run`, `clear_scratch` or `Checkout::drop` it has reached; `armed`, `bound` and
`spoiled` are what an engine carries that the next batch must not see. User
code (a batch, a stop callback, the destructor of what a callback captured) may
call in again, panic, or catch a panic.

### StopClock

`rules`, `callback`, `quiet`, `reading`, `work`, `pairs`, `levelCharge` and
`depth` are the cells of `Limits` of the same meaning. `frames` is the Rust call
stack as far as it matters here: operations (`OperationScope`), configuration
scopes (`LimitScope`) and tests that wait for their callback, which may do
anything with the engine before it decides. A test is one step, except that
asking a callback is one step (`Ask`) and its decision another (`DecidesStop`,
`DecidesContinue`, `DecidesReplace`). `now` is the host's monotonic clock.
`verdict`, `missed` and `promise` are history: the last answer, the tests in a
row that let a due stop pass, and what `cannot_stop_within` last promised.

### ScratchPools

`parked` and `claim` are the `value` and `bytes` of each `Pool`, the two of
`LevelPool` among them, and `ledger` is `ScratchLedger`. `frames` is the call stack
of operations and `PoolGuard`s. A working set is a capacity per buffer, a level
array its length and the bytes it keeps. `Park` is `Pool::put` after its retention
policy, `Releases`: each oversized buffer, or all of them where the working set is
kept as one or has a reason of its own to go. A panic sets `panicking`; guards that
drop until it is caught discard what they hold. Levels in use belong to diagrams,
so an array that comes back is of any length. As history a buffer records how much
of its capacity the operation in flight charged, and `overReturned` what was given
back beyond that.

### Diagrams, and the modules of the reduction

A diagram is a value (`Diagrams`): per internal level a sequence of nodes, each
the set of its pairs, which name slots of the two children (a leaf has three:
positive, negative and true); `out`, the output's slot; `contract` and `leaves`,
the levels listed for the two passes (`Dirty`); `loose`, the levels that may
hold a node nothing names, or `Unknown`; and `certified`, the record of a
canonical output. Slots keep their order, since renumbering, rank and which
node of a group survives depend on it. How a node is stored does not appear.

`Pruning` is `reduce/prune.rs`, with its four walks: whole, below the root,
from the loose levels, and along the one dying node per level of a complement.
`Contraction` is `contract_twins`, `contract_child` and the leaf pass, one child
at a time. `Conjunction` is the sweep of `apply/conjoin`, and what it concludes
about its result: levels carried over, levels owed, levels loose; where the code's
route decides what it notices (`note_operand_level`, `outer_held`), any subset of
what could be noticed is. `Negation` is `apply/negate.rs` and conditioning on
one literal with its propagation of false nodes.

`Reduction` is the owner of one diagram and the calls made on it. `held` is the
owner's diagram, `work` the one a call builds or reduces, and `call` the call
in flight: what was asked, its plan, the step of `Reduction::run_passes` it is
at, and the working set of the twin sweep (`pending`, the parent it is at, which
nodes changed). A sweep takes one step per parent popped and one per child
searched, the leaf pass one per level, and every reservation or poll between
them may refuse (`Refusals`). A refusal drops a result under construction and
leaves a diagram reduced in place as it stands, its lists given back; the next
call starts from there. What a child's refinement finds to merge or drop is
nondeterministic where the code's order of fingerprints decides.

`Disjunction` (`apply/overlay.rs`) splits the nodes of two operands into
disjoint pieces, in the code's order (`PartAt`), and keeps those that have cells; `Projection` (`apply/project`) regroups levels by which nodes
own each atom; `InPlaceConjunction` (`apply/conjoin_in_place.rs`) keeps, rewrites
or multiplies each level by the role the second operand gives it. `Operations`
adds the calls made from them: or, and-not, sum, exists, forall, xor, ite,
and-exists in its three settings, and conjunction in place with and without its
prune. `rest` holds the phases such a call still has to run and `aside` the
result of an earlier one; each phase ends with the same reduction steps, and may
be refused, which drops everything.

`BooleanFunctions` is the promise to the owner: a Boolean function is a set of
models, a call answers with the function its name says or is refused, and
reduction changes no function. `Refines` maps `fn` to the function of the held
diagram (of the one being worked on while it is reduced in place) and `asked`
to the call; every step of every pass is a stutter.

## Runs

| Run | Shows |
|---|---|
| `vtree_rotation` | Every sequence of trials of up to two rotations, crossed moves and mirrorings from the balanced vtree of five leaves: a settled tree has consistent links, a bottom-up order and a sorted internal view; a dropped trial leaves the links it found; repairing late equals repairing at once; only the promoted node's scope changes. |
| `query_cache_columns` | A cache of every column or of a frontier over a vtree with a summed-out level: marks are exact and once each (so that pushes stay within their reservation), unmarked columns and the column a read answers from are current; an incremental refresh folds only ancestors of changes, and a frontier cache holds no column past its last use. |
| `query_cache_tables` | Over two leaves, with tables of both, overriding pins and a replaced query: each read, and each row of a table, is what a fresh pass would answer, a table puts the pins back on every return, and every call returns. |
| `query_cache_refusal` | Violation, see Findings. |
| `execution_context` | Two threads, one of which nests: engines exclusive, parked ones pristine, no user code under the mutex; every call gets an engine and every ended batch returns its own. |
| `stop_clock_meters` | Work and pair rules, meters that saturate, scopes, nested operations and re-entrant callbacks: quiet bounds and promises hide no stop. |
| `stop_clock_readings` | A reading that answers up to three tests: no early stop, and a late one within both bounds. |
| `stop_clock_continue` | Violation, see Findings. |
| `scratch_pools` | Two pools and the level slots on one allowance, with nested checkouts, growth, panics and refused admissions: the ledger is exact and within the allowance, parked sets keep to their policy, the byte meter misses no more than recycled capacity that was given back. |
| `scratch_meter` | Violation, see Findings. |
| `reduction` | Any three calls that load, conjoin, negate, condition, minimize, contract or prune, refused anywhere: the owner's function is the promised one (`Refines`), levels off the lists are at their fixpoint also in mid-sweep, loose levels are listed, certificates are on canonical diagrams only, counts count each model once, and a full reduction leaves one node per residual class. |
| `reduction_operations` | Any two of the composed operations, the second on what the first left: the promise again, nodes of a level disjoint in every diagram a later operation reads, lists and loose levels that miss nothing, minimal results. |

Each property of a passing run has a mutant of the code's definition (a dropped
guard, an off-by-one, a missing reset) under which the same run fails; the
mutated forms stand next to the definitions they change, marked `Mutant:`, and
are listed in `PROJECT.json`.

### Bounds

*Vtrees.* Five leaves give every relation a rotation distinguishes (both kinds,
promoted leaf sibling or subtree) and nodes between the two ends of the repaired
span on both sides; fewer leaves do not. Rotations reach every shape from the
balanced one. With two rotations stacked a later one relinks what an earlier,
unrepaired one did, and the order of draining matters.

*Queries.* Everything a cache may hold is multiplied by where a table may be in
its rows, so each run bounds one of the two. `query_cache_columns` has the vtree
`((0 M) 5)`, `M` a summed-out level over two leaves: its maintained order
and its postorder differ, an ancestor has a child that did not change, and the two
leaves that can be pinned lie at different depths, so that a climb may stop half
way at a marked ancestor. It has two query versions and single pins; the output is
the root, the summed-out level or constant false. `query_cache_tables` has
the vtree `(0 1)`, two versions, batches of two and tables of up to two
variables: a pin overrides an earlier one of its batch, a query is replaced
between reads, the third row of a table needs a carry (`TablePinsNoCarry` is the
mutant that loses it), any row may be refused or unwind, and a read climbs to the
root from either leaf or both. Three variables make a table that is rejected.

*Contexts.* Two threads, one with a call nested in a batch, callback or
destructor; the proofs cover any number that nest to any depth. Four engines are
enough for every call to hold one and one to be idle.

*Stop clock.* The rules have one threshold of each kind on each axis and both
axes armed. `Unbounded`, the width of the meters, is 3, so that saturation is
reached in two charges and thresholds lie at and below it. `ClockPolls` 3 and
`ClockPollWork` 2 let a reading run out by either count first. `MaxFrames` 2
lets an operation be inside a scope, a scope or an operation inside a callback,
and a callback be asked again inside a callback; one asked inside an operation
of another would need three.

*Reduction.* The vtree `((0 1) (2 (3 4)))` has a level of two leaves on either
side, one with a leaf and an internal child, and three internal levels on one
path: a merge can make twins below it, whose merge makes twins below that. The
operands have shared and unshared nodes, constants and a level that names a
leaf in each form. Three calls are one that is refused, one that continues from what it
left, and an operation on the result. `ListedWholeMinWidth` 2 stands for 2^16, so that both ways to search a
listed parent's children occur at its width.

*Operations.* The same vtree; an operand with three nodes in a level, a clause,
whose root branches, and one whose root, spine and one branching level below it
are what `and_in_place` tells apart. Quantified are a leaf of a split level, a
whole subtree, and leaves on both sides. `PushRatio` 2 stands for 16. Two calls
are an operation and one on what it, or its refusal, left; longer histories of
worklists are the `reduction` run's.

*Scratch pools.* Two pools, one of each policy, with two buffers each, and
capacities on both sides of the retention size 1; pools and slots could park more
than the allowance of 4, so admissions are refused. Three frames let a checkout of
a pool lie inside another of the same pool. Arrays of one to three levels are
enough for the slots to hold two different ones and get a longer, a shorter and an
equal one back. `MaxMeter` stops growth once one operation has charged 2, the size
of an oversized buffer.

The proofs remove these bounds, except those on what is only checked (below).

### Fairness

`query_cache_tables` assumes weak fairness of the steps of the call in flight:
the calling thread runs on. `execution_context` assumes the same of each
thread's library code and of destructors, and strong fairness of acquiring the
mutex. Every holder releases it after a bounded number of its own steps, but the
standard mutex does not promise to be fair: that a waiter is served in the end
is an assumption about the host's mutex and scheduler, and the liveness of
calls is no better than that. Nothing is assumed of user code: a batch may run
for ever.

## Findings

*A refusal at entry keeps the cached result* (`query_cache_refusal`). The
documentation of `model_count` says "A refusal invalidates the cached result";
`QueryCache::read` leaves at `lim.enter()?` before anything is invalidated, so a
read refused there keeps a result that is still right. Harmless: the answers
are the same.

*Continue continues under the rules read before the callback was asked*
(`stop_clock_continue`). `StopDecision::Continue` is documented as "Continue
under the current stop rules." `should_stop_now` copies the rules, asks the
callback, and on `Continue` tests the copy. A callback that installs another
configuration while it decides, which the code allows for elsewhere, can be
stopped by a threshold of the configuration it has just replaced. Every other
property holds in those behaviours too: the stop is one the old rules called
for, and the quiet bounds follow the new ones.

*Released scratch gives back more than was charged* (`scratch_meter`).
`release_bytes` asks to be paired with "a real free of the exact charged
capacity", but `release_if_oversized` and `release_all` give back the whole
capacity of a buffer, of which the operation in flight charged only the growth
since it took the buffer from the pool. A buffer recycled at some capacity, grown
past the retention size and released leaves the meter that much below what the
operation charged and still holds, and a soft budget admits as much more. The
amount is bounded by what was recycled (`MeterShortOnlyByRecycled`, which holds).

## Proofs

Eight modules hold proofs, each about the specification in its name (`Reduction`
has three, each extending the one before), for every value of its constants
under the named assumptions there. Each defines an inductive invariant, proves
that `Init` implies it and that every step keeps it, one step of the proof per
action, and reads the theorems off it.

### Assumptions

A tree is laid out as a tree, constants that are not elements are none, sizes
are numbers. Beyond that:

*`QueryCache`.* There is one root; postorder leaves a subtree only when it has
finished it (`OrderAssumption`), as `Vtree` numbers its nodes; and a level below
a marginal one is marginal or a leaf (`MarginalAssumption`), which
`diagram/mod.rs` states as an invariant, `assert_can_make_marginal` enforces and
`check_marginal_level` refuses in what is built.

*`Diagrams`.* The vtree is finite with one root, children numbered before their
parents. `Reduction` assumes of the diagrams a caller brings what `diagram/mod.rs`
tells a reader: references in range, nodes of a level disjoint (of an operation's
result always, of a builder's "only if its author kept it", and `minimize` "does
not repair a violation"), no node empty (`check_structural_level` refuses one as
`EmptyNode`), and that the worklists and the certificate tell the truth (`Tidy`):
a level off the lists owes its pass nothing, loose levels that are known list
every level with a node no pair names, and a certificate is on a canonical
diagram. That is how `seed_worklists` and `seat_canonical` leave a diagram. So
the theorems say that every operation and every refusal keeps these, and nothing of
a diagram built against the builder's contract.

### Invariants and theorems

`VtreeRotation_proofs`. The properties speak of settled trees, but a rotation
leaves the order stale, so they are not inductive. `IInv` follows the history
`eager` instead: a chain in which each element is a valid tree with a valid
order, each one rotation and one repair from the last, and of which the
pending tokens are the links' part. Committing drops the chain's head, dropping
a trial its tail. The lemma under it, `FixupOrder`, is the correctness of the
local repair; `FixupInternal` that of the partition points. That a rotation keeps
the leaves below the nodes it does not rebuild is a fact about one step, but those
leaves are defined by recursion over the tree. `UnderScopes` shows that the
recursion has a solution: a leaf is below a node when every set of nodes that holds
the leaf and, with a node, its parent, holds the node. `RotateScopes` and
`SwapScopes` compare the solutions for the two trees by `TreeInduction`, which takes
a counterexample of least position. Theorems: `TypeCorrect`, `OrderValid`, `DeferredRepair`, `DropRestores`,
`ScopesKept`.

`QueryCache_proofs`. Between two levels of a refresh some columns are stale and
the worklist is half built. `IInv` says for each step of a call which columns
are current: those above no changed leaf while marking, those passed by the walk
while folding, but for released ones; and that a listed level's parent is listed,
but at the top of the climb in progress. Theorems: `TypeCorrect`, `MarksExact`,
`UnmarkedCurrent`, `AnswerCurrent`.

The refinement is in the same module. The pins alone do not say what they will be
once a batch or a table row is through; `PinsInv` relates the pins in force to the pins
asked for by the queue still to be applied (`Pinned`, `Over`), and of a table says
that each row answered is the answer under the observations that row's number
spells, and that at the end the queue puts the asked ones back (`Tabled`,
`Single`). On it rests the refinement: each step of a call is a stutter of
`ObservedQuery` but the one that returns, which answers as a fresh pass would or
refuses. `Climbed` (a listed level is structural and above a listed
leaf) gives that a refresh is local, and `Thin` (what is still to be folded is a tail of the
postorder) that a frontier holds no column past its last use. Theorems: `CacheIsInvisible`,
`PinsKept`, `RefreshIsLocal`, `FrontierThin`.

`ExecutionContext_proofs`. Exclusiveness needs that every call under another one
waits in user code and that a thread is at a locked step exactly when it holds
the mutex; cleanness needs which steps hold an engine and that engines nobody
holds are clean. Theorems: `TypeCorrect`, `Exclusive`, `Pristine`, `Unlocked`.

`StopClock_proofs`. The properties need that `quiet` is always computed from the
rules and callback in force, that readings and open tests lie in the past, that
the tests counted in `missed` were all answered by the one reading held and its
remaining count shrinks as they grow, and, for the type of `depth`, that it
counts the open operations. Theorems: `Types`, `QuietTestsAreSound`,
`StopsAreNeverEarly`, `StopsAreBoundedlyLate`, `PromisesHold`,
`LevelChargesAreCounted`.

`ScratchPools_proofs`. `IInv` types pools, slots and frames together, since what is
parked is what a frame held. `LedgerInv` says that each claim is the bytes of what
is parked and the ledger their sum; `MeterInv` that no buffer was charged more
than it holds, that guards live inside operations, and that meter and
over-returns together reach what frames and pools hold of this operation's
charges. The sums run over slots, over frames and over the buffers of each;
the lemmas at the head of the module add and change one term. Theorems: `TypeCorrect`, `LedgerExact`,
`PolicyKept`, `MeterShortfall`, `TakesAreNearest`, `ReturnsKeepLonger`.

`Reduction_proofs`. A diagram is `Sound` when its references are in range, nodes
of a level other than the root's share no pair of slots and a leaf is named in one form, so
that nodes denote disjoint functions, and a certified one has at most one node
at the root. `IInv` asks this of the owner's diagram and of the one at work, and
of the latter what the next step relies on: one root node after a prune;
the complement's output beside the old one until the old nodes are pruned
(`Beside`); and, in mid-sweep, that the parent at hand is above those
pending and that changes are noted only below parents not searched again
(`Sweeping`). Without the last, a parent's slots would not be what its search
read and a merge would name a wrong node. Each operation has a lemma
that it makes a sound diagram of sound ones: compaction, the four prunes, the
merge of twins, the leaf pass, conjunction with its numbering of products,
completion and complement, conditioning. Theorem `TypeCorrect` follows.
`CountsExact` needs the vtree as a tree: scopes of two children share no leaf
(`ScopesApart`), so the product of two counts is the count of the joins
(`JoinedCount`); by induction from the leaves up, such nodes share no model
(`NodesApart`), so a node's models are as many as the sum over its pairs.

`Reduction_refinement`. A diagram's function is handled one assignment at a time:
`Holds(levels, t, i, z)` says that the assignment `z` satisfies slot `i` at `t`, and
two diagrams have the same function when they hold under the same assignments.
Each pass has a lemma that it changes no function: `PruneFn` (every node a kept one
reaches is kept and renamed), `PruneComplementFn`, `ContractChildFn` (a merged node
holds when one of its twins does, and their parents named them side by side with
the same siblings) and `ContractLeafFn` (a positive and a negative reference with
one partner are a true one). Each operation has one that it makes what it promises:
`ConjunctionsFn` by the numbering of products, `ComplementFn` because a completed
level's nodes partition the assignments, `ConditionFn` because the two forms of
the chosen literal become true or false. The invariant is `Promised`: whatever the
steps still to come, the function of the diagram at work is already the promised
one (`Answers`), for a complement that of the new output over the nodes both
outputs still share. It also says which diagrams have no empty node (`NodesLive`),
since a contraction of a level that had one could merge a node with nothing.
Conditioning is the exception that makes this delicate: it empties nodes and
leaves them in their levels until its prune, so there the invariant says that no
pair names an empty node, and the loose levels are unknown, so that the prune is
a whole one and drops them. Theorem `Refinement`: every step of `Reduction` is a
step of `BooleanFunctions` or a stutter.

Its last sections read the canonical form off the pairs. Which nodes of a level
are twins is seen at the parent: `Cell` is a node's place beside each sibling,
`Names` says that a pair names it, `Same` that two nodes are named in the same
cells. A diagram that is trim and without twins has a node for each residual
class, that is, for each set of completions that some assignment below the level
leaves the function (`Classed`): nodes are taken from the root down, two nodes of
a level that left the same completions would be named from the same places, since
the parent's nodes already differ in theirs, and would be twins; and every node
stands for some completions because it is named and not empty (`AsManyClasses`).

The last section is of the overlay behind disjunction, difference and sum. A leaf
has one form in an operand (`Form`), so an assignment is held by at most one of
a child's nodes there; each piece of a child lies in one node of either operand
or beside them all (`Tells`), and the pieces hold all that either does, or the first of a difference
(`Pieced`). `LevelPieced` passes this from the children to a level, and
`OverlaySplits` up the vtree; at the root the pairs of pieces that are
kept are then the models asked for. Theorem `OverlaysExact`: the result
computes exactly the operands' disjunction, difference or sum, its nodes are again
disjoint, in range and not empty and its leaves of one form, and a sum is refused exactly
where the operands share a model. It assumes of the operands what
`NodesDisjoint` checks of the diagrams `Operations` reads, that a level, the
root's nodes included, names a leaf in one form: `names_one` decides the form by
the first pair it finds.

`Reduction_canonical`. `TidyInv` says of every step what the next pass relies on.
Between calls a diagram is `Kempt`: levels off `contract` have no twins below them
(`FreeOff`), levels off `leaves` no two polarities to fold (`FoldedOff`), known loose
levels list every level with an unnamed node (`Listed`), and a certificate is on a
canonical diagram (`Certain`). Within a call a part of this is suspended and the
invariant says which. In a sweep (`SweepTidy`) a parent that is not pending owes
nothing, the one at hand owes nothing on the side already searched, and where the
sweep searches only nodes whose context changed, any two twins include a changed
one (`MarkedAt`), which is what lets the code skip the others. That this is kept is
the heart of the proof: merging twins changes the parent's pairs, so a merge at one
level makes twins only below it, of parents the sweep has still to come to, and
the nodes it names anew are the ones it notes as changed. `LeavesTidy` says the same of leaves.
`TidyAgain` is why a second sweep after the leaf pass is enough, and `ShapedFor`
says what a prune below the root may assume, that a negation starts from a
certified diagram, and that a full reduction ends in the best form. Each pass is a
map of its parent's pairs, and what it keeps is decided by whether twins of the
result come from twins before (`Follows`). Theorems: `OffListsAtFixpoint`,
`LooseLevelsListed`, `CertifiedAreCanonical`; and, since the best form and the
promise kept (`Promised`) give one node for each residual class,
`FullReductionsAreMinimal`.

Two kinds of step looked out of the prover's reach and are not. Functions
defined by recursion over the vtree are `CHOOSE`n functions that satisfy their equation; that
one exists, and what holds of it level by level, is shown by least
counterexample: the least of a set of numbers (`LeastNumber`) stands in for an induction
theorem that would take an operator as a parameter. And sums over finite sets
are grown the same way from the least set that breaks the claim: in
`ScratchPools_proofs` for bytes, in `Reduction_proofs` for sizes of unions
(`UnionCount`).

### Only checked

Liveness, and with it everything that needs ENABLED, is out of the prover's
reach. Of the safety properties that runs check, `NodesDisjoint` and
`LooseStaysListed` of `Operations` are not proved. They are not a matter of the
tools but of length: they need the lemmas that `Reduction` has for conjunction and
complement once more for projection and conjunction in place; `OverlaysExact` has
those for overlay, as a theorem of what one overlay builds and not of `Operations`'
steps.

## Not modelled

The components without a module, and why, are in the inventory of
`PROJECT.json`: input and output formats, the bindings and instruction set
dispatch are conversions without state of their own; the rest waits for the
modules of the plan.

Of the reduction and the operations, what belongs to marginal levels (pair
fusion, content twins, the slot prune), the stored forms of nodes and levels and
the closing of levels, and the many routes by which the code computes one product
level (dense, sparse, streamed, relabelled, indexed): they leave the same pairs
in the same order, and are one operator each here. Also left out are conjunction
and disjunction of many operands, substitution, conditions of several literals,
conjunction with a clause read in place, restriction to a care set, and weights.
A pair that a fused product's level may hold twice is held once.

Within the other modelled parts: user code that leaks a guard (`mem::forget`) or
drops two of them out of order; the byte budget (the meter is modelled, the
refusal is not), node cap and memory hooks, whose refusals appear only as
outcomes in `QueryCache` and `Reduction`; poisoning of the context's mutex, which
nothing under it can cause; and the numbers themselves, for which what was read
stands.
