--------------------------- MODULE BooleanFunctions ---------------------------
(***************************************************************************)
(* What an owner of one diagram is promised: it holds a Boolean function,  *)
(* an operation asked for gives exactly its function or is refused and     *)
(* leaves the function held, and nothing else ever changes it.             *)
(*                                                                         *)
(* A function is the set of its satisfying assignments, an assignment the  *)
(* set of variables it makes true.                                         *)
(***************************************************************************)
EXTENDS Naturals

CONSTANTS Variable,
          Operand      \* functions other operands compute

VARIABLES fn, asked    \* the function held; the call in flight

Assignment == SUBSET Variable

Calls == [name : {"and", "load", "or", "and_not", "xor", "add"}, operand : Operand]
           \cup [name : {"ite"}, operand : Operand, otherwise : Operand]
           \cup [name : {"negate", "minimize"}]
           \cup [name : {"condition"}, var : Variable, value : BOOLEAN]
           \cup [name : {"exists", "forall"}, vars : SUBSET Variable]
           \cup [name : {"and_exists"}, operand : Operand, vars : SUBSET Variable]
Idle == [name |-> "idle"]

Override(a, v, value) == IF value THEN a \cup {v} ELSE a \ {v}

\* The assignments that agree with one of f's outside vars.
Exists(f, vars) == {a \in Assignment : \E b \in f : a \ vars = b \ vars}

Answer(f, call) ==
  CASE call.name = "and"        -> f \cap call.operand
    [] call.name = "load"       -> call.operand
    [] call.name \in {"or", "add"} -> f \cup call.operand
    [] call.name = "and_not"    -> f \ call.operand
    [] call.name = "xor"        -> (f \ call.operand) \cup (call.operand \ f)
    [] call.name = "ite"        -> (f \cap call.operand) \cup (call.otherwise \ f)
    [] call.name = "negate"     -> Assignment \ f
    [] call.name = "minimize"   -> f
    [] call.name = "condition"  -> {a \in Assignment : Override(a, call.var, call.value) \in f}
    [] call.name = "exists"     -> Exists(f, call.vars)
    [] call.name = "forall"     -> Assignment \ Exists(Assignment \ f, call.vars)
    [] call.name = "and_exists" -> Exists(f \cap call.operand, call.vars)

\* A sum of two functions is of functions no assignment satisfies both of.
Answerable(f, call) == call.name = "add" => f \cap call.operand = {}

Init == fn \in Operand /\ asked = Idle

Ask    == asked = Idle /\ asked' \in Calls /\ UNCHANGED fn
Return == asked # Idle /\ Answerable(fn, asked) /\ asked' = Idle /\ fn' = Answer(fn, asked)
Refuse == asked # Idle /\ asked' = Idle /\ UNCHANGED fn

Next == Ask \/ Return \/ Refuse
vars == <<fn, asked>>
Spec == Init /\ [][Next]_vars
===============================================================================
