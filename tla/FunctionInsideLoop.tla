------------------------- MODULE FunctionInsideLoop -------------------------
(***************************************************************************)
(* The rule S1515 of src/src/linting/eslint/rules/function-inside-loop.ts. *)
(* When ESLint enters a function (declaration, expression or arrow), the  *)
(* rule looks for the first enclosing loop; if there is one, the function *)
(* is not immediately invoked nor the argument of an allowed callback,   *)
(* and one of the references that escape the function's scope is not     *)
(* safe, the function is reported.  A reference is safe unless it         *)
(* resolves to a variable not declared with let or const that is written  *)
(* in the loop's body block or inside the loop header's range.           *)
(*                                                                         *)
(* The handler runs once per function node and decides from scope         *)
(* analysis, so the model is a decision over every function the bounds   *)
(* allow: the loop kind around it, whether a ForStatement has a test,    *)
(* whether the loop body is a block, what the function's parent node is, *)
(* and, for each variable it captures, how it is declared and where the   *)
(* program writes it.  Source ranges are abstracted to named places.     *)
(***************************************************************************)
EXTENDS FiniteSets

CONSTANTS
  Vars,        \* variables a function may capture
  LoopTypes,   \* loop node types
  NoLoop,      \* findFirstMatchingAncestor found no loop
  Parents,     \* what the function node sits in
  DeclKinds,   \* how a variable is declared
  WritePlaces  \* where a write of a variable may be

\* Where a write of a variable can be, relative to the loop.
\*   "forInit"   the init of a ForStatement (runs once)
\*   "forLeft"   the left side of a ForIn/ForOf (assigned every iteration)
\*   "forRight"  the iterable of a ForIn/ForOf (evaluated once)
\*   "test"      the test of a ForStatement, While or DoWhile
\*   "update"    the update of a ForStatement
\*   "body"      a statement directly in the loop body
\*   "nested"    a block nested in the loop body (an if, an inner block)
\*   "outside"   anywhere out of the loop
Places(loop, hasTest) ==
  CASE loop = "ForStatement" ->
         {"forInit", "update", "body", "nested", "outside"}
         \cup (IF hasTest THEN {"test"} ELSE {})
    [] loop \in {"WhileStatement", "DoWhileStatement"} ->
         {"test", "body", "nested", "outside"}
    [] loop \in {"ForInStatement", "ForOfStatement"} ->
         {"forLeft", "forRight", "body", "nested", "outside"}
    [] OTHER -> {"outside"}

VARIABLES
  fn,       \* the function node being entered and its surroundings
  verdict   \* "pending", then "reported" or "accepted"

vars == <<fn, verdict>>

\* The functions the bounds allow.  decl: variable -> declaration kind
\* ("unresolved" when ref.resolved is null); writes: variable -> places.
Functions ==
  { f \in [loop : LoopTypes \cup {NoLoop}, hasTest : BOOLEAN, bodyBlock : BOOLEAN,
           parent : Parents, through : SUBSET Vars,
           decl : [Vars -> DeclKinds], writes : [Vars -> SUBSET WritePlaces]] :
      /\ f.loop # "ForStatement" => f.hasTest
      /\ \A v \in Vars : f.writes[v] \subseteq Places(f.loop, f.hasTest)
      /\ \A v \in Vars : f.decl[v] = "unresolved" => f.writes[v] = {} }

-----------------------------------------------------------------------------
(* The rule                                                                *)

\* isIIEF: the parent is a call whose callee is the function, or a member
\* expression whose object is the function.
IsIIEF(f) == f.parent \in {"callee", "memberObject"}

\* isAllowedCallbacks: the parent is a call of replace, forEach, map, ...
IsAllowedCallbacks(f) == f.parent = "allowedCallbackArg"

\* getLoopTestRange: the places between the test start and the body start;
\* a ForStatement with no test has none.  For a ForIn/ForOf the range
\* starts at the loop node itself (`leftRange = loopNode.range`), so it
\* holds the iterable as well as the left side.
GetLoopTestRange(f) ==
  CASE f.loop = "ForStatement" -> IF f.hasTest THEN {"test", "update"} ELSE {}
    [] f.loop \in {"WhileStatement", "DoWhileStatement"} -> {"test"}
    [] f.loop \in {"ForInStatement", "ForOfStatement"} -> {"forLeft", "forRight"}
    [] OTHER -> {}

\* hasConstValue: no write whose scope is the loop body block
\* (ref.from.block === loopNode.body) and none within the header range.
HasConstValue(f, v) ==
  \A w \in f.writes[v] :
    /\ ~(w = "body" /\ f.bodyBlock)
    /\ w \notin GetLoopTestRange(f)

\* isSafe: unresolved, let and const references are safe.
IsSafe(f, v) ==
  \/ f.decl[v] \in {"unresolved", "let", "const"}
  \/ HasConstValue(f, v)

Reported(f) ==
  /\ f.loop # NoLoop
  /\ ~IsIIEF(f)
  /\ ~IsAllowedCallbacks(f)
  /\ \E v \in f.through : ~IsSafe(f, v)

Init ==
  /\ fn \in Functions
  /\ verdict = "pending"

\* The FunctionDeclaration,FunctionExpression,ArrowFunctionExpression
\* callback.
OnFunction ==
  /\ verdict = "pending"
  /\ verdict' = IF Reported(fn) THEN "reported" ELSE "accepted"
  /\ UNCHANGED fn

Next == OnFunction

Spec == Init /\ [][Next]_vars

-----------------------------------------------------------------------------
(* Properties                                                              *)

\* The places where a write changes a variable from one iteration to the
\* next: the loop variable of a for-in/of, the test and update of the
\* header, anywhere in the body.  A ForStatement's init and the iterable
\* of a ForIn/ForOf run once.
PerIteration == {"forLeft", "test", "update", "body", "nested"}

\* A function that may outlive its iteration and reads a function-scoped
\* variable (var, a parameter) that the loop changes on every iteration.
CapturesLoopVariable(f) ==
  /\ f.loop # NoLoop
  /\ f.parent \notin {"callee", "memberObject", "allowedCallbackArg"}
  /\ \E v \in f.through :
       /\ f.decl[v] \in {"var", "param"}
       /\ f.writes[v] \cap PerIteration # {}

\* The rule's message, "Make sure this function is not called after the
\* loop completes", warns that a call after the loop sees the variable's
\* last value rather than the iteration's; the comments in hasConstValue,
\* "Check if value change in the header of the loop", and the name
\* `leftRange` in getLoopTestRange point at the same case.  Every function
\* the rule reports captures a var or parameter that the loop around it
\* writes on every iteration: a write made once (before the loop, in a for
\* init, in the iterable of a for-in/of) never makes it reported.
ReportsOnlyLoopVariables ==
  verdict = "reported" => CapturesLoopVariable(fn)

\* The rule's comments, "Check if write is in the scope of the loop" and
\* "Check if value change in the header of the loop": every function that
\* captures a var or parameter the loop changes on every iteration is
\* reported.
LoopVariablesReported ==
  verdict # "pending" /\ CapturesLoopVariable(fn) => verdict = "reported"

=============================================================================
