----------------------- MODULE TooManyBreakOrContinue -----------------------
(***************************************************************************)
(* The rule S135 of                                                        *)
(* src/src/linting/eslint/rules/too-many-break-or-continue-in-loop.ts:     *)
(* one JumpTarget is pushed on `jumpTargets` when ESLint enters a loop, a  *)
(* switch or a labeled statement and popped when it leaves it; a break or *)
(* continue is appended to the targets from the innermost outwards until  *)
(* one whose label equals the jump's (both absent included); leaving a    *)
(* loop reports it when its target holds more than one jump.              *)
(*                                                                         *)
(* ESLint's traversal is the environment: the actions walk every program *)
(* of loops, switches, labeled statements, blocks and jumps within the    *)
(* bounds that the parser accepts (a jump has a target; labels do not     *)
(* nest under the same name), entering and leaving nodes in source order. *)
(* `path` is the traversal path.  A jump node is identified by its         *)
(* position in `jumps`, the ghost list of the jumps visited.  Each loop   *)
(* frame of `path` carries in `spec` the jumps the rule's description     *)
(* counts for it: those that leave or continue it, i.e. whose target is   *)
(* that loop or a statement around it.  Statements with no handler other *)
(* than blocks, and nested functions (no jump crosses a function), are    *)
(* left out.                                                               *)
(***************************************************************************)
EXTENDS Integers, Sequences, SequencesExt, FiniteSets

CONSTANTS
  Labels,     \* label names
  NoLabel,    \* `label` of a JumpTarget created without one (undefined)
  MaxDepth,   \* deepest statement nesting below the Program
  MaxStmts,   \* most statements in one body
  MaxJumps    \* most break and continue statements in one program

ASSUME /\ NoLabel \notin Labels
       /\ MaxDepth \in Nat
       /\ MaxStmts \in Nat \ {0}
       /\ MaxJumps \in Nat

VARIABLES
  started,     \* the Program node has been entered
  path,        \* traversal path: frames [kind, label, kids, spec]
  jumpTargets, \* create()'s jumpTargets: <<[label, jumps]>>
  jumps,       \* ghost: the jump nodes visited, [type, exempt]
  left         \* the loop left last: [jumps, spec, reported], or NoLeft

vars == <<started, path, jumpTargets, jumps, left>>

NoLeft == [jumps |-> <<>>, spec |-> {}, reported |-> FALSE]

Frame(kind, label) == [kind |-> kind, label |-> label, kids |-> 0, spec |-> {}]

\* Positions of the path frames satisfying P.
Where(P(_)) == {i \in DOMAIN path : P(path[i])}

-----------------------------------------------------------------------------
(* The traversal.                                                          *)

\* A labeled statement has exactly one body statement.
Room(f) == IF f.kind = "label" THEN 1 ELSE MaxStmts

CanEnter == /\ started
            /\ path # <<>>
            /\ Len(path) <= MaxDepth
            /\ Last(path).kids < Room(Last(path))

Bump(p) == [p EXCEPT ![Len(p)].kids = @ + 1]

Enter(kind, label) == path' = Append(Bump(path), Frame(kind, label))

\* The frame a jump leaves or continues, as the parser resolves it.
JumpTargetIndex(type, label) ==
  IF label = NoLabel
    THEN Max(Where(LAMBDA f : f.kind = "loop" \/ (type = "break" /\ f.kind = "switch")))
    ELSE Max(Where(LAMBDA f : f.kind = "label" /\ f.label = label))

\* `continue L` needs L to label a loop (directly or through other labels).
LabelsLoop(i) ==
  \E j \in DOMAIN path :
    /\ j > i
    /\ path[j].kind = "loop"
    /\ \A k \in i + 1 .. j - 1 : path[k].kind = "label"

HasTarget(type, label) ==
  IF label = NoLabel
    THEN Where(LAMBDA f : f.kind = "loop" \/ (type = "break" /\ f.kind = "switch")) # {}
    ELSE \E i \in Where(LAMBDA f : f.kind = "label" /\ f.label = label) :
           type = "break" \/ LabelsLoop(i)

\* Visiting a jump node: the path records it on the loops it leaves.
VisitJump(type, label) ==
  LET t  == JumpTargetIndex(type, label)
      id == Len(jumps) + 1
  IN  /\ path' = [i \in DOMAIN path |->
                    IF path[i].kind = "loop" /\ i >= t
                      THEN [Bump(path)[i] EXCEPT !.spec = @ \cup {id}]
                      ELSE Bump(path)[i]]
      /\ jumps' = Append(jumps,
                    [type |-> type,
                     exempt |-> label = NoLabel /\ type = "continue"
                                /\ \E i \in Where(LAMBDA f : f.kind = "switch") : i > t])

-----------------------------------------------------------------------------
(* The rule.                                                               *)

EnterScope == jumpTargets' = Append(jumpTargets, [label |-> NoLabel, jumps |-> <<>>])

\* A plausible slip: the popped target is not removed.
LeaveScopeKeep == jumpTargets' = jumpTargets

LeaveScope == jumpTargets' = Front(jumpTargets)

\* A plausible slip: the walk stops at the innermost target whatever the
\* label.
IncreateNumberOfJumpsInScopesInnermost(jump, label) ==
  jumpTargets' = [jumpTargets EXCEPT ![Len(jumpTargets)].jumps = Append(@, jump)]

IncreateNumberOfJumpsInScopes(jump, label) ==
  LET matching == {i \in DOMAIN jumpTargets : jumpTargets[i].label = label}
      stop == IF matching = {} THEN 1 ELSE Max(matching)
  IN  jumpTargets' = [i \in DOMAIN jumpTargets |->
                        IF i >= stop
                          THEN [jumpTargets[i] EXCEPT !.jumps = Append(@, jump)]
                          ELSE jumpTargets[i]]

LeaveScopeAndCheckNumberOfJumps ==
  LET top == Last(jumpTargets)
  IN  /\ jumpTargets' = Front(jumpTargets)
      /\ left' = [jumps |-> top.jumps, spec |-> Last(path).spec,
                  reported |-> Len(top.jumps) > 1]

\* create(): let jumpTargets = []
Init ==
  /\ started = FALSE
  /\ path = <<>>
  /\ jumpTargets = <<>>
  /\ jumps = <<>>
  /\ left = NoLeft

\* Program: jumpTargets = []
Program ==
  /\ ~started
  /\ started' = TRUE
  /\ path' = <<Frame("Program", NoLabel)>>
  /\ jumpTargets' = <<>>
  /\ UNCHANGED <<jumps, left>>

\* ForStatement, ForInStatement, ForOfStatement, WhileStatement and
\* DoWhileStatement all run enterScope.
OnLoopEnter ==
  /\ CanEnter
  /\ Enter("loop", NoLabel)
  /\ EnterScope
  /\ UNCHANGED <<started, jumps, left>>

OnLoopExit ==
  /\ path # <<>> /\ Last(path).kind = "loop"
  /\ LeaveScopeAndCheckNumberOfJumps
  /\ path' = Front(path)
  /\ UNCHANGED <<started, jumps>>

OnSwitchEnter ==
  /\ CanEnter
  /\ Enter("switch", NoLabel)
  /\ EnterScope
  /\ UNCHANGED <<started, jumps, left>>

OnSwitchExit ==
  /\ path # <<>> /\ Last(path).kind = "switch"
  /\ LeaveScope
  /\ path' = Front(path)
  /\ UNCHANGED <<started, jumps, left>>

OnLabeledEnter(l) ==
  /\ CanEnter
  /\ Where(LAMBDA f : f.kind = "label" /\ f.label = l) = {}
  /\ Enter("label", l)
  /\ jumpTargets' = Append(jumpTargets, [label |-> l, jumps |-> <<>>])
  /\ UNCHANGED <<started, jumps, left>>

OnLabeledExit ==
  /\ path # <<>> /\ Last(path).kind = "label" /\ Last(path).kids = 1
  /\ LeaveScope
  /\ path' = Front(path)
  /\ UNCHANGED <<started, jumps, left>>

\* A block, entered only as the body of a labeled statement: no handler.
EnterBlock ==
  /\ CanEnter /\ Last(path).kind = "label"
  /\ Enter("block", NoLabel)
  /\ UNCHANGED <<started, jumpTargets, jumps, left>>

LeaveBlock ==
  /\ path # <<>> /\ Last(path).kind = "block"
  /\ path' = Front(path)
  /\ UNCHANGED <<started, jumpTargets, jumps, left>>

OnBreak(l) ==
  /\ CanEnter /\ HasTarget("break", l) /\ Len(jumps) < MaxJumps
  /\ VisitJump("break", l)
  /\ IncreateNumberOfJumpsInScopes(Len(jumps) + 1, l)
  /\ UNCHANGED <<started, left>>

OnContinue(l) ==
  /\ CanEnter /\ HasTarget("continue", l) /\ Len(jumps) < MaxJumps
  /\ VisitJump("continue", l)
  /\ IncreateNumberOfJumpsInScopes(Len(jumps) + 1, l)
  /\ UNCHANGED <<started, left>>

\* Program:exit has no handler; the traversal is over.
ProgramExit ==
  /\ started /\ Len(path) = 1
  /\ path' = <<>>
  /\ UNCHANGED <<started, jumpTargets, jumps, left>>

Next ==
  \/ Program
  \/ OnLoopEnter
  \/ OnLoopExit
  \/ OnSwitchEnter
  \/ OnSwitchExit
  \/ \E l \in Labels : OnLabeledEnter(l)
  \/ OnLabeledExit
  \/ EnterBlock
  \/ LeaveBlock
  \/ \E l \in Labels \cup {NoLabel} : OnBreak(l) \/ OnContinue(l)
  \/ ProgramExit

Spec == Init /\ [][Next]_vars

-----------------------------------------------------------------------------
(* Properties                                                              *)

TypeOK ==
  /\ started \in BOOLEAN
  /\ jumpTargets \in Seq([label : Labels \cup {NoLabel}, jumps : Seq(DOMAIN jumps)])
  /\ Len(jumpTargets) <= Len(path)
  /\ left.reported \in BOOLEAN

\* The unlabeled continues whose innermost enclosing loop or switch is a
\* switch: jumpTargets' walk stops at the switch's target for them.
ContinuesInSwitch == {i \in DOMAIN jumps : jumps[i].exempt}

\* When a loop is left, the jumps leaveScopeAndCheckNumberOfJumps lists for
\* it are exactly the breaks and continues that leave or continue it (its
\* own, those of labeled jumps to a statement around it, none of those an
\* inner loop or a switch absorbs), continues inside a switch aside, and
\* the loop is reported exactly when there are more than one.
LoopJumpsCounted ==
  LET counted == left.spec \ ContinuesInSwitch
  IN  /\ ToSet(left.jumps) = counted
      /\ left.reported <=> Cardinality(counted) > 1

\* The rule's message, "Reduce the total number of break and continue
\* statements in this loop": a loop is reported exactly when more than one
\* break or continue leaves or continues it.
LoopReportedOnItsJumps ==
  left.reported <=> Cardinality(left.spec) > 1

=============================================================================
