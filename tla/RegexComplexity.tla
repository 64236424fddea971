-------------------------- MODULE RegexComplexity --------------------------
(***************************************************************************)
(* The regular-expression complexity rule (S5843) of                       *)
(* src/src/linting/eslint/rules/regex-complexity.ts: the                   *)
(* ComplexityCalculator, whose visit() reacts to the enter/leave callbacks *)
(* of regexpp.visitRegExpAST with one mutable `nesting` counter, and the   *)
(* loops of checkRegexComplexity, which run one fresh calculator per part *)
(* of each group findRegexParts returns for a regex node, sum the group's  *)
(* complexities and report the group when the sum exceeds the threshold.  *)
(* RegexPartFinder is a pair of RECURSIVE operators over a program's      *)
(* expressions: a node is its type and the nodes it leads to (RegExp's     *)
(* argument, the unique write of an identifier, the operands of a +).     *)
(*                                                                         *)
(* regexpp itself is the environment: the actions below walk every regex   *)
(* AST within the bounds, node by node, in the order visitRegExpAST calls  *)
(* the handlers (enter a node, walk its children, leave it).  `stack` is   *)
(* the visitor's path from the Pattern to the current node.  Locations and *)
(* message text are abstracted: a component is its increment, from which  *)
(* the code derives the "+N (incl N-1 for nesting)" text, and the list of  *)
(* components is kept as the bag of its increments (their order, which     *)
(* only decides the order of the secondary locations, is left out).       *)
(*                                                                         *)
(* Around the check sit the rule's traversal callbacks, which collect the  *)
(* regex targets of a program as ESLint leaves its nodes, and Program:exit,*)
(* which calls checkRegexComplexity on each collected node in turn.        *)
(***************************************************************************)
EXTENDS Integers, Sequences, FiniteSets, SequencesExt, Bags, BagsExt

CONSTANTS
  Expr,        \* the program's expressions: node -> [type, arg/init/left/right]
  Programs,    \* programs: sequences of top-level expression trees
  Unparsable,  \* the literals getParsedRegex returns null for
  NoWrite,     \* getUniqueWriteUsage found no unique write
  Bounds,      \* per literal, the ASTs walked: [alts, elems, depth], the most
               \* alternatives of a disjunction, elements of an alternative,
               \* and AST nodes on a path from the Pattern down
  StackLimit,  \* the deepest recursion of find the engine's call stack holds
  Thresholds   \* the thresholds the rule may be configured with

ASSUME /\ \A p \in Programs : p \in Seq(DOMAIN Expr)
       /\ 0 \notin DOMAIN Expr
       /\ \A l \in DOMAIN Bounds : Bounds[l].alts \in Nat \ {0}
       /\ StackLimit \in Nat \ {0}
       /\ Thresholds \subseteq Nat

VARIABLES
  program,     \* the program being linted
  services,    \* isRequiredParserServices(context.parserServices)
  pending,     \* the nodes ESLint has still to leave, in order
  regexNodes,  \* the rule's regexNodes array
  index,       \* how many calls regexNodes.forEach has started
  threshold,   \* `threshold` captured by create()
  regexNode,   \* the regex node checkRegexComplexity is called with
  thrown,      \* findRegexParts threw (RangeError: call stack exceeded)
  groups,      \* the regexParts groups findRegexParts returned for it
  g,           \* index of the regexParts group the outer for-loop is at
  part,        \* index of the part the inner for-loop is at
  stack,       \* regexpp visitor path: frames [kind, nalts, kids]
  walked,      \* the current part's Pattern has been left
  nesting,     \* ComplexityCalculator.nesting
  complexity,  \* ComplexityCalculator.complexity
  components,  \* ComplexityCalculator.components (bag of increments)
  total,       \* checkRegexComplexity's `complexity` accumulator
  secondaries, \* checkRegexComplexity's secondaryMessages (bag of increments)
  reports,     \* the findings passed to context.report
  specScore,   \* ghost: the spec's score of the current part so far
  specTotal,   \* ghost: the spec's score of the group's finished parts
  specTotals,  \* ghost: the spec's score of every finished group
  scored       \* ghost: <<call, literal>> for each calculator run

\* The fields of a ComplexityCalculator, fresh for every part.
calc == <<nesting, complexity, components>>
collect == <<program, services, pending, regexNodes, index>>
vars == <<program, services, pending, regexNodes, index, threshold, regexNode, thrown,
          groups, g, part, stack, walked, nesting, complexity, components, total,
          secondaries, reports, specScore, specTotal, specTotals, scored>>
NoNode == 0

Lookarounds  == {"lookahead", "lookbehind"}
Assertions   == Lookarounds \cup {"edge"}
Disjunctions == {"Pattern", "Group", "CapturingGroup"} \cup Lookarounds
\* Elements regexpp accepts as the operand of a quantifier (non-u mode).
Quantifiable == {"Group", "CapturingGroup", "CharacterClass",
                 "Backreference", "Character", "lookahead"}

Frame(kind, n) == [kind |-> kind, nalts |-> n, kids |-> 0]
Top == stack[Len(stack)]
MaxAlts == Max({Bounds[l].alts : l \in DOMAIN Bounds})
\* The bounds of the part being walked.
Lim == Bounds[groups[g][part]]
SeqSum(s) == FoldLeft(LAMBDA a, b : a + b, 0, s)

-----------------------------------------------------------------------------
(* findRegexParts.  A node of Expr is one of                               *)
(*   [type |-> "RegExpConstructor", arg |-> n]   new RegExp(n) / RegExp(n) *)
(*   [type |-> "RegexLiteral"], [type |-> "StringLiteral"],                *)
(*   [type |-> "StaticTemplateLiteral"]                                    *)
(*   [type |-> "Identifier", init |-> n or NoWrite]                        *)
(*   [type |-> "BinaryPlus", left |-> n, right |-> n]                      *)
(*   [type |-> "Other"]                                                    *)
(* A result is the sequence `parts` of groups, each a sequence of nodes.   *)

RECURSIVE Find(_), FindInStringConcatenation(_)

\* Mutant: findInStringConcatenation without its final `this.find(node)`.
FindInStringConcatenationLiteralsOnly(n) ==
  CASE Expr[n].type = "StringLiteral" -> [literals |-> <<n>>, parts |-> <<>>]
    [] Expr[n].type = "BinaryPlus" ->
         LET l == FindInStringConcatenation(Expr[n].left)
             r == FindInStringConcatenation(Expr[n].right)
         IN  [literals |-> l.literals \o r.literals, parts |-> l.parts \o r.parts]
    [] OTHER -> [literals |-> <<>>, parts |-> <<>>]

\* findInStringConcatenation: string literals join the concatenation's
\* group; any other operand is looked up on its own and pushes its groups
\* first.
FindInStringConcatenation(n) ==
  CASE Expr[n].type = "StringLiteral" -> [literals |-> <<n>>, parts |-> <<>>]
    [] Expr[n].type = "BinaryPlus" ->
         LET l == FindInStringConcatenation(Expr[n].left)
             r == FindInStringConcatenation(Expr[n].right)
         IN  [literals |-> l.literals \o r.literals, parts |-> l.parts \o r.parts]
    [] OTHER -> [literals |-> <<>>, parts |-> Find(n)]

\* RegexPartFinder.find
Find(n) ==
  CASE Expr[n].type = "RegExpConstructor" -> Find(Expr[n].arg)
    [] Expr[n].type \in {"RegexLiteral", "StringLiteral", "StaticTemplateLiteral"} ->
         <<<<n>>>>
    [] Expr[n].type = "Identifier" ->
         IF Expr[n].init # NoWrite THEN Find(Expr[n].init) ELSE <<>>
    [] Expr[n].type = "BinaryPlus" ->
         LET l == FindInStringConcatenation(Expr[n].left)
             r == FindInStringConcatenation(Expr[n].right)
             literals == l.literals \o r.literals
         IN  l.parts \o r.parts \o (IF literals # <<>> THEN <<literals>> ELSE <<>>)
    [] OTHER -> <<>>

\* findRegexParts
FindRegexParts(node) == Find(node)

\* The nodes find and findInStringConcatenation call themselves on from n.
Callees(n) ==
  CASE Expr[n].type = "RegExpConstructor" -> {Expr[n].arg}
    [] Expr[n].type = "Identifier" -> IF Expr[n].init # NoWrite THEN {Expr[n].init} ELSE {}
    [] Expr[n].type = "BinaryPlus" -> {Expr[n].left, Expr[n].right}
    [] OTHER -> {}

\* How deep the recursion of find(n) goes, from depth d, cut at StackLimit:
\* nothing stops it from following a node it is already inside.
RECURSIVE CallDepth(_, _)
CallDepth(n, d) ==
  IF d >= StackLimit THEN d
  ELSE Max({d} \cup {CallDepth(m, d + 1) : m \in Callees(n)})

\* find(node) exceeds the call stack and throws a RangeError.
Overflows(node) == CallDepth(node, 1) >= StackLimit

-----------------------------------------------------------------------------
(* The spec's scoring (spec.md 4.5), stated on the visitor path rather    *)
(* than on a mutable counter: the nesting at a node is 1 plus one for     *)
(* every enclosing quantifier, character class or lookaround and one for  *)
(* every enclosing disjunction with more than one alternative.            *)

ScopeWeight(f) ==
  (IF f.kind \in {"Quantifier", "CharacterClass"} \cup Lookarounds THEN 1 ELSE 0)
  + (IF f.kind \in Disjunctions /\ f.nalts > 1 THEN 1 ELSE 0)

SpecNesting(path) == FoldLeft(LAMBDA acc, f : acc + ScopeWeight(f), 1, path)

\* Extra branches: the first weighs the nesting, every further one 1.
SpecBranches(nest, k) == IF k > 1 THEN nest + (k - 2) ELSE 0

SpecContribution(kind, k, nest) ==
  CASE kind \in Lookarounds                           -> nest + SpecBranches(nest + 1, k)
    [] kind \in {"Pattern", "Group", "CapturingGroup"} -> SpecBranches(nest, k)
    [] kind = "Quantifier"                            -> nest
    [] kind \in {"CharacterClass", "Backreference"}   -> 1
    [] OTHER                                          -> 0

SpecCounts(kind, k) == specScore' = specScore + SpecContribution(kind, k, SpecNesting(stack))

-----------------------------------------------------------------------------
(* The regexpp walk.                                                       *)

Bump(s) == [s EXCEPT ![Len(s)].kids = @ + 1]

\* Path length a node needs below it: a disjunction needs its Alternative.
Room(kind) == CASE kind \in Disjunctions                          -> 2
                [] kind \in {"Quantifier", "CharacterClass", "edge"} -> 1
                [] OTHER                                          -> 0

CanEnterElement(kind) ==
  /\ stack # <<>>
  /\ Len(stack) + Room(kind) <= Lim.depth
  /\ \/ Top.kind = "Alternative" /\ Top.kids < Lim.elems
     \/ Top.kind = "Quantifier" /\ Top.kids = 0 /\ kind \in Quantifiable

Complete(f) == CASE f.kind \in Disjunctions -> f.kids = f.nalts
                 [] f.kind = "Quantifier"   -> f.kids = 1
                 [] OTHER                   -> TRUE

EnterElement(kind, k) ==
  /\ CanEnterElement(kind)
  /\ k <= Lim.alts
  /\ stack' = Append(Bump(stack), Frame(kind, k))
  /\ SpecCounts(kind, k)

VisitLeaf(kind) ==
  /\ CanEnterElement(kind)
  /\ stack' = Bump(stack)
  /\ SpecCounts(kind, 0)

LeaveNode(kinds) ==
  /\ stack # <<>>
  /\ Top.kind \in kinds
  /\ Complete(Top)
  /\ stack' = Front(stack)
  /\ UNCHANGED specScore

-----------------------------------------------------------------------------
(* ComplexityCalculator.                                                   *)

\* increaseComplexity, once per increment, in order.
IncreaseComplexity(incs) ==
  /\ complexity' = complexity + SeqSum(incs)
  /\ components' = components (+) ToBag(incs)

\* Mutant: every extra branch weighted by the nesting.
DisjunctionIncrementsAllWeighted(nest, k) ==
  IF k > 1 THEN [i \in 1..(k - 1) |-> nest] ELSE <<>>
\* Mutant: the nesting bumped whatever the number of alternatives.
DisjunctionNestingAlways(nest, k) == nest + 1
\* Mutant: onDisjunctionLeave without its `alternatives.length > 1` guard.
OnDisjunctionLeaveAlways(nest, k) == nest - 1

\* onDisjunctionEnter: the increments its while loop makes over
\* alternatives[1..], and the nesting it leaves behind.
DisjunctionIncrements(nest, k) ==
  IF k > 1 THEN [i \in 1..(k - 1) |-> IF i = 1 THEN nest ELSE 1] ELSE <<>>
DisjunctionNesting(nest, k) == IF k > 1 THEN nest + 1 ELSE nest
OnDisjunctionEnter(nest, k) ==
  /\ IncreaseComplexity(DisjunctionIncrements(nest, k))
  /\ nesting' = DisjunctionNesting(nest, k)

\* onDisjunctionLeave
OnDisjunctionLeave(nest, k) == IF k > 1 THEN nest - 1 ELSE nest

OnPatternEnter(k) ==
  /\ g <= Len(groups)
  /\ part <= Len(groups[g])
  /\ groups[g][part] \notin Unparsable
  /\ k <= Lim.alts
  /\ stack = <<>>
  /\ ~walked
  /\ stack' = <<Frame("Pattern", k)>>
  /\ SpecCounts("Pattern", k)
  /\ OnDisjunctionEnter(nesting, k)
  /\ UNCHANGED <<threshold, regexNode, thrown, groups, g, part, walked, total, secondaries, reports, specTotal, specTotals, scored>>
  /\ UNCHANGED collect

OnPatternLeave ==
  /\ Len(stack) = 1
  /\ LeaveNode({"Pattern"})
  /\ nesting' = OnDisjunctionLeave(nesting, Top.nalts)
  /\ walked' = TRUE
  /\ UNCHANGED <<threshold, regexNode, thrown, groups, g, part, complexity, components, total,
                 secondaries, reports, specTotal, specTotals, scored>>
  /\ UNCHANGED collect

\* onAlternativeEnter/Leave: no handler.
EnterAlternative ==
  /\ stack # <<>>
  /\ Top.kind \in Disjunctions
  /\ Top.kids < Top.nalts
  /\ stack' = Append(Bump(stack), Frame("Alternative", 0))
  /\ UNCHANGED <<threshold, regexNode, thrown, groups, g, part, walked, nesting, complexity, components,
                 total, secondaries, reports, specScore, specTotal, specTotals, scored>>
  /\ UNCHANGED collect

LeaveAlternative ==
  /\ LeaveNode({"Alternative"})
  /\ UNCHANGED <<threshold, regexNode, thrown, groups, g, part, walked, nesting, complexity, components,
                 total, secondaries, reports, specTotal, specTotals, scored>>
  /\ UNCHANGED collect

OnAssertionEnter(kind, k) ==
  /\ EnterElement(kind, k)
  /\ IF kind \in Lookarounds
       THEN \* increaseComplexity(nesting); nesting++; onDisjunctionEnter
            /\ IncreaseComplexity(<<nesting>> \o DisjunctionIncrements(nesting + 1, k))
            /\ nesting' = DisjunctionNesting(nesting + 1, k)
       ELSE UNCHANGED calc
  /\ UNCHANGED <<threshold, regexNode, thrown, groups, g, part, walked, total, secondaries, reports, specTotal, specTotals, scored>>
  /\ UNCHANGED collect

OnAssertionLeave ==
  /\ LeaveNode(Assertions)
  /\ IF Top.kind \in Lookarounds
       THEN nesting' = OnDisjunctionLeave(nesting, Top.nalts) - 1
       ELSE UNCHANGED nesting
  /\ UNCHANGED <<threshold, regexNode, thrown, groups, g, part, walked, complexity, components, total,
                 secondaries, reports, specTotal, specTotals, scored>>
  /\ UNCHANGED collect

OnBackreferenceEnter ==
  /\ VisitLeaf("Backreference")
  /\ IncreaseComplexity(<<1>>)
  /\ UNCHANGED <<threshold, regexNode, thrown, groups, g, part, walked, nesting, total, secondaries,
                 reports, specTotal, specTotals, scored>>
  /\ UNCHANGED collect

\* A Character has no handler.
VisitCharacter ==
  /\ VisitLeaf("Character")
  /\ UNCHANGED <<threshold, regexNode, thrown, groups, g, part, walked, nesting, complexity, components,
                 total, secondaries, reports, specTotal, specTotals, scored>>
  /\ UNCHANGED collect

OnCapturingGroupEnter(k) ==
  /\ EnterElement("CapturingGroup", k)
  /\ OnDisjunctionEnter(nesting, k)
  /\ UNCHANGED <<threshold, regexNode, thrown, groups, g, part, walked, total, secondaries, reports, specTotal, specTotals, scored>>
  /\ UNCHANGED collect

OnCapturingGroupLeave ==
  /\ LeaveNode({"CapturingGroup"})
  /\ nesting' = OnDisjunctionLeave(nesting, Top.nalts)
  /\ UNCHANGED <<threshold, regexNode, thrown, groups, g, part, walked, complexity, components, total,
                 secondaries, reports, specTotal, specTotals, scored>>
  /\ UNCHANGED collect

OnCharacterClassEnter ==
  /\ EnterElement("CharacterClass", 0)
  /\ IncreaseComplexity(<<1>>)
  /\ nesting' = nesting + 1
  /\ UNCHANGED <<threshold, regexNode, thrown, groups, g, part, walked, total, secondaries, reports, specTotal, specTotals, scored>>
  /\ UNCHANGED collect

OnCharacterClassLeave ==
  /\ LeaveNode({"CharacterClass"})
  /\ nesting' = nesting - 1
  /\ UNCHANGED <<threshold, regexNode, thrown, groups, g, part, walked, complexity, components, total,
                 secondaries, reports, specTotal, specTotals, scored>>
  /\ UNCHANGED collect

OnGroupEnter(k) ==
  /\ EnterElement("Group", k)
  /\ OnDisjunctionEnter(nesting, k)
  /\ UNCHANGED <<threshold, regexNode, thrown, groups, g, part, walked, total, secondaries, reports, specTotal, specTotals, scored>>
  /\ UNCHANGED collect

OnGroupLeave ==
  /\ LeaveNode({"Group"})
  /\ nesting' = OnDisjunctionLeave(nesting, Top.nalts)
  /\ UNCHANGED <<threshold, regexNode, thrown, groups, g, part, walked, complexity, components, total,
                 secondaries, reports, specTotal, specTotals, scored>>
  /\ UNCHANGED collect

OnQuantifierEnter ==
  /\ EnterElement("Quantifier", 0)
  /\ IncreaseComplexity(<<nesting>>)
  /\ nesting' = nesting + 1
  /\ UNCHANGED <<threshold, regexNode, thrown, groups, g, part, walked, total, secondaries, reports, specTotal, specTotals, scored>>
  /\ UNCHANGED collect

OnQuantifierLeave ==
  /\ LeaveNode({"Quantifier"})
  /\ nesting' = nesting - 1
  /\ UNCHANGED <<threshold, regexNode, thrown, groups, g, part, walked, complexity, components, total,
                 secondaries, reports, specTotal, specTotals, scored>>
  /\ UNCHANGED collect

-----------------------------------------------------------------------------
(* checkRegexComplexity.                                                   *)

\* Mutant: visit() without its `if (!this.regexPartAST) return`; regexpp is
\* handed null and throws, so a part that does not parse never finishes.
FinishPartVisitUnguarded ==
  /\ g <= Len(groups)
  /\ part <= Len(groups[g])
  /\ stack = <<>>
  /\ walked
  /\ secondaries' = secondaries (+) components
  /\ total' = total + complexity
  /\ part' = part + 1
  /\ walked' = FALSE
  /\ nesting' = 1
  /\ complexity' = 0
  /\ components' = EmptyBag
  /\ specTotal' = specTotal + specScore
  /\ specScore' = 0
  /\ scored' = scored \cup {<<index, groups[g][part]>>}
  /\ UNCHANGED <<threshold, regexNode, thrown, groups, g, stack, reports, specTotals>>
  /\ UNCHANGED collect

\* The rest of one iteration of `for (const regexPart of regexParts)` once
\* calculator.visit() has returned (at once when the part does not parse),
\* and the fresh calculator of the next iteration.
FinishPart ==
  /\ g <= Len(groups)
  /\ part <= Len(groups[g])
  /\ stack = <<>>
  /\ walked \/ groups[g][part] \in Unparsable
  /\ secondaries' = secondaries (+) components
  /\ total' = total + complexity
  /\ part' = part + 1
  /\ walked' = FALSE
  /\ nesting' = 1
  /\ complexity' = 0
  /\ components' = EmptyBag
  /\ specTotal' = specTotal + specScore
  /\ specScore' = 0
  /\ scored' = scored \cup {<<index, groups[g][part]>>}
  /\ UNCHANGED <<threshold, regexNode, thrown, groups, g, stack, reports, specTotals>>
  /\ UNCHANGED collect

\* The report of group g, on its first part.
Finding(gi) == [group       |-> Len(specTotals) + 1,
                node        |-> groups[gi][1],
                complexity  |-> total,
                threshold   |-> threshold,
                cost        |-> total - threshold,
                secondaries |-> secondaries]

\* Mutant: `let complexity = 0` and the secondary lists hoisted out of the
\* loop over groups.
ReportIfTooComplexNoReset ==
  /\ g <= Len(groups)
  /\ part = Len(groups[g]) + 1
  /\ reports' = IF total > threshold THEN Append(reports, Finding(g)) ELSE reports
  /\ g' = g + 1
  /\ part' = 1
  /\ specTotals' = Append(specTotals, specTotal)
  /\ specTotal' = 0
  /\ UNCHANGED <<threshold, regexNode, thrown, groups, stack, walked, nesting, complexity,
                 components, total, secondaries, specScore, scored>>
  /\ UNCHANGED collect

\* The end of one iteration of `for (const regexParts of ...)`: the report
\* decision, then the next group's `complexity = 0` and fresh secondary
\* lists.
ReportIfTooComplex ==
  /\ g <= Len(groups)
  /\ part = Len(groups[g]) + 1
  /\ reports' = IF total > threshold THEN Append(reports, Finding(g)) ELSE reports
  /\ g' = g + 1
  /\ part' = 1
  /\ total' = 0
  /\ secondaries' = EmptyBag
  /\ specTotals' = Append(specTotals, specTotal)
  /\ specTotal' = 0
  /\ UNCHANGED <<threshold, regexNode, thrown, groups, stack, walked, nesting, complexity,
                 components, specScore, scored>>
  /\ UNCHANGED collect

\* checkRegexComplexity has gone through every group.
Checked == ~thrown /\ g > Len(groups)

-----------------------------------------------------------------------------
(* The traversal callbacks and Program:exit.  ESLint leaves the nodes of   *)
(* each top-level expression in post-order; a constant's initialiser is an *)
(* expression of its own statement, not a child of the identifiers that   *)
(* refer to it.  Besides the node types of find, a node may be             *)
(*   [type |-> "StringMethodCall", arg |-> n]   str.match(n) and the like  *)
(* and a RegExp construction carries `call`, "new" or "call".             *)

Children(n) ==
  CASE Expr[n].type \in {"RegExpConstructor", "StringMethodCall"} -> <<Expr[n].arg>>
    [] Expr[n].type = "BinaryPlus" -> <<Expr[n].left, Expr[n].right>>
    [] OTHER -> <<>>

RECURSIVE PostOrder(_)
PostOrder(n) == FoldLeft(LAMBDA acc, c : acc \o PostOrder(c), <<>>, Children(n)) \o <<n>>

ExitOrder(prog) == FoldLeft(LAMBDA acc, r : acc \o PostOrder(r), <<>>, prog)

Leaving == Head(pending)

LeaveWith(collected) ==
  /\ regexNodes' = collected
  /\ pending' = Tail(pending)
  /\ UNCHANGED <<program, services, index, threshold, regexNode, thrown, groups, g, part,
                 stack, walked, nesting, complexity, components, total, secondaries,
                 reports, specScore, specTotal, specTotals, scored>>

\* 'Literal[regex]:exit'
LiteralRegexExit ==
  /\ pending # <<>>
  /\ Expr[Leaving].type = "RegexLiteral"
  /\ LeaveWith(Append(regexNodes, Leaving))

\* 'NewExpression:exit', on `new RegExp(...)`.
NewExpressionExit ==
  /\ pending # <<>>
  /\ Expr[Leaving].type = "RegExpConstructor" /\ Expr[Leaving].call = "new"
  /\ LeaveWith(Append(regexNodes, Leaving))

\* Mutant: the string-method branch without isRequiredParserServices.
CallExpressionExitNoServices ==
  /\ pending # <<>>
  /\ \/ Expr[Leaving].type = "StringMethodCall"
     \/ Expr[Leaving].type = "RegExpConstructor" /\ Expr[Leaving].call = "call"
  /\ LeaveWith(CASE Expr[Leaving].type = "StringMethodCall" ->
                       Append(regexNodes, Expr[Leaving].arg)
                  [] OTHER -> Append(regexNodes, Leaving))

\* 'CallExpression:exit': the first argument of a string regex-method call
\* when parser services are available, else the call if it is RegExp(...).
CallExpressionExit ==
  /\ pending # <<>>
  /\ \/ Expr[Leaving].type = "StringMethodCall"
     \/ Expr[Leaving].type = "RegExpConstructor" /\ Expr[Leaving].call = "call"
  /\ LeaveWith(CASE services /\ Expr[Leaving].type = "StringMethodCall" ->
                       Append(regexNodes, Expr[Leaving].arg)
                  [] Expr[Leaving].type = "RegExpConstructor" -> Append(regexNodes, Leaving)
                  [] OTHER -> regexNodes)

\* A node none of the rule's selectors matches.
OtherExit ==
  /\ pending # <<>>
  /\ Expr[Leaving].type \notin {"RegexLiteral", "RegExpConstructor", "StringMethodCall"}
  /\ LeaveWith(regexNodes)

\* One iteration of regexNodes.forEach at Program:exit: the previous call
\* of checkRegexComplexity has returned and the next starts with
\* findRegexParts on its node.  A RangeError out of it ends the forEach.
CheckRegexNode ==
  LET n == regexNodes[index + 1]
  IN  /\ pending = <<>>
      /\ index < Len(regexNodes)
      /\ Checked
      /\ index' = index + 1
      /\ regexNode' = n
      /\ thrown' = Overflows(n)
      /\ groups' = IF Overflows(n) THEN <<>> ELSE FindRegexParts(n)
      /\ g' = 1
      /\ UNCHANGED <<program, services, pending, regexNodes, threshold, part, stack, walked,
                     nesting, complexity, components, total, secondaries, reports,
                     specScore, specTotal, specTotals, scored>>

\* Program:exit has returned.
Done == pending = <<>> /\ index = Len(regexNodes) /\ Checked

-----------------------------------------------------------------------------

Init ==
  /\ program \in Programs
  /\ services \in BOOLEAN
  /\ pending = ExitOrder(program)
  /\ regexNodes = <<>>
  /\ index = 0
  /\ threshold \in Thresholds
  /\ regexNode = NoNode
  /\ thrown = FALSE
  /\ groups = <<>>
  /\ g = 1
  /\ part = 1
  /\ stack = <<>>
  /\ walked = FALSE
  /\ nesting = 1
  /\ complexity = 0
  /\ components = EmptyBag
  /\ total = 0
  /\ secondaries = EmptyBag
  /\ reports = <<>>
  /\ specScore = 0
  /\ specTotal = 0
  /\ specTotals = <<>>
  /\ scored = {}

Next ==
  \/ LiteralRegexExit
  \/ NewExpressionExit
  \/ CallExpressionExit
  \/ OtherExit
  \/ CheckRegexNode
  \/ \E k \in 1..MaxAlts : OnPatternEnter(k)
  \/ OnPatternLeave
  \/ EnterAlternative
  \/ LeaveAlternative
  \/ \E k \in 1..MaxAlts : OnAssertionEnter("lookahead", k)
  \/ \E k \in 1..MaxAlts : OnAssertionEnter("lookbehind", k)
  \/ OnAssertionEnter("edge", 0)
  \/ OnAssertionLeave
  \/ OnBackreferenceEnter
  \/ VisitCharacter
  \/ \E k \in 1..MaxAlts : OnCapturingGroupEnter(k)
  \/ OnCapturingGroupLeave
  \/ OnCharacterClassEnter
  \/ OnCharacterClassLeave
  \/ \E k \in 1..MaxAlts : OnGroupEnter(k)
  \/ OnGroupLeave
  \/ OnQuantifierEnter
  \/ OnQuantifierLeave
  \/ FinishPart
  \/ ReportIfTooComplex

Spec == Init /\ [][Next]_vars

\* The rule runs synchronously inside one ESLint traversal: whenever a
\* next step of checkRegexComplexity (or of regexpp's walk) exists, it is
\* taken.
Fairness == WF_vars(Next)
LiveSpec == Spec /\ Fairness

-----------------------------------------------------------------------------
(* Properties.                                                             *)

TypeOK ==
  /\ pending \in Seq(DOMAIN Expr)
  /\ regexNodes \in Seq(DOMAIN Expr)
  /\ index \in 0..Len(regexNodes)
  /\ threshold \in Thresholds
  /\ regexNode \in DOMAIN Expr \cup {NoNode}
  /\ thrown \in BOOLEAN
  /\ groups \in Seq(Seq(DOMAIN Expr))
  /\ g \in 1..(Len(groups) + 1)
  /\ g <= Len(groups) => part \in 1..(Len(groups[g]) + 1)
  /\ stack \in Seq([kind : STRING, nalts : 0..MaxAlts, kids : 0..MaxAlts])
  /\ walked \in BOOLEAN
  /\ nesting \in Nat \ {0}
  /\ complexity \in Nat
  /\ IsABag(components) /\ BagToSet(components) \subseteq Nat \ {0}
  /\ total \in Nat
  /\ IsABag(secondaries) /\ BagToSet(secondaries) \subseteq Nat \ {0}

\* The calculator's single mutable `nesting` counter, bumped and restored by
\* six enter/leave handler pairs (two of them conditional on the number of
\* alternatives, lookarounds doing both), always equals the nesting the spec
\* assigns to the node being visited; in particular it is back to 1 between
\* nodes of the Pattern and when the next part's calculator starts.
NestingMatchesScope == nesting = SpecNesting(stack)

\* At every point of the walk the calculator's complexity is the spec's score
\* of the constructs entered so far: nesting-weighted quantifiers and
\* lookarounds, only the first extra branch of a disjunction weighted, flat
\* 1 for classes and backreferences.
ComplexityMatchesSpec == complexity = specScore

\* checkRegexComplexity reports every group of parts exactly when the
\* spec's total over all its parts exceeds the threshold (equal is not
\* reported), once, with that total, a positive cost of total - threshold,
\* and one secondary "+N" per contribution of every part of that group
\* only, adding up to it.
ReportIffAboveThreshold ==
  \A h \in DOMAIN specTotals :
    LET rs == {i \in DOMAIN reports : reports[i].group = h}
    IN  IF specTotals[h] > threshold
          THEN \E i \in rs :
                 /\ rs = {i}
                 /\ reports[i].complexity = specTotals[h]
                 /\ reports[i].cost = specTotals[h] - threshold
                 /\ reports[i].cost > 0
                 /\ SumBag(reports[i].secondaries) = specTotals[h]
          ELSE rs = {}

\* The nodes an expression leads to: RegExp's argument, the unique write
\* of an identifier, both operands of a +.
Leads(n) ==
  CASE Expr[n].type = "RegExpConstructor" -> {Expr[n].arg}
    [] Expr[n].type = "Identifier" -> IF Expr[n].init # NoWrite THEN {Expr[n].init} ELSE {}
    [] Expr[n].type = "BinaryPlus" -> {Expr[n].left, Expr[n].right}
    [] OTHER -> {}

RECURSIVE Reach(_)
Reach(n) == {n} \cup UNION {Reach(m) : m \in Leads(n)}

PatternLiterals(n) ==
  {m \in Reach(n) : Expr[m].type \in {"RegexLiteral", "StringLiteral", "StaticTemplateLiteral"}}

\* Once checkRegexComplexity is done, a calculator has run on every
\* regex, string and static template literal the regex node reaches
\* through RegExp arguments, constant initialisers and either operand of
\* a concatenation, whether the literal is joined to a concatenation's
\* group or forms a group of its own, and on no other node.
PartsCoverRegex ==
  index > 0 /\ Checked =>
    {l \in DOMAIN Expr : <<index, l>> \in scored} = PatternLiterals(regexNode)

\* The regex targets of the program: every regex literal and RegExp
\* construction in it and, where parser services are available, the first
\* argument of every string regex-method call.
RECURSIVE Subtree(_)
Subtree(n) == {n} \cup UNION {Subtree(c) : c \in ToSet(Children(n))}

Targets ==
  LET nodes == UNION {Subtree(program[r]) : r \in DOMAIN program}
  IN  {n \in nodes : Expr[n].type \in {"RegexLiteral", "RegExpConstructor"}}
      \cup {Expr[m].arg : m \in {m \in nodes : services /\ Expr[m].type = "StringMethodCall"}}

Literals == {n \in DOMAIN Expr : Expr[n].type \in {"RegexLiteral", "StringLiteral", "StaticTemplateLiteral"}}

\* Once Program:exit has returned, every literal has been scored by exactly
\* as many calls of checkRegexComplexity as there are regex targets in the
\* program that reach it: each target is collected by one of the three
\* exit callbacks, once, and checked once.  A literal that is a target and
\* also reached from another target (`const re = /a|b/; new RegExp(re)`,
\* `str.match(/a/ + 'b')`) is therefore scored, and reported, once per
\* target.
EachTargetScoredOnce ==
  Done => \A l \in Literals :
            Cardinality({k \in 1..index : <<k, l>> \in scored})
              = Cardinality({t \in Targets : l \in PatternLiterals(t)})

\* Spec 7: an analysis target the rule cannot understand is nothing to
\* report, and the rule goes on.  Program:exit eventually returns: every
\* call of checkRegexComplexity goes through all the groups
\* findRegexParts found, whatever the parts (unparsable ones included)
\* and however the regex nodes' constants are written.
CheckReturns == <>Done

=============================================================================
