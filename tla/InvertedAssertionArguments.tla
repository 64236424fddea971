--------------------- MODULE InvertedAssertionArguments ---------------------
(***************************************************************************)
(* The rule S3415 of                                                       *)
(* src/src/linting/eslint/rules/inverted-assertion-arguments.ts, with     *)
(* Mocha.isTestCase of rules/helpers/mocha.ts.  create() keeps the stack  *)
(* `testCases` of the it / specify calls ESLint is inside: entering one   *)
(* pushes it, leaving one pops; entering any other call while the stack  *)
(* is not empty extracts the (actual, expected) arguments of an assert,   *)
(* expect or fail assertion and reports when actual is a literal and      *)
(* expected is not.                                                       *)
(*                                                                         *)
(* ESLint's traversal is the environment: calls nest in one another (an   *)
(* argument, a callback body) in every way the bounds allow, entered and  *)
(* left in source order.  A call is the shape of its callee and the kind  *)
(* ("lit", "expr") of its arguments; text and locations are left out.    *)
(***************************************************************************)
EXTENDS Integers, Sequences, SequencesExt

CONSTANTS
  Shapes,    \* call shapes: [object, property, expectArg, args]
  MaxDepth,  \* deepest nesting of calls
  MaxCalls   \* most calls in one program

\* A callee is an identifier (object = "none", property is its name) or a
\* member expression object.property.  object = "expect()" stands for a
\* chain whose innermost object is the call expect(expectArg).
\* "undefined" is the argument a call does not have.

ASSERT_FUNCTIONS == {"equal", "notEqual", "strictEqual", "notStrictEqual",
                     "deepEqual", "notDeepEqual", "closeTo", "approximately"}

NoArgs == <<"none", "none">>

VARIABLES
  path,       \* the calls ESLint is inside, by id
  testCases,  \* create()'s testCases, by id
  calls,      \* ghost: the calls entered, by id: [shape, inTest], inTest
              \* when an it / specify call enclosed it
  reports     \* the ids of the calls reported

vars == <<path, testCases, calls, reports>>

Arg(c, i) == IF i <= Len(c.args) THEN c.args[i] ELSE "undefined"

-----------------------------------------------------------------------------
(* Mocha and argument extraction                                           *)

\* Mocha.isTestConstruct(node, ['it', 'specify'])
IsTestCase(c) ==
  \/ c.object = "none" /\ c.property \in {"it", "specify"}
  \/ c.object \in {"it", "specify"} /\ c.property \in {"only", "skip"}

IsMethodCall(c) == c.object # "none"

\* assert.<ASSERT_FUNCTION>(actual, expected)
ExtractAssertArguments(c) ==
  IF IsMethodCall(c) /\ Len(c.args) > 1
     /\ c.object = "assert" /\ c.property \in ASSERT_FUNCTIONS
    THEN <<Arg(c, 1), Arg(c, 2)>>
    ELSE NoArgs

\* expect(actual)[.to...].equal|eql|closeTo(expected)
ExtractExpectArguments(c) ==
  IF c.object = "expect()" /\ c.property \in {"equal", "eql", "closeTo"}
    THEN <<c.expectArg, Arg(c, 1)>>
    ELSE NoArgs

\* assert|expect|should.fail(actual, expected)
ExtractFailArguments(c) ==
  IF IsMethodCall(c) /\ Len(c.args) > 1
     /\ c.object \in {"assert", "expect", "should"} /\ c.property = "fail"
    THEN <<Arg(c, 1), Arg(c, 2)>>
    ELSE NoArgs

\* extractAssertionsArguments: the first extractor that matches.
ExtractAssertionsArguments(c) ==
  CASE ExtractAssertArguments(c) # NoArgs -> ExtractAssertArguments(c)
    [] ExtractExpectArguments(c) # NoArgs -> ExtractExpectArguments(c)
    [] OTHER                              -> ExtractFailArguments(c)

\* checkInvertedArguments: actual is a literal, expected is not.
CheckInvertedArguments(c) ==
  LET args == ExtractAssertionsArguments(c)
  IN  args # NoArgs /\ args[1] = "lit" /\ args[2] # "lit"

-----------------------------------------------------------------------------
(* The traversal and the rule's callbacks                                  *)

Init ==
  /\ path = <<>>
  /\ testCases = <<>>
  /\ calls = <<>>
  /\ reports = {}

\* CallExpression: a test case is pushed; any other call inside a test
\* case is checked.
CallExpression(c) ==
  LET id == Len(calls) + 1
  IN  /\ Len(calls) < MaxCalls
      /\ Len(path) < MaxDepth
      /\ path' = Append(path, id)
      /\ calls' = Append(calls, [shape |-> c,
                                 inTest |-> \E i \in DOMAIN path : IsTestCase(calls[path[i]].shape)])
      /\ IF IsTestCase(c)
           THEN /\ testCases' = Append(testCases, id)
                /\ UNCHANGED reports
           ELSE /\ reports' = IF testCases # <<>> /\ CheckInvertedArguments(c)
                                THEN reports \cup {id} ELSE reports
                /\ UNCHANGED testCases

\* A plausible slip: 'CallExpression:exit' not registered.
CallExpressionExitNone ==
  /\ path # <<>>
  /\ path' = Front(path)
  /\ UNCHANGED <<testCases, calls, reports>>

\* A plausible slip: the exit pops whatever call is left.
CallExpressionExitAlways ==
  /\ path # <<>>
  /\ path' = Front(path)
  /\ testCases' = IF testCases # <<>> THEN Front(testCases) ELSE testCases
  /\ UNCHANGED <<calls, reports>>

\* 'CallExpression:exit': leaving a test case pops it.
CallExpressionExit ==
  /\ path # <<>>
  /\ path' = Front(path)
  /\ testCases' = IF IsTestCase(calls[Last(path)].shape) THEN Front(testCases) ELSE testCases
  /\ UNCHANGED <<calls, reports>>

Next ==
  \/ \E c \in Shapes : CallExpression(c)
  \/ CallExpressionExit

Spec == Init /\ [][Next]_vars

-----------------------------------------------------------------------------
(* Properties                                                              *)

TypeOK ==
  /\ path \in Seq(DOMAIN calls)
  /\ testCases \in Seq(DOMAIN calls)
  /\ Len(testCases) <= Len(path)
  /\ reports \subseteq DOMAIN calls

\* The order of the arguments in the assertion APIs: actual first, the
\* expected value second; for expect, actual is expect's argument.
ActualExpected(c) ==
  CASE c.object = "assert" /\ c.property \in ASSERT_FUNCTIONS \cup {"fail"}
         /\ Len(c.args) > 1               -> <<c.args[1], c.args[2]>>
    [] c.object \in {"expect", "should"} /\ c.property = "fail"
         /\ Len(c.args) > 1               -> <<c.args[1], c.args[2]>>
    [] c.object = "expect()" /\ c.property \in {"equal", "eql", "closeTo"}
                                          -> <<c.expectArg, Arg(c, 1)>>
    [] OTHER                              -> NoArgs

\* The calls the rule reports are exactly the assertions entered inside
\* an it / specify call (at any depth) whose actual argument is a literal
\* and whose expected argument is not.
ReportsInvertedAssertionsInTests ==
  \A id \in DOMAIN calls :
    id \in reports <=>
      LET c == calls[id].shape
      IN  /\ calls[id].inTest
          /\ ~IsTestCase(c)
          /\ ActualExpected(c) # NoArgs
          /\ ActualExpected(c)[1] = "lit" /\ ActualExpected(c)[2] # "lit"

=============================================================================
