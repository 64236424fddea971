------------------------- MODULE MCRegexComplexity -------------------------
(* Bounds for RegexComplexity: eight programs, where x is                 *)
(*   const x = '(a|b)';  (node 4, its literal 5)                           *)
(* and the literal '(' (node 7) does not parse:                            *)
(*   const x; new RegExp('a*' + x)  two groups: x's literal, then 'a*'     *)
(*   s.match('a*' + '(')      a parsable and an unparsable part            *)
(*   s.match(`b?` + '(')      the template on its own, then '('            *)
(*   s.match(y)               y has no unique write: no group              *)
(*   const x; s.match(x + x)  the same literal as two groups               *)
(*   s.match(/c/ + '(')       /c/ is a target and part of another one      *)
(*   const re = /d/; RegExp(re)  /d/ is a target and reached by another    *)
(*   /e/                      walked deep: paths of five AST nodes, three  *)
(*                            alternatives of one element, so that the     *)
(*                            spec's example, a group of three            *)
(*                            alternatives under a star, and lookarounds   *)
(*                            or classes inside quantified groups occur    *)
(* The other literals are walked three nodes deep with up to three         *)
(* alternatives of two elements (two quantifiers in a row), /c/ and /d/    *)
(* with two alternatives of one element; no target has more than two      *)
(* parsable parts.  Every program is linted with and without parser        *)
(* services, without which a string method's argument is no target.  A    *)
(* threshold of 1 lies below, at and above the totals reached (0, 1, 2 and *)
(* more), so total = threshold occurs.                                     *)
EXTENDS RegexComplexity

MCExpr ==
  (1 :> [type |-> "RegExpConstructor", call |-> "new", arg |-> 2])
  @@ (2 :> [type |-> "BinaryPlus", left |-> 3, right |-> 4])
  @@ (3 :> [type |-> "StringLiteral"])
  @@ (4 :> [type |-> "Identifier", init |-> 5])
  @@ (5 :> [type |-> "StringLiteral"])
  @@ (6 :> [type |-> "BinaryPlus", left |-> 3, right |-> 7])
  @@ (7 :> [type |-> "StringLiteral"])
  @@ (8 :> [type |-> "BinaryPlus", left |-> 9, right |-> 7])
  @@ (9 :> [type |-> "StaticTemplateLiteral"])
  @@ (10 :> [type |-> "Identifier", init |-> NoWrite])
  @@ (11 :> [type |-> "BinaryPlus", left |-> 4, right |-> 4])
  @@ (12 :> [type |-> "RegexLiteral"])
  @@ (13 :> [type |-> "BinaryPlus", left |-> 12, right |-> 7])
  @@ (19 :> [type |-> "RegexLiteral"])
  @@ (20 :> [type |-> "StringMethodCall", arg |-> 6])
  @@ (21 :> [type |-> "StringMethodCall", arg |-> 8])
  @@ (22 :> [type |-> "StringMethodCall", arg |-> 10])
  @@ (23 :> [type |-> "StringMethodCall", arg |-> 11])
  @@ (24 :> [type |-> "StringMethodCall", arg |-> 13])
  @@ (25 :> [type |-> "RegexLiteral"])
  @@ (26 :> [type |-> "Identifier", init |-> 25])
  @@ (27 :> [type |-> "RegExpConstructor", call |-> "call", arg |-> 26])
MCPrograms ==
  {<<5, 1>>, <<20>>, <<21>>, <<22>>, <<5, 23>>, <<24>>, <<19>>, <<25, 27>>}
MCUnparsable == {7}
MCBounds ==
  [l \in {3, 5, 7, 9} |-> [alts |-> 3, elems |-> 2, depth |-> 3]]
  @@ [l \in {12, 25} |-> [alts |-> 2, elems |-> 1, depth |-> 3]]
  @@ (19 :> [alts |-> 3, elems |-> 1, depth |-> 5])
MCThresholds == {1}

(* MCRegexConstantCycle.cfg: two constants that concatenate each other,    *)
(*   const a = b + 'a*';  const b = a + '(a|b)';  new RegExp(a)            *)
(* (node 14; a is node 15, b node 17).  Eight nested calls stand for the   *)
(* engine's stack, deeper than any acyclic node above needs.               *)
CycleExpr ==
  MCExpr
  @@ (14 :> [type |-> "RegExpConstructor", call |-> "new", arg |-> 15])
  @@ (15 :> [type |-> "Identifier", init |-> 16])
  @@ (16 :> [type |-> "BinaryPlus", left |-> 17, right |-> 3])
  @@ (17 :> [type |-> "Identifier", init |-> 18])
  @@ (18 :> [type |-> "BinaryPlus", left |-> 15, right |-> 5])
CyclePrograms == {<<16, 18, 14>>}
=============================================================================
