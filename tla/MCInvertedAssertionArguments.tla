-------------------- MODULE MCInvertedAssertionArguments --------------------
(* The call shapes: the two forms of a test case, a describe block, an    *)
(* unrelated call, and each assertion API with its arguments in both      *)
(* orders or too few of them.  Four calls three deep let an assertion sit  *)
(* in a test case after a sibling call, in nested test cases, after a     *)
(* test case closed, and outside every test.                               *)
EXTENDS InvertedAssertionArguments

Call(object, property, expectArg, args) ==
  [object |-> object, property |-> property, expectArg |-> expectArg, args |-> args]

MCShapes ==
  { Call("none", "it", "undefined", <<"lit", "expr">>),
    Call("it", "only", "undefined", <<"lit", "expr">>),
    Call("none", "describe", "undefined", <<"lit", "expr">>),
    Call("none", "foo", "undefined", <<>>),
    Call("assert", "equal", "undefined", <<"lit", "expr">>),
    Call("assert", "strictEqual", "undefined", <<"expr", "lit">>),
    Call("assert", "deepEqual", "undefined", <<"lit">>),
    Call("expect()", "equal", "lit", <<"expr">>),
    Call("expect()", "eql", "expr", <<"lit">>),
    Call("should", "fail", "undefined", <<"lit", "expr">>) }

==============================================================================
