------------------------ MODULE MCFunctionInsideLoop ------------------------
(* One captured variable is enough: the rule decides per reference and     *)
(* reports when any one is unsafe.  Every loop type, every parent the     *)
(* rule tells apart and every declaration kind and write place is open.   *)
EXTENDS FunctionInsideLoop

CONSTANTS v1

MCVars == {v1}

MCLoopTypes == {"ForStatement", "WhileStatement", "DoWhileStatement",
                "ForInStatement", "ForOfStatement"}

MCParents == {"callee", "memberObject", "allowedCallbackArg", "otherCallArg", "statement"}

MCDeclKinds == {"var", "let", "const", "param", "unresolved"}

MCWritePlaces == {"forInit", "forLeft", "forRight", "test", "update", "body", "nested", "outside"}

\* Writes only in a block nested in the loop body, or out of the loop.
MCNestedPlaces == {"nested", "outside"}

==============================================================================
