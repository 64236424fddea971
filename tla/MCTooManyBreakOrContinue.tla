--------------------- MODULE MCTooManyBreakOrContinue ----------------------
(***************************************************************************)
(* Bounds for TooManyBreakOrContinue: two labels, so that a labeled jump   *)
(* can cross another labeled statement.  Statements nest five deep below  *)
(* the Program (MaxDepth counts the jump itself), so that a:b:for(;;) {    *)
(* for(;;) { continue a; } } is reached: a jump crossing a second label   *)
(* and an inner loop, charged to both loops.  Two statements per body, so *)
(* that a loop can hold two jumps, or a switch and a jump after it.  At   *)
(* most three jumps per program (MaxJumps): a loop charged with two and a *)
(* third elsewhere.                                                       *)
(***************************************************************************)
EXTENDS TooManyBreakOrContinue

MCLabels == {"a", "b"}
=============================================================================
