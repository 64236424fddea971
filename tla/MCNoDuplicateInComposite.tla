--------------------- MODULE MCNoDuplicateInComposite ---------------------
(* Two type texts in composites of up to four types, each parenthesised  *)
(* or not, inside parentheses or not: a text occurs up to four times,     *)
(* duplicates are adjacent or apart, and a removed type follows a         *)
(* parenthesised one or is parenthesised itself.                          *)
EXTENDS NoDuplicateInComposite

MCTypeTexts == {"A", "B"}

==============================================================================
