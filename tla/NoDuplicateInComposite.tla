----------------------- MODULE NoDuplicateInComposite -----------------------
(***************************************************************************)
(* The rule S4621 of                                                       *)
(* src/src/linting/eslint/rules/no-duplicate-in-composite.ts.  On a union *)
(* or intersection type, the constituent types are grouped by their      *)
(* source text; every group of more than one is reported, the second      *)
(* occurrence as the primary location and the others as secondary ones    *)
(* ("Original" for the first), with a suggestion that removes every       *)
(* occurrence after the first: the tokens from the end of the type before *)
(* it (after its closing parentheses) to the end of the duplicate (after  *)
(* its own).                                                              *)
(*                                                                         *)
(* A composite is the sequence of its types, each a text and whether it  *)
(* is parenthesised, and whether the composite itself is; its tokens are  *)
(* rendered one per type text, separator and parenthesis, and a source   *)
(* range is a pair of token positions <<a, b>> that covers a+1 .. b.      *)
(***************************************************************************)
EXTENDS Integers, Sequences, SequencesExt, FiniteSets

CONSTANTS
  TypeTexts,  \* what sourceCode.getText gives for a type
  MaxTypes    \* most types in one composite

VARIABLES
  composite,  \* the TSUnionType / TSIntersectionType node being visited
  reports     \* what context.report received, or NoReports before

vars == <<composite, reports>>

Composites ==
  UNION {[types : [1 .. n -> [text : TypeTexts, paren : BOOLEAN]], outer : BOOLEAN] :
           n \in 2 .. MaxTypes}

NoReports == {[text |-> "none"]}

-----------------------------------------------------------------------------
(* Tokens                                                                  *)

\* The tokens of type i and the separator before it.
Piece(ty, i) ==
  (IF i > 1 THEN <<"|">> ELSE <<>>)
  \o (IF ty[i].paren THEN <<"(", ty[i].text, ")">> ELSE <<ty[i].text>>)

\* The tokens up to and including type k.
Prefix(c, k) ==
  FoldLeft(LAMBDA acc, i : acc \o Piece(c.types, i),
           IF c.outer THEN <<"(">> ELSE <<>>, [i \in 1 .. k |-> i])

Tokens(c) == Prefix(c, Len(c.types)) \o (IF c.outer THEN <<")">> ELSE <<>>)

\* The position of the last token of type i, and of the composite node.
TypeEnd(c, i) == Len(Prefix(c, i)) - (IF c.types[i].paren THEN 1 ELSE 0)
CompositeEnd(c) == Len(Prefix(c, Len(c.types)))

-----------------------------------------------------------------------------
(* The rule                                                                *)

\* A plausible slip: the end of a type is its last own token.
GetEndOwnToken(c, pos) == pos

\* getEnd: skip the ')' tokens after pos that are inside the composite.
RECURSIVE GetEnd(_, _)
GetEnd(c, pos) ==
  IF pos + 1 <= CompositeEnd(c) /\ Tokens(c)[pos + 1] = ")"
    THEN GetEnd(c, pos + 1)
    ELSE pos

\* groupedTypes.get(text): the positions of the types with that text.
Duplicates(c, t) ==
  SelectSeq([i \in DOMAIN c.types |-> i], LAMBDA i : c.types[i].text = t)

\* getSuggestions: one range per duplicate after the first.
GetSuggestions(c, dups) ==
  {<<GetEnd(c, TypeEnd(c, dups[k] - 1)), GetEnd(c, TypeEnd(c, dups[k]))>> :
     k \in 2 .. Len(dups)}

\* fixer.removeRange for every range of the suggestion.
ApplyFix(toks, ranges) ==
  SelectSeq([i \in DOMAIN toks |-> i], LAMBDA i : \A r \in ranges : ~(r[1] < i /\ i <= r[2]))

\* A plausible slip: duplicates.splice(0, 1), the first occurrence taken
\* as the primary location.
ReportSpliceFirst(c, t) ==
  LET dups == Duplicates(c, t)
      fixed == ApplyFix(Tokens(c), GetSuggestions(c, dups))
  IN  [text |-> t,
       primary |-> dups[1],
       secondary |-> Tail(dups),
       messages |-> [k \in DOMAIN Tail(dups) |-> IF k = 1 THEN "Original" ELSE "Another duplicate"],
       fixed |-> [i \in DOMAIN fixed |-> Tokens(c)[fixed[i]]]]

\* The report of a group: the primary location is spliced out at index 1;
\* the secondary ones keep their order, the first labelled "Original".
Report(c, t) ==
  LET dups == Duplicates(c, t)
      secondary == <<dups[1]>> \o SubSeq(dups, 3, Len(dups))
      fixed == ApplyFix(Tokens(c), GetSuggestions(c, dups))
  IN  [text |-> t,
       primary |-> dups[2],
       secondary |-> secondary,
       messages |-> [k \in DOMAIN secondary |-> IF k = 1 THEN "Original" ELSE "Another duplicate"],
       fixed |-> [i \in DOMAIN fixed |-> Tokens(c)[fixed[i]]]]

Init ==
  /\ composite \in Composites
  /\ reports = NoReports

\* 'TSUnionType, TSIntersectionType'
OnComposite ==
  /\ reports = NoReports
  /\ reports' = {Report(composite, t) :
                   t \in {t \in TypeTexts : Len(Duplicates(composite, t)) > 1}}
  /\ UNCHANGED composite

Next == OnComposite

Spec == Init /\ [][Next]_vars

-----------------------------------------------------------------------------
(* Properties                                                              *)

\* The composite with every type whose text is t kept at its first
\* occurrence only, every other type and every parenthesis kept.
Deduplicated(c, t) ==
  LET first == Duplicates(c, t)[1]
      keep == SelectSeq([i \in DOMAIN c.types |-> i],
                        LAMBDA i : c.types[i].text # t \/ i = first)
  IN  [types |-> [k \in DOMAIN keep |-> c.types[keep[k]]], outer |-> c.outer]

\* The suggestion of every report, applied to the source, gives the
\* composite with that type kept only where it first occurs: no separator
\* or parenthesis of the removed types is left behind and none of the
\* kept ones is taken, whatever the parentheses around the types and the
\* composite.
SuggestionRemovesDuplicates ==
  reports # NoReports =>
    \A r \in reports : r.fixed = Tokens(Deduplicated(composite, r.text))

\* Exactly the texts that occur more than once are reported, each once:
\* the primary location is a repetition, the secondary locations are all
\* the other occurrences, and the one labelled "Original" is the first.
ReportsLocateEveryOccurrence ==
  reports # NoReports =>
    /\ {r.text : r \in reports} = {t \in TypeTexts :
                                     Cardinality({i \in DOMAIN composite.types :
                                                    composite.types[i].text = t}) > 1}
    /\ \A r \in reports :
         LET occ == {i \in DOMAIN composite.types : composite.types[i].text = r.text}
         IN  /\ {r.primary} \cup ToSet(r.secondary) = occ
             /\ Len(r.secondary) = Cardinality(occ) - 1
             /\ \A k \in DOMAIN r.secondary :
                  r.messages[k] = "Original" <=> \A i \in occ : r.secondary[k] <= i

=============================================================================
