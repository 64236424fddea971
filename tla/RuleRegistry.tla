---------------------------- MODULE RuleRegistry ----------------------------
(***************************************************************************)
(* What the rule registry promises (spec.md 3 and 4.1): rule modules from  *)
(* an ordered list of named sources are merged into one map from rule id   *)
(* to module, and for an id several sources define the LAST source in the *)
(* order wins; no id defined by any source is lost.  The registry is built *)
(* in one step and never changes after.  A module is represented by the   *)
(* name of the source it comes from.                                      *)
(***************************************************************************)
EXTENDS Naturals, Sequences

CONSTANT Sources   \* sequence of [name, rules]: the sources in override order

VARIABLES registry, built

DefinedIds == UNION {Sources[i].rules : i \in DOMAIN Sources}

\* The position of the last source that defines id.
LastDefiner(id) ==
  CHOOSE i \in DOMAIN Sources :
    /\ id \in Sources[i].rules
    /\ \A j \in DOMAIN Sources : j > i => id \notin Sources[j].rules

Merged == [id \in DefinedIds |-> Sources[LastDefiner(id)].name]

NoRegistry == [id \in {} |-> "none"]

Init ==
  /\ registry = NoRegistry
  /\ built = FALSE

Build ==
  /\ ~built
  /\ built' = TRUE
  /\ registry' = Merged

Spec == Init /\ [][Build]_<<registry, built>>

=============================================================================
