--------------------------- MODULE MCLinterWrapper ---------------------------
(***************************************************************************)
(* A small rule universe for LinterWrapper.  Every override the loaders   *)
(* must resolve happens: no-unused is defined by eslint core, overridden  *)
(* by typescript-eslint, by the internal rules, by the second context     *)
(* bundle and last by a custom rule; no-shadow by eslint core and react  *)
(* only; taint is defined by both context bundles; regex-complexity only *)
(* by the internal rules.  "ghost" is a key no source defines, so a      *)
(* profile naming it is a configuration error.  The default bundle list  *)
(* of wrapper.ts is used.                                                 *)
(***************************************************************************)
EXTENDS LinterWrapper

MCRuleIds == {"regex-complexity", "no-unused", "no-dup", "taint",
              "symbol-highlighting", "no-shadow", "ghost"}

MCExternalDeps ==
  << [name |-> "eslint", rules |-> {"no-unused", "no-dup", "no-shadow"}],
     [name |-> "typescript-eslint", rules |-> {"no-unused"}],
     [name |-> "react", rules |-> {"no-dup", "no-shadow"}] >>

MCContextBundles ==
  << [name |-> "bundle1", rules |-> {"taint"}],
     [name |-> "bundle2", rules |-> {"taint", "no-unused"}] >>

\* defaultRuleBundles, wrapper.ts
MCRuleBundles ==
  <<"externalRules", "pluginRules", "internalRules", "contextRules",
    "internalCustomRules">>

Targets == {{"MAIN"}, {"TEST"}, {"MAIN", "TEST"}}

\* regex-complexity without parameters, or with a threshold of 10 or 30.
RegexEntry ==
  {[key |-> "regex-complexity", configurations |-> p, fileTypeTarget |-> t] :
     p \in {<<>>, <<10>>, <<30>>}, t \in Targets}

OtherEntry ==
  {[key |-> k, configurations |-> <<>>, fileTypeTarget |-> t] :
     k \in {"taint", "ghost"}, t \in {{"MAIN"}, {"MAIN", "TEST"}}}

\* Two regex-complexity entries, one per file type, with different
\* parameters: the open question of spec section 9.  Each type's
\* configuration must take its threshold from its own entry only.
SplitRegexEntries ==
  {<<r, s>> : r \in {e \in RegexEntry : e.fileTypeTarget = {"MAIN"}},
              s \in {e \in RegexEntry : e.fileTypeTarget = {"TEST"}}}

MCInputProfiles ==
  {<<r>> : r \in RegexEntry} \cup {<<r, o>> : r \in RegexEntry, o \in OtherEntry}
  \cup {p \in SplitRegexEntries : p[1].configurations # p[2].configurations}

\* Below, between and above the thresholds 10, 20 and 30, and at 30.
MCComplexities == {5, 25, 30, 35}
=============================================================================
