---------------------------- MODULE LinterWrapper ----------------------------
(***************************************************************************)
(* The ESLint linter wrapper (src/linting/eslint/linter/wrapper.ts) and    *)
(* its rule loading (bundle-loader.ts).  The constructor loads the rule    *)
(* bundles in order into the linter's rule map, then the custom rules of   *)
(* the options, then builds one linting configuration per file type from  *)
(* the active rules; lint picks the configuration of the file's type.     *)
(*                                                                         *)
(* A rule module is represented by the name of the source it was loaded   *)
(* from, so the rule map is a function from rule key to source name.  The  *)
(* lint step records which rules it ran and, for regex-complexity, whether *)
(* a regex of the given complexity was reported, reading the threshold the *)
(* way regex-complexity.ts does from the options the configuration gives. *)
(***************************************************************************)
EXTENDS Integers, Sequences, SequencesExt, TLC

CONSTANTS
  RuleIds,               \* rule keys
  ExternalDeps,          \* <<[name, rules]>>: eslint core, typescript-eslint, react
  PluginRuleIds,         \* keys of eslint-plugin-sonarjs
  InternalRuleIds,       \* keys of src/linting/eslint/rules
  ContextBundles,        \* <<[name, rules]>>: getContext().bundles, in order
  InternalCustomRuleIds, \* keys of the internal custom rules
  CustomRuleIds,         \* keys of options.customRules
  RuleBundles,           \* options.ruleBundles ?? defaultRuleBundles
  RuntimeRuleIds,        \* rules whose schema has the sonar-runtime slot
  ContextRuleIds,        \* rules whose schema has the sonar-context slot
  RegexRule,             \* the key of regex-complexity
  InputProfiles,         \* the values options.inputRules can take
  Complexities,          \* complexity of the regex in a linted file
  SONAR_RUNTIME,         \* the 'sonar-runtime' flag (linter/parameters.ts)
  SONAR_CONTEXT          \* the context object getContext() returns

FileTypes == {"MAIN", "TEST"}
DEFAULT_THESHOLD == 20

VARIABLES
  inputRules,  \* options.inputRules
  phase,       \* "init", "ready", or why the constructor threw
  registry,    \* the linter's rule map: key -> source of the module
  config,      \* this.config: file type -> <<[key, options]>>
  lastLint     \* what the last call of lint ran and reported

vars == <<inputRules, phase, registry, config, lastLint>>

NoRules == [id \in {} |-> "none"]
NoLint == [fileType |-> "none", complexity |-> 0, fired |-> {}, reported |-> FALSE]

\* linter.defineRules(rules): every key of rules now maps to its module.
DefineRules(reg, name, ids) == [id \in ids |-> name] @@ reg

\* A plausible slip: the map keeps the module it already had for a key.
ExternalMergeFirstWins(acc, dep) == acc @@ [id \in dep.rules |-> dep.name]

\* One dependency copied into the externalRules record: it overwrites.
ExternalMerge(acc, dep) == DefineRules(acc, dep.name, dep.rules)

LoadExternalRules(reg) ==
  LET externalRules == FoldLeft(ExternalMerge, NoRules, ExternalDeps)
  IN  externalRules @@ reg

\* contextRules: every bundle's rules are collected, then defined in order.
LoadContextRules(reg) ==
  LET merge(acc, b) == DefineRules(acc, b.name, b.rules)
  IN  FoldLeft(merge, reg, ContextBundles)

\* loaders[bundleId](linter)
RunLoader(reg, bundleId) ==
  CASE bundleId = "externalRules"       -> LoadExternalRules(reg)
    [] bundleId = "pluginRules"         -> DefineRules(reg, "sonarjs-plugin", PluginRuleIds)
    [] bundleId = "internalRules"       -> DefineRules(reg, "internal", InternalRuleIds)
    [] bundleId = "contextRules"        -> LoadContextRules(reg)
    [] bundleId = "internalCustomRules" -> DefineRules(reg, "internal-custom", InternalCustomRuleIds)

LoadBundles(bundleIds) == FoldLeft(RunLoader, NoRules, bundleIds)

\* A plausible slip: a custom rule does not replace a bundled one.
LoadCustomRulesKeepBundled(reg) == reg @@ [id \in CustomRuleIds |-> "custom"]

LoadCustomRules(reg) == DefineRules(reg, "custom", CustomRuleIds)

\* The options a rule entry is configured with: explicit parameters, then
\* the sonar-runtime flag, then the context object, where the schema has
\* the slot.  A slip that puts the flag first:
ExtendRuleConfigFlagFirst(r) ==
  (IF r.key \in RuntimeRuleIds THEN <<SONAR_RUNTIME>> ELSE <<>>)
  \o r.configurations
  \o (IF r.key \in ContextRuleIds THEN <<SONAR_CONTEXT>> ELSE <<>>)

ExtendRuleConfig(r) ==
  r.configurations
  \o (IF r.key \in RuntimeRuleIds THEN <<SONAR_RUNTIME>> ELSE <<>>)
  \o (IF r.key \in ContextRuleIds THEN <<SONAR_CONTEXT>> ELSE <<>>)

CreateLinterConfig(rules) ==
  [i \in DOMAIN rules |-> [key |-> rules[i].key, options |-> ExtendRuleConfig(rules[i])]]

\* A plausible slip in the partition: a rule is filed under one type only.
FileTypeRulesElse(ft) ==
  LET mainRules == SelectSeq(inputRules, LAMBDA r : "MAIN" \in r.fileTypeTarget)
  IN  IF ft = "MAIN" THEN mainRules
      ELSE SelectSeq(inputRules, LAMBDA r : "TEST" \in r.fileTypeTarget
                                            /\ "MAIN" \notin r.fileTypeTarget)

\* mainRules / testRules of createConfig.
FileTypeRules(ft) == SelectSeq(inputRules, LAMBDA r : ft \in r.fileTypeTarget)

\* A plausible slip: the partitions are passed on without createLinterConfig.
CreateConfigRaw == [ft \in FileTypes |-> FileTypeRules(ft)]

\* A slip that merges across file types (spec section 9): each entry takes
\* the parameters of the last entry of its key in the whole profile.
CreateConfigByKey ==
  LET last(k) == inputRules[Max({i \in DOMAIN inputRules : inputRules[i].key = k})]
      byKey(rules) == [i \in DOMAIN rules |-> [rules[i] EXCEPT !.configurations =
                                                 last(rules[i].key).configurations]]
  IN  [ft \in FileTypes |-> CreateLinterConfig(byKey(FileTypeRules(ft)))]

CreateConfig == [ft \in FileTypes |-> CreateLinterConfig(FileTypeRules(ft))]

Init ==
  /\ inputRules \in InputProfiles
  /\ phase = "init"
  /\ registry = NoRules
  /\ config = [ft \in FileTypes |-> <<>>]
  /\ lastLint = NoLint

\* The constructor when require(ruleBundle) throws in contextRules: the
\* loaders before contextRules have already defined their rules, the
\* bundles are all required before any is defined, and the exception
\* leaves the constructor, so no wrapper exists.
ConstructRequireFails ==
  LET k == Min({i \in DOMAIN RuleBundles : RuleBundles[i] = "contextRules"})
  IN  /\ phase = "init"
      /\ ContextBundles # <<>>
      /\ "contextRules" \in ToSet(RuleBundles)
      /\ phase' = "loadFailed"
      /\ registry' = LoadBundles(SubSeq(RuleBundles, 1, k - 1))
      /\ UNCHANGED <<inputRules, config, lastLint>>

\* The constructor when every bundle loads: the rule map is complete, and
\* createConfig fails fast on a key the map does not have.
Construct ==
  LET reg == LoadCustomRules(LoadBundles(RuleBundles))
      unknown == {inputRules[i].key : i \in DOMAIN inputRules} \ DOMAIN reg
  IN  /\ phase = "init"
      /\ IF unknown = {}
           THEN /\ phase' = "ready"
                /\ registry' = reg
                /\ config' = CreateConfig
           ELSE /\ phase' = "configFailed"
                /\ UNCHANGED <<registry, config>>
      /\ UNCHANGED <<inputRules, lastLint>>

\* const threshold = context.options.length > 0 ? context.options[0] : DEFAULT
Threshold(options) == IF Len(options) > 0 THEN options[1] ELSE DEFAULT_THESHOLD

\* complexity > threshold in JavaScript: compared with a string that is
\* not a numeral (the flag, the context object) it is NaN and false.
TooComplex(c, t) == t \notin {SONAR_RUNTIME, SONAR_CONTEXT} /\ c > t

Lint(ft, c) ==
  LET cfg == config[ft]
  IN  /\ phase = "ready"
      /\ lastLint' =
           [fileType |-> ft, complexity |-> c,
            fired |-> {cfg[i].key : i \in DOMAIN cfg},
            reported |-> \E i \in DOMAIN cfg :
                           /\ cfg[i].key = RegexRule
                           /\ registry[RegexRule] = "internal"
                           /\ TooComplex(c, Threshold(cfg[i].options))]
      /\ UNCHANGED <<inputRules, phase, registry, config>>

Next ==
  \/ ConstructRequireFails
  \/ Construct
  \/ \E ft \in FileTypes, c \in Complexities : Lint(ft, c)

Spec == Init /\ [][Next]_vars

-----------------------------------------------------------------------------
(* Properties                                                              *)

OptionValues == {SONAR_RUNTIME, SONAR_CONTEXT} \cup Nat

TypeOK ==
  /\ phase \in {"init", "ready", "loadFailed", "configFailed"}
  /\ DOMAIN registry \subseteq RuleIds
  /\ config \in [FileTypes -> Seq([key : RuleIds, options : Seq(OptionValues)])]
  /\ lastLint.fileType \in FileTypes \cup {"none"}
  /\ lastLint.fired \subseteq RuleIds
  /\ lastLint.reported \in BOOLEAN

\* The sources in the order the constructor defines them: the bundles of
\* RuleBundles, each expanded to the sources it copies in, then the custom
\* rules of the options.
BundleSources(bundleId) ==
  CASE bundleId = "externalRules"       -> ExternalDeps
    [] bundleId = "pluginRules"         -> <<[name |-> "sonarjs-plugin", rules |-> PluginRuleIds]>>
    [] bundleId = "internalRules"       -> <<[name |-> "internal", rules |-> InternalRuleIds]>>
    [] bundleId = "contextRules"        -> ContextBundles
    [] bundleId = "internalCustomRules" -> <<[name |-> "internal-custom", rules |-> InternalCustomRuleIds]>>

LoadOrder ==
  FoldLeft(LAMBDA acc, b : acc \o BundleSources(b), <<>>, RuleBundles)
  \o <<[name |-> "custom", rules |-> CustomRuleIds]>>

Abstract == INSTANCE RuleRegistry
              WITH Sources <- LoadOrder,
                   registry <- IF phase = "ready" THEN registry ELSE NoRules,
                   built <- phase = "ready"

\* The loaders, run in bundle order and followed by the custom rules,
\* implement the registry of the spec: once the wrapper exists, every key
\* of every source is defined by the last source that has it.  The map
\* is seen only through a wrapper (phase "ready"): a constructor that
\* throws leaves its partly filled Linter unreachable.
RegistryRefinement == Abstract!Spec

\* lint on a file of type ft runs exactly the active rules whose
\* fileTypeTarget includes ft, whatever else targets the other type
\* (createConfig's partition and lint's choice of this.config[fileType]).
LintRunsTargetedRules ==
  lastLint.fileType \in FileTypes =>
    lastLint.fired = {inputRules[i].key : i \in {j \in DOMAIN inputRules :
                        lastLint.fileType \in inputRules[j].fileTypeTarget}}

\* The regex-complexity entry active for the linted file type, if any.
RegexEntries(ft) ==
  {inputRules[i] : i \in {j \in DOMAIN inputRules :
     inputRules[j].key = RegexRule /\ ft \in inputRules[j].fileTypeTarget}}

\* A regex-complexity entry with an explicit threshold reports a regex
\* exactly when its complexity is above that threshold: the parameter
\* the quality profile sets is the first option the rule reads, ahead of
\* the sonar-runtime flag the configuration appends.
ExplicitThresholdHonoured ==
  \A r \in RegexEntries(lastLint.fileType) :
    Len(r.configurations) > 0 =>
      (lastLint.reported <=> lastLint.complexity > r.configurations[1])

\* A regex-complexity entry without parameters reports a regex exactly when
\* its complexity is above the default threshold of 20, as the rule's
\* tests with no options expect.
DefaultThresholdHonoured ==
  \A r \in RegexEntries(lastLint.fileType) :
    r.configurations = <<>> =>
      (lastLint.reported <=> lastLint.complexity > DEFAULT_THESHOLD)

=============================================================================
