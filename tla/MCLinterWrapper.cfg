CONSTANTS
  RuleIds <- MCRuleIds
  ExternalDeps <- MCExternalDeps
  PluginRuleIds = {"no-dup"}
  InternalRuleIds = {"regex-complexity", "no-unused"}
  ContextBundles <- MCContextBundles
  InternalCustomRuleIds = {"symbol-highlighting"}
  CustomRuleIds = {"no-unused"}
  RuleBundles <- MCRuleBundles
  RuntimeRuleIds = {"regex-complexity"}
  ContextRuleIds = {"taint"}
  RegexRule = "regex-complexity"
  InputProfiles <- MCInputProfiles
  Complexities <- MCComplexities
  SONAR_RUNTIME = SONAR_RUNTIME
  SONAR_CONTEXT = SONAR_CONTEXT
SPECIFICATION Spec
INVARIANTS
  TypeOK
  LintRunsTargetedRules
  ExplicitThresholdHonoured
PROPERTIES
  RegistryRefinement
\* A constructor that throws leaves no wrapper: nothing more happens.
CHECK_DEADLOCK FALSE
