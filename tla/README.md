# TLA+ models of the SonarJS ESLint bridge

The models cover the ESLint-based analysis engine under `src/src/`:

- how the linter wrapper builds its rule registry and linting configurations;
- how it lints a file;
- the stateful visitors of the rules that carry state across AST callbacks.

Source paths below are relative to the repository root (`src/`).

## 1. The system

### Parts and how they interact

| Part | Source | State | Operations |
|---|---|---|---|
| Rule registry | `linting/eslint/linter/bundle-loader.ts` | the ESLint `Linter`'s rule map (key → rule module) | `loadBundles`, which runs the loaders `externalRules`, `pluginRules`, `internalRules`, `contextRules` and `internalCustomRules`; `loadCustomRules` |
| Linter wrapper | `linting/eslint/linter/wrapper.ts` | `linter`, plus `config`: one ESLint configuration per file type | `constructor`, `createConfig`, `lint` |
| Rule configuration | `linting/eslint/linter/config` (not in `src/`; spec §4.2) | none | `createLinterConfig`, `extendRuleConfig`: the explicit parameters, then the `sonar-runtime` flag, then the context object |
| Regex complexity rule (S5843) | `linting/eslint/rules/regex-complexity.ts` | `threshold` from `create`; `regexNodes`; per part, a `ComplexityCalculator` holding `nesting`, `complexity` and `components` | the collecting callbacks, `Program:exit`, `checkRegexComplexity`, and the regexpp visitor callbacks `on*Enter` / `on*Leave` |
| Loop jumps rule (S135) | `rules/too-many-break-or-continue-in-loop.ts` | the `jumpTargets` stack | enter and leave of loops, switches and labels; `break`; `continue` |
| Named groups rule | `rules/unused-named-groups.ts` | what is known about each regex, collected during traversal | the callbacks, then the decision at `Program:exit` |
| Function in loop rule (S1515) | `rules/function-inside-loop.ts` | none across callbacks; decides from scope analysis | the function callback |
| Duplicate composite types rule (S4621) | `rules/no-duplicate-in-composite.ts` | none across callbacks | the union/intersection callback, its report and suggestion |
| Inverted assertions rule | `rules/inverted-assertion-arguments.ts`, `rules/helpers/mocha.ts` | a stack of test cases | entering and leaving test-case callbacks |
| Other rules | `rules/*.ts`, `rules/decorators/*.ts` | none across callbacks | one callback per node kind, each of which may report |
| CPD visitor | `linter/visitors/cpd.ts` | none | filters tokens and substitutes literals |
| Error middleware | `routing/errors/middleware.ts` | none | maps an error to an HTTP response |

The constructor of `LinterWrapper` does three things in order:

1. It runs the loaders of `options.ruleBundles ?? defaultRuleBundles`. Each loader defines its rules into the linter, and a later definition of a key replaces an earlier one.
2. It defines `options.customRules`.
3. It builds `this.config`:
   - It partitions `options.inputRules`, the active quality profile, into MAIN and TEST. A rule that targets both file types goes into both.
   - It extends each rule's options.

`lint` takes the configuration of the file's type and runs ESLint once over the tree. Each active rule's `create` reads its options. For regex-complexity, `threshold = options.length > 0 ? options[0] : 20`. The rule's callbacks then run during traversal. `regex-complexity` collects regex nodes during traversal. At `Program:exit` it scores each group of concatenated parts, using one fresh calculator per part, and reports when the sum exceeds the threshold.

### Hard behaviours

These are the behaviours a unit test would hardly reach. `PROJECT.json` lists each one at its source line.

- **Override order.** Three layers must be resolved in the right order:
  - the order of the three external dependencies;
  - the bundle order;
  - custom rules last.
- **The `sonar-runtime` flag taking the place of a missing threshold.**
- **A balanced `nesting` counter.** Every path through nested groups, lookarounds, classes and quantifiers must leave it balanced. The lookaround handlers change it twice, once of them inside `onDisjunction*`.
- **The weighting of alternatives.** Only the first extra alternative is weighted by nesting.
- **The threshold boundary.** A regex with a complexity equal to the threshold is not reported.
- **Overlapping regex targets.** A regex literal collected on its own and reached again through `new RegExp(re)` or a string method's argument is checked once per target.
- **One `forEach` for all regexes.** An exception out of one `checkRegexComplexity` skips every later regex of the file.
- **Concatenated parts.** The group's totals must be accumulated across parts, including parts that do not parse.
- **An unlabeled `continue` inside a switch.** In the loop jumps rule it stops at the switch's jump target.
- **Callbacks of the named groups rule in traversal order.** A group access is resolved through `bindings` when it is visited, so its order relative to the `match`/`exec` that binds the matcher decides the Program:exit report. A matcher assigned again must take its new regex; when the new pattern resolves to no known regex, `bind` keeps the old binding.
- **Group numbering.** A numeric backreference or index counts all capturing groups, named or not.
- **Where a loop writes a captured variable.** Header, body or a nested block, or somewhere that runs once: a `for` init, or the iterable of a for-in/of, which lies inside the range `getLoopTestRange` gives those loops.
- **The test-case stack of the inverted assertions rule.** The exit must pop only what the enter pushed, across nested test cases and other calls.
- **The ranges of a duplicate-type suggestion.** Parentheses around a type and around the composite must be removed with the duplicate, or kept with the type before it.

## 2. Modules

### `RegexComplexity` (+ `MCRegexComplexity`)

This module models `ComplexityCalculator` and `checkRegexComplexity`. regexpp is the environment. The module walks every regex AST within the bounds:

- Pattern, Alternative, Group, CapturingGroup;
- lookahead and lookbehind assertions, and edge assertions;
- CharacterClass, Quantifier, Backreference, Character.

It visits the nodes in the order `visitRegExpAST` calls the handlers. `stack` is the path of frames `[kind, nalts, kids]`.

Each handler is one action and applies exactly what the handler does. For example, `OnAssertionEnter` for a lookaround:

1. adds the `nesting` increment;
2. increments `nesting`;
3. runs `onDisjunctionEnter`.

`increaseComplexity`, `onDisjunctionEnter` and `onDisjunctionLeave` are operators.

Some data is abstracted:

- A component is its increment, and the components are kept as a bag.
- Locations and message text are left out.
- `Unparsable` holds the literals for which `getParsedRegex` returns null. For those, `visit` returns at once.

**The parts.** `findRegexParts` is the pair of RECURSIVE operators `Find` and `FindInStringConcatenation`, over `Expr`, a program's expression graph. A node is one of:
- a `RegExp` construction;
- a regex, string or static template literal;
- an identifier, with its unique write or `NoWrite`;
- a `+`;
- anything else.

The predicates `isRegExpConstructor`, `getUniqueWriteUsage` and the like are not under `src/`, and they are these node types.

**Collection and `Program:exit`.** A program is a sequence of top-level expression trees. A constant's initialiser is one of those trees, not a child of the identifiers that refer to it. ESLint leaves the nodes in post-order (`ExitOrder`, modelled from spec §4.3 because the traversal is not in `src/`). Each exit is one action:
- `LiteralRegexExit`, `NewExpressionExit` and `CallExpressionExit` are the three collecting callbacks. The third collects a string method's first argument only when parser services are available; otherwise it collects the call if it is `RegExp(...)`.
- `OtherExit` leaves a node that no selector matches.
- `CheckRegexNode` is one iteration of `regexNodes.forEach`. It starts `checkRegexComplexity` on the next node: `findRegexParts` sets `groups`, or throws.

`Init` picks a program and whether parser services are available (`services`).

`find` keeps no set of visited nodes, so a graph whose constants concatenate each other recurses until JavaScript's stack overflows. `CallDepth` follows the same calls (`Callees`) and stops at `StackLimit`. When the depth reaches that limit, `Init` sets `thrown`, the exception that leaves `checkRegexComplexity`, and `groups` is empty. `CallDepth` is cut, so TLC evaluates it on cyclic graphs too. `Bounds` gives each literal its own AST bounds (alternatives, elements per alternative, depth).

`FinishPart` is the rest of one iteration of the loop over parts. It folds the part's components and complexity into the group and starts a fresh calculator. `ReportIfTooComplex` ends one iteration of the loop over groups: it makes the report decision, then starts the next group's `complexity = 0` and its secondary lists.

The ghost variables `specScore`, `specTotal` and `specTotals` (one per finished group) accumulate the score that the rule description defines. It is computed from the path alone (`SpecNesting`, `SpecContribution`), independently of the counter. The properties relate the code's state to that score. The ghost `scored` holds `<<call, literal>>` for every calculator run. `PatternLiterals` is the reference for them: the literals the regex node reaches, by a set-valued closure over the graph.

### `RuleRegistry` (abstract)

This is what the registry promises in spec §4.1. Named sources are merged in a given order, and the last source that defines a key wins. The registry is built in one step and never changes afterwards.

### `LinterWrapper` (+ `MCLinterWrapper`)

This module models the constructor and `lint`. A rule module is the name of its source.

**Operators:**
- `RunLoader` is `loaders[bundleId]`.
- `LoadExternalRules` copies the three dependencies in order.
- `LoadContextRules` collects the bundles and defines them in order.
- `LoadBundles` folds the loaders over `RuleBundles`.
- `LoadCustomRules` defines the custom rules.
- `FileTypeRules` and `CreateConfig` model `createConfig`.
- `ExtendRuleConfig` and `CreateLinterConfig` are modelled from spec §4.2, because `linter/config` is not in `src/`.

**Actions:**
- `Construct` is the constructor when every `require` succeeds. If the profile names a key the map lacks, `createConfig` fails fast, as spec §4.2 requires.
- `ConstructRequireFails` is the constructor when a context bundle's `require` throws. The loaders before `contextRules` have already defined their rules in `registry`; the exception leaves the constructor, and the partly filled `Linter` is a field of an object `new` never returns. `RegistryRefinement`'s mapping therefore shows the map only once a wrapper exists (`phase = "ready"`).
- `Lint(ft, c)` lints a file of type `ft` that contains a regex of complexity `c`. It records:
  - the rules it ran;
  - whether regex-complexity reported, using `Threshold`, which is line 68, and `TooComplex`, which is JavaScript's `>` where a non-numeric string is NaN.

`SONAR_RUNTIME` and `SONAR_CONTEXT` are model values.

The refinement mapping to `RuleRegistry`:
- `Sources` is `LoadOrder`, the bundles expanded into their sources, followed by the custom rules.
- `registry` is the linter's map once the wrapper exists, and the empty map before that or if the constructor threw.
- `built` is `phase = "ready"`.

### `TooManyBreakOrContinue` (+ `MCTooManyBreakOrContinue`)

This module models the S135 rule. Its state is `jumpTargets`: one `[label, jumps]` per loop, switch or labeled statement being traversed.

**The traversal is the environment.** The module walks every program within the bounds that the parser accepts:
- a jump must have a target;
- `continue L` needs `L` to label a loop;
- labels do not nest under the same name.

A program is built from loops, switches, labeled statements, labeled blocks, and labeled or unlabeled breaks and continues.

**The handlers:**
- `OnLoopEnter` stands for the five loop selectors, which share one handler.
- `OnLoopExit` is `leaveScopeAndCheckNumberOfJumps`.
- `OnSwitchEnter`/`Exit` and `OnLabeledEnter`/`Exit` push and pop a target.
- `OnBreak` and `OnContinue` run `increateNumberOfJumpsInScopes`.

**The reference.** Each loop frame of `path` carries `spec`, the jumps the rule's description counts for that loop: the jumps that leave or continue it. It is computed from the syntactic target of each jump (`JumpTargetIndex`), independently of `jumpTargets`.

**`left`** holds the list the code built for the last loop left, its `spec`, and whether the code reported it.

### `UnusedNamedGroups` (+ `MCUnusedNamedGroups`)

This module models S5860's `RegexIntelliSense` and the decision at `Program:exit`. The traversal is the environment: every order of the callbacks, up to `MaxEvents`, each regex literal collected once.

- A regex is the constant `Shape[r]` of its capturing groups, `[name, backref]`, and `Unparsable` are the literals `getParsedRegex` rejects. `NamedGroups` and `MakeRegexKnowledge` build the knowledge, numbering groups among all capturing groups.
- `CollectKnowledge` (a literal left), `CollectPatternMatcher` (`m = str.match(r)` / `r.exec(str)`), `CheckStringReplaceGroupReferences`, `CheckIndexBasedGroupReference` and `CheckNonExistingGroupReference` are the traversal callbacks. A pattern argument is already resolved to the regex `findRegexRec` reaches.
- `Bind` is `bind`'s update of `bindings`.
- `ProgramExit` runs `checkUnusedGroups` and `checkIndexedGroups`.

The ghost variables `bound`, `holds`, `accessed` and `replaced` record what the program does, independently of `bindings` and `knowledge`:
- `bound`: every binding;
- `holds`: for each matcher, the regex of the latest `match`/`exec` assigned to it whose regex was known;
- `accessed`: every group read, with `holds` of its matcher at that point;
- `replaced`: every replace.

### `FunctionInsideLoop` (+ `MCFunctionInsideLoop`)

This module models S1515. The handler runs once per function node and decides from scope analysis, so the model is one decision (`OnFunction`) over every function `Init` allows:
- the loop kind around it (or none);
- whether a `for` has a test;
- whether the body is a block;
- the function's parent node (`IsIIEF`, `IsAllowedCallbacks`);
- for each captured variable, its declaration kind and the places the program writes it.

Source ranges are abstracted to named places: for init, for-in/of left, for-in/of iterable, test, update, body, a block nested in the body, outside. `GetLoopTestRange`, `HasConstValue` and `IsSafe` translate the three helpers. `CapturesLoopVariable` is the reference: a var or parameter written somewhere that runs on every iteration. The `for` init and the for-in/of iterable run once.

### `InvertedAssertionArguments` (+ `MCInvertedAssertionArguments`)

This module models S3415 and `Mocha.isTestCase`. The traversal is the environment: calls nest in every way the bounds allow and are left in source order.
- `CallExpression(c)` pushes a test case, or checks any other call while `testCases` is not empty.
- `CallExpressionExit` pops a test case when it is left.

A call is the shape of its callee and the kind of its arguments (literal or not). `ExtractAssertionsArguments` keeps the order of the three extractors. The ghost `calls` records whether each call was entered inside an `it`/`specify`. `ActualExpected` is an independent table of the assertion APIs' argument order.

### `NoDuplicateInComposite` (+ `MCNoDuplicateInComposite`)

This module models S4621. A composite is a sequence of type texts, each with or without parentheses, and itself with or without them. `Tokens` renders it. `TypeEnd` is where a type node ends.

- `GetEnd` is the RECURSIVE translation of `getEnd`, which skips closing parentheses.
- `Duplicates`, `GetSuggestions` and `ApplyFix` are the grouping, the removal ranges and ESLint's application of `removeRange`.
- `Report` builds the message: the primary location, the secondary locations, and the `Original` label.

`Deduplicated` is the reference: the composite with each duplicated text kept at its first occurrence.

## 3. Runs

| Run | Configuration | Expect | What it shows |
|---|---|---|---|
| `regex_complexity` | `MCRegexComplexity.cfg` | pass | At every node of every AST within the bounds, `nesting` equals the nesting the path defines (`NestingMatchesScope`), and `complexity` equals the spec score of what has been visited so far (`ComplexityMatchesSpec`). Every group `findRegexParts` returns is reported once, with the right cost and its own contributions as secondaries, exactly when its summed score exceeds the threshold (`ReportIffAboveThreshold`). Every literal the regex node reaches is scored (`PartsCoverRegex`). Once `Program:exit` returns, every literal has been scored by as many calls as there are targets reaching it (`EachTargetScoredOnce`). A literal that is a target and also part of another one is therefore scored and reported twice, and a string method's argument is a target only with parser services. On an acyclic program `Program:exit` always returns (`CheckReturns`, under weak fairness). 431k states, about 2.5 min. |
| `regex_constant_cycle` | `MCRegexConstantCycle.cfg` | violation | `CheckReturns` fails for `new RegExp(a)` with `const a = b + 'x'` and `const b = a + 'y'`: `find` recurses without bound, the stack overflows, and the check never finishes. |
| `linter_wrapper` | `MCLinterWrapper.cfg` | pass | The loaders implement the last-wins registry (`RegistryRefinement`, a PROPERTY). `lint` runs exactly the rules targeted at the file's type (`LintRunsTargetedRules`). An explicit regex threshold is the one the rule applies, including when the profile gives MAIN and TEST different thresholds for the same key (`ExplicitThresholdHonoured`). |
| `loop_jumps` | `MCTooManyBreakOrContinue.cfg` | pass | Apart from an unlabeled `continue` inside a switch, the jumps listed for each loop are exactly those that leave or continue it, and the loop is reported when they are more than one (`LoopJumpsCounted`). This covers labeled jumps that cross other labels and an inner loop, so that one jump is charged to two loops, and breaks absorbed by inner loops or switches. 7.2M states. |
| `loop_jumps_in_switch` | `MCLoopJumpsInSwitch.cfg` | violation | `LoopReportedOnItsJumps` fails on `for (;;) { switch (x) { case 0: continue; } break; }`. The `continue` stops at the switch's target because both labels are undefined, so the loop holds one jump and is not reported. This is a `code_bug` finding. |
| `linter_default_threshold` | `MCLinterDefaultThreshold.cfg` | violation | `DefaultThresholdHonoured` fails: an entry without parameters is configured as `['sonar-runtime']`, the rule takes that string as its threshold, and it never reports. This is a finding in `PROJECT.json`. |
| `unused_groups` | `MCUnusedNamedGroups.cfg` | pass | In every order of the callbacks, the reports are exactly the unused named groups of matched regexes, given the uses visited after the binding; an access counts for the regex of its matcher's latest known match, as the history ghost `holds` records it (`UnusedReportsInOrder`). Every by-number report names the groups at those positions among all capturing groups (`NumberedReferencesNameTheirGroups`). 358k states. |
| `unused_groups_use_before_match` | `MCUnusedGroupsUseBeforeMatch.cfg` | violation | `UsedGroupsNotReportedUnused` fails: an access `m.groups.a` visited before `const m = str.match(re)` resolves to nothing, and `a` is reported unused. |
| `loop_functions` | `MCFunctionInsideLoop.cfg` | violation | `ReportsOnlyLoopVariables` fails: in `var xs; for (const k of (xs = load())) fns.push(() => xs);` the function is reported although `xs` is written once. For a for-in/of, `getLoopTestRange` starts the header range at the loop node, so the range holds the iterable as well as the left side. This is a `code_bug` finding. |
| `loop_nested_write` | `MCLoopNestedWrite.cfg` | violation | `LoopVariablesReported` fails: a var written only in a block nested in the loop body (`if (c) { x = i; }`) is not seen as written in the loop. |
| `inverted_assertions` | `MCInvertedAssertionArguments.cfg` | pass | Across every nesting of test cases and other calls, the reports are exactly the assertions inside an `it`/`specify` whose actual argument is a literal and whose expected one is not (`ReportsInvertedAssertionsInTests`). |
| `duplicate_types` | `MCNoDuplicateInComposite.cfg` | pass | Every duplicated text is reported once with all its occurrences located, the first as `Original` (`ReportsLocateEveryOccurrence`). Applying the suggestion leaves exactly the composite with that type at its first occurrence, whatever the parentheses (`SuggestionRemovesDuplicates`). |

Every property of a passing run has a mutant in `PROJECT.json`. A mutant is an operator written just before the definition it replaces, and it reproduces a plausible slip in the code. Examples:

- weighting every alternative by nesting;
- raising nesting even for a single alternative;
- the group's `complexity = 0` hoisted out of the loop over groups;
- `findInStringConcatenation` ignoring operands that are not string literals;
- first-wins merging of the external dependencies;
- a rule's parameters resolved by key across both file types;
- a part finished before it was walked;
- the `sonar-runtime` flag put before the explicit parameters;
- an `else` in the file-type partition;
- groups numbered among the named groups only;
- a matcher keeping its first binding (`BindFirstWins`); dropping the backreference marks (`NamedGroupsIgnoringBackrefs`) breaks the same property;
- the test-case exit popping whatever is on the stack;
- `getEnd` not skipping parentheses;
- splicing the first occurrence out as the primary location.

### Bounds

**`MCRegexComplexity`:**
- eight programs, each linted with and without parser services:
  - `const x = '(a|b)'; new RegExp('a*' + x)`, which gives two groups, x's first;
  - `s.match('a*' + '(')`, where `'('` does not parse;
  - `s.match` of a static template plus `'('`;
  - `s.match(y)`, where `y` has no unique write;
  - `s.match(x + x)`;
  - `s.match(/c/ + '(')`, where `/c/` is a target of its own;
  - `const re = /d/; RegExp(re)`, where `/d/` is a target of its own;
  - a regex literal walked alone, with up to 3 alternatives, one element per alternative and paths of 5 nodes.
- `/c/` and `/d/`: up to 2 alternatives of one element;
- the other literals: up to 3 alternatives, two elements per alternative, depth 3;
- at most two parsable parts per node;
- threshold 1. The totals reached fall below it, at it and above it.
- `StackLimit` 8, above the deepest acyclic call chain (4).

The deep literal reaches three-way disjunctions under quantifiers, and lookarounds and classes inside quantified groups, which is where the nesting increments stack. The other programs reach one and two groups, groups of a parsable and an unparsable part, a target with no group, and both ways a literal is reached from two targets. The three collecting callbacks all fire, and so does the services guard. Each regex node has at most two walked parts; more would multiply the walks without new kinds of group.

`MCRegexConstantCycle` lints the single program `const a = b + 'a*'; const b = a + '(a|b)'; new RegExp(a)`.

**`MCTooManyBreakOrContinue`:**
- labels `a` and `b`;
- statements nested up to 5 deep below the Program (`MaxDepth`). The jump itself counts as one level;
- 2 statements per body (`MaxStmts`);
- at most 3 breaks and continues per program (`MaxJumps`).

The depth is what the labeled crossings need. `a: b: for (;;) { for (;;) { continue a; } }` nests five deep: its `continue a` crosses a second label and an inner loop, and is charged to both loops. At depth 3, no jump could be charged to two loops. A witness invariant (no jump in two loops) was confirmed to be violated at these bounds. The run also reaches a switch followed by a jump in a loop, and two jumps in one loop. It has 7.2M states and runs in about 1m45s.

**`MCLinterWrapper`:**
- The rule universe makes every override layer matter:
  - `no-shadow` conflicts only among the external dependencies;
  - `no-unused` is defined at every layer up to a custom rule;
  - `taint` is defined in both context bundles.
- Profiles:
  - a regex-complexity entry without parameters, with threshold 10, or with threshold 30;
  - each of those for MAIN, TEST or both;
  - optionally paired with a context rule or an undefined key;
  - or two regex-complexity entries, one for MAIN and one for TEST, with different parameters.
- Complexities are 5, 25, 30 and 35, so they fall on both sides of every threshold, and one is equal to the threshold of 30.

**`MCUnusedNamedGroups`:**
- three regexes, one of them unparsable;
- shapes with an unnamed group between two named ones, and a named group used by a numeric backreference;
- two matchers;
- three names, one of which no regex defines;
- up to 5 callbacks.

This reaches a regex bound, rebound, used by name and by index, replaced, and left unused.

**`MCFunctionInsideLoop`:**
- one captured variable;
- every loop kind and every parent;
- every declaration kind and every set of write places.

Further variables would only add disjunctions of the same check.

**`MCInvertedAssertionArguments`:**
- 10 call shapes: test cases, `describe`, assert/expect/fail calls with each argument order, and a plain call;
- up to 4 calls, nested up to 3 deep.

This reaches test cases inside test cases and assertions after a test case has been left.

**`MCNoDuplicateInComposite`:**
- two texts;
- up to four types, each with or without parentheses;
- the composite with or without parentheses.

This reaches three occurrences of a text, with the duplicates adjacent or not.

### Fairness and deadlock

`CheckReturns` is checked under `WF_vars(Next)`. `checkRegexComplexity` runs synchronously inside ESLint's single-threaded traversal, and nothing else can take a step while it runs. Once it has been called, the only thing that stops its next step is an exception, so weak fairness of the whole next-state relation is what the code guarantees. No other run checks liveness. Every other step is a callback driven by a finite traversal, so a liveness property there would hold by construction.

The checks set `CHECK_DEADLOCK FALSE` because both systems really stop:
- `Program:exit` of `regex-complexity` returns once every collected node has been checked, or stops when a check throws;
- ESLint's traversal ends when the Program node is left;
- a constructor that throws leaves nothing to run;
- each of the other rules' traversals, and each of their per-node callbacks, runs once and ends.

## 4. Findings

`PROJECT.json` records six findings, one for each violation run:

1. **`regex-complexity.ts:68`.** An entry without parameters never reports: its threshold is `'sonar-runtime'`.
2. **`too-many-break-or-continue-in-loop.ts:50`.** An unlabeled `continue` in a switch is not charged to its loop.
3. **`unused-named-groups.ts:359`.** A use visited before the binding gives a false "unused" report.
4. **`function-inside-loop.ts:135`.** A write in a block nested in the loop body is missed.
5. **`regex-complexity.ts:151`.** Constants that concatenate each other overflow the stack in `find`. Spec §7 has rule checks return a result, not throw.
6. **`function-inside-loop.ts:164`.** A var written once, in the iterable of a for-in/of, makes a function in the loop reported. The range is named `leftRange` but starts at `loopNode.range[0]`.

The hazards list also notes two gaps with no run of their own:
- a `for` without a test has an empty header range, so a write in its update is not seen either;
- `bind` (`unused-named-groups.ts:388`) keeps a matcher's old binding when it is assigned again from a pattern that resolves to no known regex, so a later access marks the old regex's groups.

## 5. Not modelled, and the plan

Not modelled yet:
- **The resolution of a pattern argument through `findRegexRec`** in `unused-named-groups`.
- **Whether a literal reached from two regex targets should be reported twice.** `regex-complexity` does report it twice (`EachTargetScoredOnce` pins this down), and spec §4.5 flags each target on its own total. No violation run claims it as a defect, because the spec does not say otherwise. `isStringRegexMethodCall` is not in `src/`, so the string-method arguments in the models are string expressions only.
- **Two entries of one rule key for the same file type.** What ESLint's configuration does with them is decided in `linter/config`, which is not in `src/`. The profiles therefore give one key at most one entry per file type.
- **ESLint's traversal and message transformation.**
- **The CPD token visitor** (`linter/visitors/cpd.ts`). Its filtering is one sequential pass with no state across calls. One disagreement was found while reading it, and it is recorded as a hazard with no property. `isStringLiteralToken` (line 127) looks only at a token's first character. As a result, a template with substitutions has only its head token anonymised to `LITERAL`; its middle and tail tokens keep their text. The doc comment at lines 26–33 promises that string literals are anonymised. Showing this needs a violation run of its own, and all 12 run slots of the project are in use.
- **The error middleware.** It is one `switch` from an error to a JSON response. The `APIError`s that reach it are built in the `errors` and `services` modules, which are not in `src/`. Composing it with `LinterWrapper` would mean guessing their code, and a model of the switch alone would only restate it.
- **The rules with no state across callbacks.**

Pure helpers are out of scope because there is nothing to interleave. The regex location helpers are left out because no property is about locations.

Every component listed as modelled in `PROJECT.json` has each of its state-changing operations as an action. What is still outside the project is the list above: code that is not in `src/`, pure conversions with nothing to interleave, and the CPD question, which would need a run slot. Modelling any of it further would mean either guessing code that is not in this repository or restating a single `switch`.

Planned next:

1. If a run slot becomes free, a violation run for the CPD template tokens (`cpd.ts:127`): the token filter as an operator, checked against the doc comment's promise that every string literal is anonymised.
