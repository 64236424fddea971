------------------------- MODULE UnusedNamedGroups -------------------------
(***************************************************************************)
(* The rule S5860 of src/src/linting/eslint/rules/unused-named-groups.ts.  *)
(* RegexIntelliSense collects one RegexKnowledge per regex literal as     *)
(* ESLint leaves it, binds a matcher variable to the regex of a           *)
(* str.match(p) / p.exec(str) whose result it is assigned, marks a named  *)
(* group used when a str.replace, an indexed access matcher[i] or a named *)
(* access matcher.groups.<name> refers to it, and at Program:exit reports *)
(* the unused named groups of every regex that was matched, and every    *)
(* numeric backreference to a named group.                               *)
(*                                                                         *)
(* The traversal is the environment: every order of the callbacks that    *)
(* fire on a program's nodes, up to MaxEvents of them, each literal once. *)
(* A pattern argument is the regex it resolves to (inline, or through the *)
(* unique write of a variable, as findRegexRec follows it); a regex is    *)
(* the constant shape of its capturing groups.  Locations and message     *)
(* text are left out; a report keeps its kind, regex and group names.    *)
(***************************************************************************)
EXTENDS Integers, Sequences, SequencesExt, FiniteSets

CONSTANTS
  Regexes,     \* regex literal nodes
  Unparsable,  \* those getParsedRegex returns null for
  Shape,       \* Shape[r]: capturing groups in order, [name, backref]
  Matchers,    \* matcher variables
  Names,       \* group names a program may mention
  NoName,      \* the name of an unnamed capturing group
  None,        \* no binding: bindings.get(variable) is undefined
  ReplaceRefs, \* the sets of $<name> / $n references a replacement may hold
  MaxEvents    \* most callbacks in one program

Indexes == UNION {DOMAIN Shape[r] : r \in Regexes}

VARIABLES
  services,    \* isRequiredParserServices(context.parserServices)
  visited,     \* regex literals ESLint has left
  knowledge,   \* RegexIntelliSense.knowledge
  bindings,    \* RegexIntelliSense.bindings: matcher -> regex or None
  reports,     \* what context.report received
  done,        \* Program:exit has run
  events,      \* callbacks so far
  bound,       \* ghost: [m, r, known] for every match/exec assigned to m
  holds,       \* ghost: matcher -> the regex of the latest match or exec
               \* assigned to it whose regex was known when it ran
  accessed,    \* ghost: [m, g, when] for every group name or index read
               \* from m, with holds[m] at that point
  replaced     \* ghost: [r, refs, known] for every replace with pattern r

vars == <<services, visited, knowledge, bindings, reports, done, events,
          bound, holds, accessed, replaced>>
ghosts == <<bound, holds, accessed, replaced>>

-----------------------------------------------------------------------------
(* RegexKnowledge                                                          *)

\* A plausible slip: groups numbered among the named groups only.
NamedGroupsNumberedAmongNamed(r) ==
  LET named == SelectSeq(Shape[r], LAMBDA g : g.name # NoName)
  IN  [i \in DOMAIN named |->
         [name |-> named[i].name, index |-> i, used |-> named[i].backref # "none"]]

\* A plausible slip: backreferences are not looked at.
NamedGroupsIgnoringBackrefs(r) ==
  LET all == [i \in DOMAIN Shape[r] |->
                [name |-> Shape[r][i].name, index |-> i, used |-> FALSE]]
  IN  SelectSeq(all, LAMBDA g : g.name # NoName)

\* makeRegexKnowledge / makeGroupKnowledge: the named capturing groups with
\* their index among all capturing groups, used when a backreference
\* resolves to them.
NamedGroups(r) ==
  LET all == [i \in DOMAIN Shape[r] |->
                [name |-> Shape[r][i].name, index |-> i,
                 used |-> Shape[r][i].backref # "none"]]
  IN  SelectSeq(all, LAMBDA g : g.name # NoName)

MakeRegexKnowledge(r) == [regex |-> r, groups |-> NamedGroups(r), matched |-> FALSE]

\* The position of r in knowledge, 0 when findRegex finds nothing.
Find(r) ==
  IF \E k \in DOMAIN knowledge : knowledge[k].regex = r
    THEN CHOOSE k \in DOMAIN knowledge : knowledge[k].regex = r
    ELSE 0

GroupNames(k) == {knowledge[k].groups[j].name : j \in DOMAIN knowledge[k].groups}

\* group.used ||= P(group) for every group of knowledge entry k.
MarkUsed(kn, k, P(_)) ==
  [kn EXCEPT ![k].groups = [j \in DOMAIN @ |-> [@[j] EXCEPT !.used = @ \/ P(kn[k].groups[j])]]]

Handler == ~done /\ services /\ events < MaxEvents

-----------------------------------------------------------------------------
(* Callbacks                                                               *)

\* A plausible slip: the `regex !== null` check is dropped.
CollectKnowledgeUnchecked(r) ==
  /\ Handler
  /\ r \notin visited
  /\ visited' = visited \cup {r}
  /\ knowledge' = Append(knowledge, MakeRegexKnowledge(r))
  /\ events' = events + 1
  /\ UNCHANGED <<services, bindings, reports, done, ghosts>>

\* 'Literal[regex]:exit' (and the regex of NewExpression / CallExpression)
CollectKnowledge(r) ==
  /\ Handler
  /\ r \notin visited
  /\ visited' = visited \cup {r}
  /\ knowledge' = IF r \in Unparsable THEN knowledge
                  ELSE Append(knowledge, MakeRegexKnowledge(r))
  /\ events' = events + 1
  /\ UNCHANGED <<services, bindings, reports, done, ghosts>>

\* A plausible slip: a matcher keeps the regex it was first bound to.
BindFirstWins(m, r) ==
  bindings' = IF bindings[m] = None THEN [bindings EXCEPT ![m] = r] ELSE bindings

\* this.bindings.set(matcher, regex)
Bind(m, r) == bindings' = [bindings EXCEPT ![m] = r]

\* 'CallExpression:exit': const m = str.match(p) / p.exec(str), then bind
CollectPatternMatcher(m, r) ==
  LET k == Find(r)
  IN  /\ Handler
      /\ IF k # 0
           THEN /\ knowledge' = [knowledge EXCEPT ![k].matched = TRUE]
                /\ Bind(m, r)
                /\ holds' = [holds EXCEPT ![m] = r]
           ELSE UNCHANGED <<knowledge, bindings, holds>>
      /\ bound' = bound \cup {[m |-> m, r |-> r, known |-> k # 0]}
      /\ events' = events + 1
      /\ UNCHANGED <<services, visited, reports, done, accessed, replaced>>

\* 'CallExpression:exit': str.replace(p, substr)
CheckStringReplaceGroupReferences(r, refs) ==
  LET k == Find(r)
      refd(g) == g.name \in refs \/ g.index \in refs
  IN  /\ Handler
      /\ IF k # 0
           THEN /\ knowledge' = MarkUsed(knowledge, k, refd)
                /\ LET indexed == {knowledge[k].groups[j].name :
                                     j \in {j \in DOMAIN knowledge[k].groups :
                                              knowledge[k].groups[j].index \in refs}}
                   IN  reports' = IF indexed # {}
                                    THEN reports \cup {[kind |-> "indexed", regex |-> r,
                                                        groups |-> indexed, ref |-> refs]}
                                    ELSE reports
           ELSE UNCHANGED <<knowledge, reports>>
      /\ replaced' = replaced \cup {[r |-> r, refs |-> refs, known |-> k # 0]}
      /\ events' = events + 1
      /\ UNCHANGED <<services, visited, bindings, done, bound, holds, accessed>>

\* 'MemberExpression:exit', computed: matcher[index]
CheckIndexBasedGroupReference(m, i) ==
  LET r == bindings[m]
      k == IF r = None THEN 0 ELSE Find(r)
      at == {j \in DOMAIN knowledge[k].groups : knowledge[k].groups[j].index = i}
  IN  /\ Handler
      /\ IF k # 0 /\ at # {}
           THEN /\ knowledge' = MarkUsed(knowledge, k, LAMBDA g : g.index = i)
                /\ reports' = reports \cup
                     {[kind |-> "index", regex |-> r,
                       groups |-> {knowledge[k].groups[j].name : j \in at}, ref |-> {i}]}
           ELSE UNCHANGED <<knowledge, reports>>
      /\ accessed' = accessed \cup {[m |-> m, g |-> i, when |-> holds[m]]}
      /\ events' = events + 1
      /\ UNCHANGED <<services, visited, bindings, done, bound, holds, replaced>>

\* 'MemberExpression:exit', not computed: matcher.groups.<name>
CheckNonExistingGroupReference(m, name) ==
  LET r == bindings[m]
      k == IF r = None THEN 0 ELSE Find(r)
  IN  /\ Handler
      /\ IF k = 0 THEN UNCHANGED <<knowledge, reports>>
         ELSE IF name \in GroupNames(k)
           THEN /\ knowledge' = MarkUsed(knowledge, k, LAMBDA g : g.name = name)
                /\ UNCHANGED reports
           ELSE /\ reports' = reports \cup {[kind |-> "noGroup", regex |-> r,
                                             groups |-> {name}, ref |-> {}]}
                /\ UNCHANGED knowledge
      /\ accessed' = accessed \cup {[m |-> m, g |-> name, when |-> holds[m]]}
      /\ events' = events + 1
      /\ UNCHANGED <<services, visited, bindings, done, bound, holds, replaced>>

\* checkUnusedGroups, then checkIndexedGroups
CheckUnusedGroups ==
  {[kind |-> "unused", regex |-> knowledge[k].regex, ref |-> {},
    groups |-> {knowledge[k].groups[j].name :
                  j \in {j \in DOMAIN knowledge[k].groups : ~knowledge[k].groups[j].used}}] :
     k \in {k \in DOMAIN knowledge :
              knowledge[k].matched /\ \E j \in DOMAIN knowledge[k].groups :
                                         ~knowledge[k].groups[j].used}}

CheckIndexedGroups ==
  {[kind |-> "backref", regex |-> knowledge[k].regex, ref |-> {},
    groups |-> {Shape[knowledge[k].regex][i].name}] :
     <<k, i>> \in {<<k, i>> \in (DOMAIN knowledge) \X Indexes :
                     /\ i \in DOMAIN Shape[knowledge[k].regex]
                     /\ Shape[knowledge[k].regex][i].name # NoName
                     /\ Shape[knowledge[k].regex][i].backref = "number"}}

ProgramExit ==
  /\ ~done /\ services
  /\ reports' = reports \cup CheckUnusedGroups \cup CheckIndexedGroups
  /\ done' = TRUE
  /\ UNCHANGED <<services, visited, knowledge, bindings, events, ghosts>>

\* create() returns {} without the parser services: no callback runs.
Init ==
  /\ services \in BOOLEAN
  /\ visited = {}
  /\ knowledge = <<>>
  /\ bindings = [m \in Matchers |-> None]
  /\ reports = {}
  /\ done = FALSE
  /\ events = 0
  /\ bound = {}
  /\ holds = [m \in Matchers |-> None]
  /\ accessed = {}
  /\ replaced = {}

Next ==
  \/ \E r \in Regexes : CollectKnowledge(r)
  \/ \E m \in Matchers, r \in Regexes : CollectPatternMatcher(m, r)
  \/ \E r \in Regexes, refs \in ReplaceRefs : CheckStringReplaceGroupReferences(r, refs)
  \/ \E m \in Matchers, i \in Indexes : CheckIndexBasedGroupReference(m, i)
  \/ \E m \in Matchers, n \in Names : CheckNonExistingGroupReference(m, n)
  \/ ProgramExit

Spec == Init /\ [][Next]_vars

-----------------------------------------------------------------------------
(* Properties                                                              *)

TypeOK ==
  /\ visited \subseteq Regexes
  /\ bindings \in [Matchers -> Regexes \cup {None}]
  /\ \A k \in DOMAIN knowledge : knowledge[k].regex \in Regexes \ Unparsable
  /\ events \in 0..MaxEvents
  /\ \A rep \in reports : rep.kind \in {"indexed", "index", "noGroup", "unused", "backref"}

\* The named capturing groups of r, by position among all capturing groups.
NamedPositions(r) == {i \in DOMAIN Shape[r] : Shape[r][i].name # NoName}

\* A matcher whose every binding in the program is to r.
OnlyBoundTo(m, r) == {b.r : b \in {b \in bound : b.m = m}} = {r}

\* Group i of r is used by the program: by a backreference, by a
\* replacement of r, or through a matcher of r, wherever in the file the
\* use is.
UsedInProgram(r, i) ==
  \/ Shape[r][i].backref # "none"
  \/ \E x \in replaced : x.r = r /\ (Shape[r][i].name \in x.refs \/ i \in x.refs)
  \/ \E a \in accessed : OnlyBoundTo(a.m, r) /\ a.g \in {Shape[r][i].name, i}

\* The same, counting only uses ESLint visits once r is known and, for a
\* matcher, while the latest known match assigned to it is of r.
UsedInOrder(r, i) ==
  \/ Shape[r][i].backref # "none"
  \/ \E x \in replaced : x.r = r /\ x.known /\ (Shape[r][i].name \in x.refs \/ i \in x.refs)
  \/ \E a \in accessed : a.when = r /\ a.g \in {Shape[r][i].name, i}

MatchedInOrder(r) == \E b \in bound : b.r = r /\ b.known

\* At Program:exit the "unused named groups" reports are exactly one per
\* parsable regex that a match or exec visited after its literal uses,
\* naming its named groups that no backreference, replacement or access
\* to a bound matcher visited after the binding uses.  An access counts
\* for the regex of the matcher's latest known match, so a matcher bound
\* again marks the groups of its new regex only.
UnusedReportsInOrder ==
  done =>
    \A r \in Regexes \ Unparsable :
      LET unused == {Shape[r][i].name : i \in {i \in NamedPositions(r) : ~UsedInOrder(r, i)}}
          reps == {rep \in reports : rep.kind = "unused" /\ rep.regex = r}
      IN  reps = IF MatchedInOrder(r) /\ unused # {}
                   THEN {[kind |-> "unused", regex |-> r, ref |-> {}, groups |-> unused]}
                   ELSE {}

\* Every report of a group referred to by number (matcher[n], or $n in a
\* replacement) names exactly the named groups at those positions among
\* all capturing groups of the regex, as JavaScript numbers them.
NumberedReferencesNameTheirGroups ==
  \A rep \in reports :
    rep.kind \in {"index", "indexed"} =>
      rep.groups = {Shape[rep.regex][i].name : i \in rep.ref \cap NamedPositions(rep.regex)}

\* spec.md 4.3: rules collect during traversal and decide at Program:exit:
\* a named group that the file uses, wherever the use is, is never
\* reported as unused.
UsedGroupsNotReportedUnused ==
  \A rep \in reports :
    rep.kind = "unused" =>
      \A i \in NamedPositions(rep.regex) :
        Shape[rep.regex][i].name \in rep.groups => ~UsedInProgram(rep.regex, i)

=============================================================================
