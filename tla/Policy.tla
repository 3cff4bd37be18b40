------------------------------- MODULE Policy -------------------------------
(***************************************************************************)
(* The pure part of internal/policy: compiling an operator's rules and     *)
(* matching one tools/call against a compiled policy.                      *)
(*                                                                         *)
(* Names are abstracted to what matching can tell apart.  A tool or target *)
(* glob is the set of names it matches; a literal pattern is a glob with   *)
(* one name and the literal flag.  The two predicates the engine computes  *)
(* from the characters of a tool name (printable ASCII, destructive verb)  *)
(* are the constant sets PrintableTools and DestructiveTools.              *)
(***************************************************************************)
EXTENDS Naturals, Sequences, SequencesExt

CONSTANTS Tools,            \* tool names an agent may send
          PrintableTools,   \* those made of bytes 0x21..0x7E only
          DestructiveTools, \* those for which IsDestructiveTool is true
          Targets,          \* primary-argument values
          NoTarget          \* the empty target string

ASSUME PolicyAssumption ==
  /\ PrintableTools \subseteq Tools
  /\ DestructiveTools \subseteq Tools
  /\ NoTarget \notin Targets

Decisions == {"unset", "allow", "deny", "require_approval"}

\* What ParseDecision accepts; the empty and any other string is "unset".
Actions == {"allow", "deny", "require_approval"}
ParseDecision(action) == IF action \in Actions THEN action ELSE "unset"

Calls == [tool: Tools, target: Targets \cup {NoTarget}]

\* What Compile stores: globs as sets of names, decisions parsed.
CompiledRule ==
  [ tool: SUBSET Tools, targets: SUBSET SUBSET Targets,
    decision: Actions, specificity: {0, 1} ]
CompiledPolicy == [ version: Nat, default: Actions, rules: Seq(CompiledRule) ]

-----------------------------------------------------------------------------
(* Compilation *)

exactToolSpecificity == 0
globToolSpecificity  == 1

\* A config rule [literal, tool, targets, action, wellFormed]: tool and each
\* member of targets is the set of names its pattern matches, wellFormed says
\* that glob.Compile accepts every pattern of the rule.
compileRule(r) ==
  [ tool        |-> r.tool,
    targets     |-> r.targets,
    decision    |-> ParseDecision(r.action),
    specificity |-> IF r.literal THEN exactToolSpecificity
                                 ELSE globToolSpecificity ]

\* compileRule returns an error for this rule.
RuleRejected(r) == ParseDecision(r.action) = "unset" \/ ~r.wellFormed

\* Slip: >= for > in the inner loop, so equal ranks change places.
InsertRuleBeforeEquals(sorted, r) ==
  LET stay == {i \in DOMAIN sorted : sorted[i].specificity < r.specificity}
      at   == IF stay = {} THEN 1 ELSE 1 + Max(stay)
  IN  InsertAt(sorted, at, r)

\* One pass of the inner loop of the insertion sort: rule r, standing after
\* the sorted prefix, moves left past every rule of strictly larger rank.
InsertRule(sorted, r) ==
  LET stay == {i \in DOMAIN sorted : sorted[i].specificity <= r.specificity}
      at   == IF stay = {} THEN 1 ELSE 1 + Max(stay)
  IN  InsertAt(sorted, at, r)

\* The outer loop: the first n rules, sorted.
sortBySpecificity(rules) ==
  LET sorted[n \in 0..Len(rules)] ==
        IF n = 0 THEN <<>> ELSE InsertRule(sorted[n - 1], rules[n])
  IN  sorted[Len(rules)]

\* Compile returns an error, and no policy, for such a config.
CompileFails(cp) ==
  \/ ParseDecision(cp.default) = "unset"
  \/ \E i \in DOMAIN cp.rules : RuleRejected(cp.rules[i])

\* A config policy is [default, rules].  Version 0 is what Compile stamps.
Compile(cp) ==
  [ version |-> 0,
    default |-> ParseDecision(cp.default),
    rules   |-> sortBySpecificity(
                  [i \in DOMAIN cp.rules |-> compileRule(cp.rules[i])]) ]

DenyByDefault == [version |-> 0, default |-> "deny", rules |-> <<>>]

-----------------------------------------------------------------------------
(* Evaluation *)

ruleMatches(r, call) ==
  /\ call.tool \in r.tool
  /\ \/ r.targets = {}
     \/ /\ call.target # NoTarget
        /\ \E g \in r.targets : call.target \in g

MatchingRules(p, call) == {i \in DOMAIN p.rules : ruleMatches(p.rules[i], call)}

IsFirst(i, S) == i \in S /\ \A j \in S : i <= j

\* Slip: no phase 3.
EvaluateWithoutDefault(p, call) ==
  LET matching == MatchingRules(p, call)
  IN  IF call.tool \notin PrintableTools THEN "deny"
      ELSE IF matching # {}
        THEN p.rules[CHOOSE i \in matching : IsFirst(i, matching)].decision
      ELSE IF call.tool \in DestructiveTools THEN "require_approval"
      ELSE "unset"

\* Engine.Evaluate on the snapshot p its one atomic load returned.
EvaluatePolicy(p, call) ==
  LET matching == MatchingRules(p, call)
  IN  IF call.tool \notin PrintableTools
        THEN "deny"
      ELSE IF matching # {}
        THEN p.rules[CHOOSE i \in matching : IsFirst(i, matching)].decision
      ELSE IF call.tool \in DestructiveTools
        THEN "require_approval"
      ELSE p.default

-----------------------------------------------------------------------------
(* What an operator's config says of a call, read from the config as written. *)

Applies(r, call) ==
  /\ call.tool \in r.tool
  /\ r.targets = {} \/ call.target \in UNION r.targets

\* Rule i of cp outranks rule j: a literal tool pattern beats a glob, and of
\* two rules of the same kind the one written first wins.
Outranks(cp, i, j) ==
  \/ cp.rules[i].literal /\ ~cp.rules[j].literal
  \/ cp.rules[i].literal = cp.rules[j].literal /\ i <= j

Says(cp, call) ==
  LET applying == {i \in DOMAIN cp.rules : Applies(cp.rules[i], call)}
  IN  IF call.tool \notin PrintableTools THEN "deny"
      ELSE IF applying # {}
        THEN LET top == CHOOSE i \in applying :
                          \A j \in applying : Outranks(cp, i, j)
             IN  cp.rules[top].action
      ELSE IF call.tool \in DestructiveTools THEN "require_approval"
      ELSE cp.default
=============================================================================
