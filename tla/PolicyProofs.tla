---------------------------- MODULE PolicyProofs ----------------------------
(***************************************************************************)
(* What Evaluate returns, for every compiled policy and every call, and    *)
(* what Compile and its insertion sort keep of every rule list.            *)
(***************************************************************************)
EXTENDS Policy, FiniteSetTheorems, SequenceTheorems, TLAPS

\* Phase 2 of Evaluate is well defined: a set of rule positions that is not
\* empty has a first element.  The sets S \cap 1..i shrink strictly with i, so
\* a minimal one of them belongs to the first position.
LEMMA FirstExists ==
  ASSUME NEW n \in Nat, NEW S \in SUBSET (1..n), S # {}
  PROVE  \E i \in S : IsFirst(i, S)
<1> DEFINE Below(i) == S \cap (1..i)
           T == {Below(i) : i \in S}
<1>1. IsFiniteSet(1..n)
  BY FS_Interval
<1>2. T \subseteq FiniteSubsetsOf(1..n) /\ T # {}
  <2>1. FiniteSubsetsOf(1..n) = SUBSET (1..n)
    BY <1>1, FS_FiniteSubsetsOfFinite
  <2>2. T \subseteq SUBSET (1..n)
    OBVIOUS
  <2>3. PICK k \in S : TRUE
    OBVIOUS
  <2>4. Below(k) \in T
    OBVIOUS
  <2> QED  BY <2>1, <2>2, <2>4
<1>3. PICK m \in T : \A y \in T : ~(<<y, m>> \in StrictSubsetOrdering(1..n))
  BY <1>2, WFMin, FS_StrictSubsetOrderingWellFounded
<1>4. PICK i \in S : m = Below(i)
  OBVIOUS
<1>5. ASSUME NEW j \in S, ~(i <= j)  PROVE FALSE
  <2>1. Below(j) \subseteq Below(i) /\ i \notin Below(j) /\ i \in Below(i)
    BY <1>5
  <2>2. <<Below(j), m>> \in StrictSubsetOrdering(1..n)
    BY <2>1, <1>4 DEF StrictSubsetOrdering
  <2> QED  BY <2>2, <1>3
<1> QED  BY <1>5 DEF IsFirst

\* The rule that decides is a rule of the policy that matches the call.
LEMMA FirstMatch ==
  ASSUME NEW p \in CompiledPolicy, NEW call \in Calls,
         MatchingRules(p, call) # {}
  PROVE  LET i == CHOOSE i \in MatchingRules(p, call) :
                     IsFirst(i, MatchingRules(p, call))
         IN  /\ i \in DOMAIN p.rules
             /\ ruleMatches(p.rules[i], call)
             /\ \A j \in MatchingRules(p, call) : i <= j
             /\ p.rules[i] \in CompiledRule
<1> DEFINE M == MatchingRules(p, call)
           i == CHOOSE i \in M : IsFirst(i, M)
<1>1. PICK n \in Nat : DOMAIN p.rules = 1..n
  BY DEF CompiledPolicy
<1>m. M \in SUBSET (1..n)
  BY <1>1 DEF MatchingRules
<1>2. i \in M /\ IsFirst(i, M)
  BY <1>m, FirstExists
<1> QED  BY <1>1, <1>m, <1>2 DEF MatchingRules, IsFirst, CompiledPolicy

\* Evaluate always answers one of the three decisions, never "unset".
LEMMA EvaluateType ==
  ASSUME NEW p \in CompiledPolicy, NEW call \in Calls
  PROVE  EvaluatePolicy(p, call) \in Actions
<1>1. CASE MatchingRules(p, call) # {}
  <2>1. p.rules[CHOOSE i \in MatchingRules(p, call) :
                   IsFirst(i, MatchingRules(p, call))].decision \in Actions
    BY <1>1, FirstMatch DEF CompiledRule
  <2> QED  BY <1>1, <2>1 DEF EvaluatePolicy, Actions
<1>2. CASE MatchingRules(p, call) = {}
  BY <1>2 DEF EvaluatePolicy, Actions, CompiledPolicy
<1> QED  BY <1>1, <1>2

\* The destructive-verb gate, for every policy: whatever its default says, a
\* destructive tool is allowed only by an allow rule that matches the call.
THEOREM DestructiveNeedsAllowRule ==
  ASSUME NEW p \in CompiledPolicy, NEW call \in Calls,
         call.tool \in DestructiveTools, EvaluatePolicy(p, call) = "allow"
  PROVE  \E i \in DOMAIN p.rules :
            ruleMatches(p.rules[i], call) /\ p.rules[i].decision = "allow"
<1>1. MatchingRules(p, call) # {}
  BY DEF EvaluatePolicy
<1> DEFINE i == CHOOSE i \in MatchingRules(p, call) :
                   IsFirst(i, MatchingRules(p, call))
<1>2. p.rules[i].decision = "allow"
  BY <1>1 DEF EvaluatePolicy
<1>3. i \in DOMAIN p.rules /\ ruleMatches(p.rules[i], call)
  BY <1>1, FirstMatch
<1> QED  BY <1>2, <1>3

\* A tool name that is not printable ASCII is never forwarded, whatever the
\* policy says of it (phase 1 comes before the rules).
THEOREM UnprintableDenied ==
  ASSUME NEW p \in CompiledPolicy, NEW call \in Calls,
         call.tool \notin PrintableTools
  PROVE  EvaluatePolicy(p, call) = "deny"
BY DEF EvaluatePolicy

\* The policy of an engine that was given none lets nothing through.
THEOREM DenyByDefaultAllowsNothing ==
  ASSUME NEW call \in Calls
  PROVE  EvaluatePolicy(DenyByDefault, call) # "allow"
<1>1. MatchingRules(DenyByDefault, call) = {}
  BY DEF MatchingRules, DenyByDefault
<1> QED  BY <1>1 DEF EvaluatePolicy, DenyByDefault

-----------------------------------------------------------------------------
(* The sort *)

\* What holds of every position once it holds of all before it.
LEMMA UpTo ==
  ASSUME NEW n \in Nat, NEW V \in SUBSET (1..n),
         \A i \in 1..n : (\A j \in 1..n : j < i => j \in V) => i \in V
  PROVE  V = 1..n
<1> SUFFICES ASSUME (1..n) \ V # {} PROVE FALSE
  OBVIOUS
<1>1. PICK i \in (1..n) \ V : IsFirst(i, (1..n) \ V)
  BY FirstExists
<1>2. \A j \in 1..n : j < i => j \in V
  BY <1>1 DEF IsFirst
<1> QED  BY <1>1, <1>2

\* A set of positions that is not empty has a last one.
LEMMA LastExists ==
  ASSUME NEW n \in Nat, NEW V \in SUBSET (1..n), V # {}
  PROVE  Max(V) \in V /\ \A j \in V : Max(V) >= j
<1> DEFINE U == {n + 1 - i : i \in V}
<1>1. U \in SUBSET (1..n) /\ U # {}
  <2>1. \A i \in V : n + 1 - i \in 1..n
    OBVIOUS
  <2>2. PICK i \in V : TRUE
    OBVIOUS
  <2>3. n + 1 - i \in U
    OBVIOUS
  <2> QED  BY <2>1, <2>3
<1>2. PICK u \in U : IsFirst(u, U)
  BY <1>1, FirstExists
<1>3. PICK i \in V : u = n + 1 - i
  BY <1>2
<1>4. \A j \in V : i >= j
  <2> SUFFICES ASSUME NEW j \in V PROVE i >= j
    OBVIOUS
  <2>1. n + 1 - j \in U /\ i \in 1..n /\ j \in 1..n
    OBVIOUS
  <2>2. u <= n + 1 - j
    BY <1>2, <2>1 DEF IsFirst
  <2> QED  BY <1>3, <2>1, <2>2
<1> QED  BY <1>4 DEF Max

\* The outer loop as a sequence of prefixes, each inserted into the one before.
IsSortOf(g, rules, n) ==
  /\ g = [i \in 0..n |-> g[i]]
  /\ g[0] = <<>>
  /\ \A i \in 1..n : g[i] = InsertRule(g[i - 1], rules[i])

LEMMA SortExists ==
  ASSUME NEW rules, NEW n \in Nat
  PROVE  \E g : IsSortOf(g, rules, n)
<1> DEFINE V == {i \in 1..n : \E g : IsSortOf(g, rules, i)}
<1>0. IsSortOf([i \in 0..0 |-> <<>>], rules, 0)
  BY DEF IsSortOf
<1>1. ASSUME NEW i \in 1..n, \A j \in 1..n : j < i => j \in V PROVE i \in V
  <2>1. PICK g : IsSortOf(g, rules, i - 1)
    <3>1. CASE i = 1
      BY <1>0, <3>1
    <3>2. CASE i # 1
      <4>1. i - 1 \in V
        BY <1>1, <3>2
      <4> QED  BY <4>1
    <3> QED  BY <3>1, <3>2
  <2> DEFINE h == [k \in 0..i |-> IF k < i THEN g[k] ELSE InsertRule(g[i - 1], rules[i])]
  <2>2. IsSortOf(h, rules, i)
    <3>1. h = [k \in 0..i |-> h[k]] /\ h[0] = <<>>
      BY <2>1 DEF IsSortOf
    <3>2. ASSUME NEW k \in 1..i PROVE h[k] = InsertRule(h[k - 1], rules[k])
      <4>1. k - 1 \in 0..i /\ k - 1 < i /\ k \in 0..i
        OBVIOUS
      <4>2. h[k - 1] = g[k - 1]
        BY <4>1
      <4>3. CASE k = i
        BY <4>1, <4>2, <4>3
      <4>4. CASE k < i
        <5>1. k \in 1..(i - 1) /\ h[k] = g[k]
          BY <4>1, <4>4
        <5> QED  BY <2>1, <4>2, <5>1 DEF IsSortOf
      <4> QED  BY <4>3, <4>4
    <3> HIDE DEF h
    <3> QED  BY <3>1, <3>2 DEF IsSortOf
  <2> QED  BY <2>2
<1>2. V = 1..n
  <2> HIDE DEF V
  <2>1. V \in SUBSET (1..n)
    BY DEF V
  <2> QED  BY <1>1, <2>1, UpTo
<1> QED  BY <1>0, <1>2

\* sortBySpecificity is the last of them.
LEMMA SortIsLast ==
  ASSUME NEW rules, Len(rules) \in Nat
  PROVE  \E g : /\ IsSortOf(g, rules, Len(rules))
                /\ sortBySpecificity(rules) = g[Len(rules)]
<1> DEFINE n == Len(rules)
           sorted[i \in 0..n] == IF i = 0 THEN <<>> ELSE InsertRule(sorted[i - 1], rules[i])
<1>1. sortBySpecificity(rules) = sorted[n]
  BY DEF sortBySpecificity
<1>2. PICK g : IsSortOf(g, rules, n)
  BY SortExists
<1>3. g = [i \in 0..n |-> IF i = 0 THEN <<>> ELSE InsertRule(g[i - 1], rules[i])]
  <2>1. \A i \in 0..n : g[i] = IF i = 0 THEN <<>> ELSE InsertRule(g[i - 1], rules[i])
    <3> SUFFICES ASSUME NEW i \in 0..n
                 PROVE  g[i] = IF i = 0 THEN <<>> ELSE InsertRule(g[i - 1], rules[i])
      OBVIOUS
    <3>1. i = 0 \/ i \in 1..n
      OBVIOUS
    <3> QED  BY <1>2, <3>1 DEF IsSortOf
  <2>2. g = [i \in 0..n |-> g[i]]
    BY <1>2 DEF IsSortOf
  <2> HIDE DEF n
  <2> QED  BY <2>1, <2>2
<1>4. sorted = [i \in 0..n |-> IF i = 0 THEN <<>> ELSE InsertRule(sorted[i - 1], rules[i])]
  BY <1>3
<1>5. IsSortOf(sorted, rules, n)
  <2> HIDE DEF sorted
  <2>1. sorted = [i \in 0..n |-> sorted[i]]
    BY <1>4
  <2>2. sorted[0] = <<>>
    BY <1>4
  <2>3. \A i \in 1..n : sorted[i] = InsertRule(sorted[i - 1], rules[i])
    BY <1>4
  <2> QED  BY <2>1, <2>2, <2>3 DEF IsSortOf
<1> QED  BY <1>1, <1>5

\* Insertion at one position, element by element.
LEMMA InsertAtIs ==
  ASSUME NEW V, NEW s \in Seq(V), NEW e \in V, NEW m \in 0..Len(s)
  PROVE  /\ InsertAt(s, m + 1, e) \in Seq(V)
         /\ Len(InsertAt(s, m + 1, e)) = Len(s) + 1
         /\ \A i \in 1..(Len(s) + 1) : InsertAt(s, m + 1, e)[i] =
              IF i <= m THEN s[i] ELSE IF i = m + 1 THEN e ELSE s[i - 1]
<1> DEFINE a == SubSeq(s, 1, m)
           b == SubSeq(s, m + 1, Len(s))
           n == Len(s)
<1>0. /\ n \in Nat /\ m \in Nat /\ m <= n /\ (m + 1) - 1 = m
      /\ \A i \in 1..n : s[i] \in V
  OBVIOUS
<1>1. a \in Seq(V) /\ Len(a) = m /\ \A i \in 1..m : a[i] = s[i]
  <2> HIDE DEF n
  <2>1. \A i \in 1..m : s[i] \in V
    BY <1>0
  <2>2. /\ a \in Seq(V) /\ Len(a) = IF 1 <= m THEN m - 1 + 1 ELSE 0
        /\ \A i \in 1..(m - 1 + 1) : a[i] = s[1 + i - 1]
    BY <1>0, <2>1, SubSeqProperties
  <2> HIDE DEF a
  <2> QED  BY <1>0, <2>2
<1>2. b \in Seq(V) /\ Len(b) = n - m /\ \A i \in 1..(n - m) : b[i] = s[m + i]
  <2>1. b = SubSeq(s, m + 1, n)
    OBVIOUS
  <2> HIDE DEF n, b
  <2>2. \A i \in (m + 1)..n : s[i] \in V
    BY <1>0
  <2>3. /\ b \in Seq(V) /\ Len(b) = IF m + 1 <= n THEN n - (m + 1) + 1 ELSE 0
        /\ \A i \in 1..(n - (m + 1) + 1) : b[i] = s[(m + 1) + i - 1]
    BY <1>0, <2>1, <2>2, SubSeqProperties
  <2>4. \A i \in 1..(n - m) : i \in 1..(n - (m + 1) + 1) /\ (m + 1) + i - 1 = m + i
    BY <1>0
  <2> QED  BY <1>0, <2>3, <2>4
<1>3. InsertAt(s, m + 1, e) = (a \o <<e>>) \o b
  BY <1>0 DEF InsertAt
<1> DEFINE c == a \o <<e>>
           t == c \o b
<1> HIDE DEF a, b, n
<1>4. c \in Seq(V) /\ Len(c) = m + 1 /\ \A i \in 1..(m + 1) : c[i] = IF i <= m THEN a[i] ELSE e
  <2>1. <<e>> \in Seq(V) /\ Len(<<e>>) = 1 /\ <<e>>[1] = e
    OBVIOUS
  <2>2. /\ c \in Seq(V) /\ Len(c) = Len(a) + Len(<<e>>)
        /\ \A i \in 1..(Len(a) + Len(<<e>>)) : c[i] = IF i <= Len(a) THEN a[i] ELSE <<e>>[i - Len(a)]
    BY <1>1, <2>1, ConcatProperties
  <2> HIDE DEF c
  <2>3. \A i \in 1..(m + 1) : ~(i <= m) => i - m = 1
    BY <1>0
  <2> QED  BY <1>0, <1>1, <2>1, <2>2, <2>3
<1> HIDE DEF c
<1>5. /\ t \in Seq(V) /\ Len(t) = n + 1
      /\ \A i \in 1..(n + 1) : t[i] = IF i <= m + 1 THEN c[i] ELSE b[i - (m + 1)]
  <2>1. /\ t \in Seq(V) /\ Len(t) = Len(c) + Len(b)
        /\ \A i \in 1..(Len(c) + Len(b)) : t[i] = IF i <= Len(c) THEN c[i] ELSE b[i - Len(c)]
    BY <1>2, <1>4, ConcatProperties
  <2>2. Len(c) + Len(b) = n + 1 /\ Len(c) = m + 1
    BY <1>0, <1>2, <1>4
  <2> HIDE DEF t
  <2> QED  BY <2>1, <2>2
<1> HIDE DEF t
<1>6. ASSUME NEW i \in 1..(n + 1)
      PROVE  t[i] = IF i <= m THEN s[i] ELSE IF i = m + 1 THEN e ELSE s[i - 1]
  <2>1. CASE i <= m
    BY <1>0, <1>1, <1>4, <1>5, <2>1
  <2>2. CASE i = m + 1
    BY <1>0, <1>4, <1>5, <2>2
  <2>3. CASE i > m + 1
    <3>1. i - (m + 1) \in 1..(n - m) /\ m + (i - (m + 1)) = i - 1 /\ ~(i <= m + 1) /\ ~(i <= m)
      BY <1>0, <2>3
    <3>2. t[i] = b[i - (m + 1)]
      BY <1>5, <3>1
    <3>3. b[i - (m + 1)] = s[i - 1]
      BY <1>2, <3>1
    <3> QED  BY <1>0, <2>3, <3>1, <3>2, <3>3
  <2> QED  BY <1>0, <2>1, <2>2, <2>3
<1>7. InsertAt(s, m + 1, e) = t
  BY <1>3 DEF t, c
<1>8. n = Len(s)
  BY DEF n
<1> QED  BY <1>5, <1>6, <1>7, <1>8

\* Rule a stands before rule b in the sorted list: lower rank first, and rules
\* of one rank in the order they were written.
Before(rules, a, b) ==
  \/ rules[a].specificity < rules[b].specificity
  \/ rules[a].specificity = rules[b].specificity /\ a < b

\* s holds the first n rules, each once, rule p[i] at position i.
Arranges(p, s, rules, n) ==
  /\ s \in Seq(CompiledRule) /\ Len(s) = n
  /\ p \in [1..n -> 1..n] /\ \A k \in 1..n : \E i \in 1..n : p[i] = k
  /\ \A i \in 1..n : s[i] = rules[p[i]]
  /\ \A i, j \in 1..n : i < j => Before(rules, p[i], p[j])

\* InsertRule puts a rule behind all those it does not outrank.
LEMMA InsertRuleAt ==
  ASSUME NEW s \in Seq(CompiledRule), NEW r \in CompiledRule,
         \A i, j \in 1..Len(s) : i < j => s[i].specificity <= s[j].specificity
  PROVE  \E m \in 0..Len(s) :
           /\ InsertRule(s, r) = InsertAt(s, m + 1, r)
           /\ \A i \in 1..Len(s) : i <= m <=> s[i].specificity <= r.specificity
<1> DEFINE stay == {i \in DOMAIN s : s[i].specificity <= r.specificity}
           m == IF stay = {} THEN 0 ELSE Max(stay)
<1>1. /\ Len(s) \in Nat /\ DOMAIN s = 1..Len(s) /\ r.specificity \in Int
      /\ \A i \in 1..Len(s) : s[i].specificity \in Int
  <2>1. \A q \in CompiledRule : q.specificity \in Int
    BY DEF CompiledRule
  <2> QED  BY <2>1
<1>2. stay \in SUBSET (1..Len(s))
  BY <1>1
<1>3. stay # {} => Max(stay) \in stay /\ \A j \in stay : Max(stay) >= j
  <2> HIDE DEF stay
  <2> QED  BY <1>1, <1>2, LastExists
<1>4. InsertRule(s, r) = InsertAt(s, IF stay = {} THEN 1 ELSE 1 + Max(stay), r)
  BY DEF InsertRule
<1>5. m \in 0..Len(s) /\ (IF stay = {} THEN 1 ELSE 1 + Max(stay)) = m + 1
  <2>1. CASE stay = {}
    BY <1>1, <2>1
  <2>2. CASE stay # {}
    <3>1. Max(stay) \in 1..Len(s)
      BY <1>2, <1>3, <2>2
    <3> HIDE DEF stay
    <3> QED  BY <1>1, <2>2, <3>1
  <2> QED  BY <2>1, <2>2
<1>6. ASSUME NEW i \in 1..Len(s)
      PROVE  i <= m <=> s[i].specificity <= r.specificity
  <2>1. CASE s[i].specificity <= r.specificity
    <3>1. i \in stay
      BY <1>1, <2>1
    <3>2. i <= Max(stay) /\ m = Max(stay)
      <4>1. stay # {} /\ Max(stay) \in stay /\ Max(stay) >= i
        BY <1>3, <3>1
      <4>2. Max(stay) \in Int /\ i \in Int
        BY <1>2, <4>1
      <4> HIDE DEF stay
      <4> QED  BY <4>1, <4>2
    <3> QED  BY <2>1, <3>2
  <2>2. CASE ~(s[i].specificity <= r.specificity)
    <3>1. CASE stay = {}
      BY <1>1, <2>2, <3>1
    <3>2. CASE stay # {}
      <4>1. Max(stay) \in 1..Len(s) /\ s[Max(stay)].specificity <= r.specificity /\ m = Max(stay)
        BY <1>1, <1>3, <3>2
      <4> HIDE DEF stay, m
      <4>2. ~(i <= m)
        <5> SUFFICES ASSUME i <= m PROVE FALSE
          OBVIOUS
        <5>1. i = m \/ i < m
          BY <1>1, <4>1
        <5>2. s[i].specificity <= s[m].specificity
          BY <1>1, <4>1, <5>1
        <5> QED  BY <1>1, <2>2, <4>1, <5>2
      <4> QED  BY <2>2, <4>2
    <3> QED  BY <3>1, <3>2
  <2> QED  BY <2>1, <2>2
<1> HIDE DEF m, stay
<1> QED  BY <1>4, <1>5, <1>6

\* One turn of the outer loop keeps the arrangement.
LEMMA InsertStep ==
  ASSUME NEW rules \in Seq(CompiledRule), NEW n \in 1..Len(rules), NEW s, NEW p,
         Arranges(p, s, rules, n - 1)
  PROVE  \E q : Arranges(q, InsertRule(s, rules[n]), rules, n)
<1> DEFINE r == rules[n]
<1>1. /\ n - 1 \in Nat /\ Len(s) = n - 1 /\ s \in Seq(CompiledRule)
      /\ r \in CompiledRule /\ n \in Nat /\ Len(rules) \in Nat
  BY DEF Arranges
<1>2. \A i \in 1..(n - 1) : /\ p[i] \in 1..(n - 1) /\ s[i] = rules[p[i]]
                            /\ p[i] \in 1..n /\ p[i] < n /\ p[i] \in Nat
  <2> SUFFICES ASSUME NEW i \in 1..(n - 1)
               PROVE  /\ p[i] \in 1..(n - 1) /\ s[i] = rules[p[i]]
                      /\ p[i] \in 1..n /\ p[i] < n /\ p[i] \in Nat
    OBVIOUS
  <2>1. p \in [1..(n - 1) -> 1..(n - 1)] /\ s[i] = rules[p[i]]
    BY DEF Arranges
  <2>2. p[i] \in 1..(n - 1)
    BY <2>1
  <2>3. \A k \in 1..(n - 1) : k \in 1..n /\ k < n /\ k \in Nat
    BY <1>1
  <2> QED  BY <2>1, <2>2, <2>3
<1>3. \A i \in 1..n : rules[i] \in CompiledRule /\ rules[i].specificity \in {0, 1}
  <2>1. \A i \in 1..n : rules[i] \in CompiledRule
    BY <1>1
  <2> QED  BY <2>1 DEF CompiledRule
<1>4. \A i, j \in 1..(n - 1) : i < j => s[i].specificity <= s[j].specificity
  <2> SUFFICES ASSUME NEW i \in 1..(n - 1), NEW j \in 1..(n - 1), i < j
               PROVE  s[i].specificity <= s[j].specificity
    OBVIOUS
  <2>1. Before(rules, p[i], p[j])
    BY DEF Arranges
  <2>2. rules[p[i]].specificity \in {0, 1} /\ rules[p[j]].specificity \in {0, 1}
    BY <1>2, <1>3
  <2> QED  BY <1>2, <2>1, <2>2 DEF Before
<1>5. PICK m \in 0..(n - 1) :
        /\ InsertRule(s, r) = InsertAt(s, m + 1, r)
        /\ \A i \in 1..(n - 1) : i <= m <=> s[i].specificity <= r.specificity
  <2> HIDE DEF r
  <2> QED  BY <1>1, <1>4, InsertRuleAt
<1> DEFINE t == InsertRule(s, r)
           q == [i \in 1..n |-> IF i <= m THEN p[i] ELSE IF i = m + 1 THEN n ELSE p[i - 1]]
<1>6. /\ t \in Seq(CompiledRule) /\ Len(t) = n
      /\ \A i \in 1..n : t[i] = IF i <= m THEN s[i] ELSE IF i = m + 1 THEN r ELSE s[i - 1]
  <2>1. m \in 0..Len(s) /\ Len(s) + 1 = n /\ t = InsertAt(s, m + 1, r)
    BY <1>1, <1>5
  <2> HIDE DEF r, t
  <2>2. /\ InsertAt(s, m + 1, r) \in Seq(CompiledRule)
        /\ Len(InsertAt(s, m + 1, r)) = Len(s) + 1
        /\ \A i \in 1..(Len(s) + 1) : InsertAt(s, m + 1, r)[i] =
              IF i <= m THEN s[i] ELSE IF i = m + 1 THEN r ELSE s[i - 1]
    <3>1. s \in Seq(CompiledRule) /\ r \in CompiledRule /\ m \in 0..Len(s)
      BY <1>1, <2>1
    <3> HIDE DEF q
    <3> QED  BY <3>1, InsertAtIs, SMT
  <2> QED  BY <2>1, <2>2
<1>7. \A i \in 1..n : /\ i <= m => i \in 1..(n - 1)
                      /\ i > m + 1 => i - 1 \in 1..(n - 1) /\ ~(i - 1 <= m)
                      /\ i <= m \/ i = m + 1 \/ i > m + 1
                      /\ i <= m => ~(i = m + 1) /\ ~(i > m + 1)
                      /\ i = m + 1 => ~(i <= m) /\ ~(i > m + 1)
                      /\ i > m + 1 => ~(i <= m) /\ ~(i = m + 1)
  BY <1>1
<1>8. /\ \A i \in 1..n : i <= m => q[i] = p[i]
      /\ \A i \in 1..n : i = m + 1 => q[i] = n
      /\ \A i \in 1..n : i > m + 1 => q[i] = p[i - 1]
  BY <1>7
<1> HIDE DEF q, r, t
<1>9. q \in [1..n -> 1..n] /\ \A k \in 1..n : \E i \in 1..n : q[i] = k
  <2>1. \A i \in 1..n : q[i] \in 1..n
    <3> SUFFICES ASSUME NEW i \in 1..n PROVE q[i] \in 1..n
      OBVIOUS
    <3>1. CASE i <= m
      BY <1>2, <1>7, <1>8, <3>1
    <3>2. CASE i = m + 1
      <4>1. q[i] = n /\ n \in 1..n
        BY <1>1, <1>8, <3>2
      <4> QED  BY <4>1
    <3>3. CASE i > m + 1
      BY <1>2, <1>7, <1>8, <3>3
    <3> QED  BY <1>7, <3>1, <3>2, <3>3
  <2>2. q = [i \in 1..n |-> q[i]]
    BY DEF q
  <2>3. ASSUME NEW k \in 1..n PROVE \E i \in 1..n : q[i] = k
    <3>1. CASE k = n
      <4>1. m + 1 \in 1..n
        BY <1>1
      <4> QED  BY <1>8, <3>1, <4>1
    <3>2. CASE k # n
      <4>1. PICK i \in 1..(n - 1) : p[i] = k
        BY <1>1, <3>2 DEF Arranges
      <4>2. CASE i <= m
        <5>1. i \in 1..n
          BY <1>1
        <5> QED  BY <1>8, <4>1, <4>2, <5>1
      <4>3. CASE ~(i <= m)
        <5>1. i + 1 \in 1..n /\ i + 1 > m + 1 /\ (i + 1) - 1 = i
          BY <1>1, <4>3
        <5> QED  BY <1>8, <4>1, <5>1
      <4> QED  BY <4>2, <4>3
    <3> QED  BY <3>1, <3>2
  <2> QED  BY <2>1, <2>2, <2>3
<1>10. \A i \in 1..n : t[i] = rules[q[i]]
  <2> SUFFICES ASSUME NEW i \in 1..n PROVE t[i] = rules[q[i]]
    OBVIOUS
  <2>1. CASE i <= m
    BY <1>2, <1>6, <1>7, <1>8, <2>1
  <2>2. CASE i = m + 1
    <3>1. t[i] = r /\ q[i] = n
      BY <1>6, <1>7, <1>8, <2>2
    <3> QED  BY <3>1 DEF r
  <2>3. CASE i > m + 1
    <3>1. i - 1 \in 1..(n - 1) /\ q[i] = p[i - 1] /\ t[i] = s[i - 1]
      BY <1>6, <1>7, <1>8, <2>3
    <3> QED  BY <1>2, <3>1
  <2> QED  BY <1>7, <2>1, <2>2, <2>3
<1>11. ASSUME NEW i \in 1..n, NEW j \in 1..n, i < j
       PROVE  Before(rules, q[i], q[j])
  <2>0. \A a, b \in 1..(n - 1) : a < b => Before(rules, p[a], p[b])
    BY DEF Arranges
  <2>1. CASE j <= m
    <3>1. i <= m /\ i \in 1..(n - 1) /\ j \in 1..(n - 1)
      BY <1>1, <1>11, <2>1
    <3> QED  BY <1>8, <1>11, <2>0, <2>1, <3>1
  <2>2. CASE j = m + 1
    <3>1. i <= m /\ i \in 1..(n - 1)
      BY <1>1, <1>11, <2>2
    <3>2. rules[p[i]].specificity <= rules[n].specificity /\ p[i] < n
      BY <1>2, <1>5, <3>1 DEF r
    <3>3. rules[p[i]].specificity \in {0, 1} /\ rules[n].specificity \in {0, 1}
      BY <1>1, <1>2, <1>3, <3>1
    <3>4. q[i] = p[i] /\ q[j] = n
      BY <1>8, <2>2, <3>1
    <3> QED  BY <3>2, <3>3, <3>4 DEF Before
  <2>3. CASE j > m + 1
    <3>1. j - 1 \in 1..(n - 1) /\ ~(j - 1 <= m) /\ q[j] = p[j - 1]
      BY <1>7, <1>8, <2>3
    <3>2. CASE i <= m
      <4>1. i \in 1..(n - 1) /\ i < j - 1
        BY <1>1, <2>3, <3>2
      <4> QED  BY <1>8, <2>0, <3>1, <3>2, <4>1
    <3>3. CASE i = m + 1
      <4>1. ~(rules[p[j - 1]].specificity <= rules[n].specificity)
        BY <1>2, <1>5, <3>1 DEF r
      <4>2. rules[p[j - 1]].specificity \in {0, 1} /\ rules[n].specificity \in {0, 1}
        BY <1>1, <1>2, <1>3, <3>1
      <4>3. q[i] = n
        BY <1>8, <3>3
      <4> QED  BY <3>1, <4>1, <4>2, <4>3 DEF Before
    <3>4. CASE i > m + 1
      <4>1. i - 1 \in 1..(n - 1) /\ i - 1 < j - 1 /\ q[i] = p[i - 1]
        BY <1>1, <1>7, <1>8, <1>11, <3>4
      <4> QED  BY <2>0, <3>1, <4>1
    <3> QED  BY <1>7, <3>2, <3>3, <3>4
  <2> QED  BY <1>7, <2>1, <2>2, <2>3
<1> QED  BY <1>6, <1>9, <1>10, <1>11 DEF Arranges, t, r

\* sortBySpecificity keeps every rule, once, exact tools first and the written
\* order within each rank: a stable sort, for rule lists of every length.
THEOREM SortIsStable ==
  ASSUME NEW rules \in Seq(CompiledRule)
  PROVE  \E p : Arranges(p, sortBySpecificity(rules), rules, Len(rules))
<1>1. PICK g : /\ IsSortOf(g, rules, Len(rules))
               /\ sortBySpecificity(rules) = g[Len(rules)]
  <2>1. Len(rules) \in Nat
    OBVIOUS
  <2> QED  BY <2>1, SortIsLast
<1> DEFINE n == Len(rules)
           V == {i \in 1..n : \E p : Arranges(p, g[i], rules, i)}
<1>2. \E p : Arranges(p, g[0], rules, 0)
  <2>1. Arranges(<<>>, g[0], rules, 0)
    <3>1. g[0] = <<>> /\ 1..0 = {}
      BY <1>1 DEF IsSortOf
    <3>2. <<>> \in Seq(CompiledRule) /\ Len(<<>>) = 0
      OBVIOUS
    <3>3. <<>> \in [1..0 -> 1..0]
      BY <3>1
    <3> QED  BY <3>1, <3>2, <3>3 DEF Arranges
  <2> QED  BY <2>1
<1>3. ASSUME NEW i \in 1..n, \A j \in 1..n : j < i => j \in V PROVE i \in V
  <2>1. PICK p : Arranges(p, g[i - 1], rules, i - 1)
    <3>1. CASE i = 1
      BY <1>2, <3>1
    <3>2. CASE i # 1
      <4>1. i - 1 \in V
        BY <1>3, <3>2
      <4> QED  BY <4>1
    <3> QED  BY <3>1, <3>2
  <2>2. g[i] = InsertRule(g[i - 1], rules[i])
    BY <1>1 DEF IsSortOf
  <2>3. \E q : Arranges(q, g[i], rules, i)
    BY <2>1, <2>2, InsertStep
  <2> QED  BY <2>3
<1>4. V = 1..n
  <2> HIDE DEF V
  <2>1. V \in SUBSET (1..n) /\ n \in Nat
    BY DEF V
  <2> HIDE DEF n
  <2> QED  BY <1>3, <2>1, UpTo
<1>5. CASE n = 0
  BY <1>1, <1>2, <1>5
<1>6. CASE n # 0
  <2>1. n \in V
    BY <1>4, <1>6
  <2> QED  BY <1>1, <2>1
<1> QED  BY <1>5, <1>6

-----------------------------------------------------------------------------
(* Compile *)

\* The fields of a rule that Compile reads are patterns and a flag.
Written(cp) ==
  /\ Len(cp.rules) \in Nat /\ DOMAIN cp.rules = 1..Len(cp.rules)
  /\ \A i \in DOMAIN cp.rules :
       /\ cp.rules[i].literal \in BOOLEAN
       /\ cp.rules[i].tool \in SUBSET Tools
       /\ cp.rules[i].targets \in SUBSET SUBSET Targets

CompiledRules(cp) == [i \in DOMAIN cp.rules |-> compileRule(cp.rules[i])]

\* Each rule is compiled on its own, in place.
LEMMA RulesCompiled ==
  ASSUME NEW cp, Written(cp), ~CompileFails(cp)
  PROVE  /\ CompiledRules(cp) \in Seq(CompiledRule)
         /\ Len(CompiledRules(cp)) = Len(cp.rules)
         /\ \A i \in 1..Len(cp.rules) :
              /\ CompiledRules(cp)[i] = compileRule(cp.rules[i])
              /\ cp.rules[i].action \in Actions
              /\ compileRule(cp.rules[i]).decision = cp.rules[i].action
<1> DEFINE n == Len(cp.rules)
<1>1. n \in Nat /\ DOMAIN cp.rules = 1..n
  BY DEF Written
<1>2. ASSUME NEW i \in 1..n
      PROVE  /\ compileRule(cp.rules[i]) \in CompiledRule
             /\ cp.rules[i].action \in Actions
             /\ compileRule(cp.rules[i]).decision = cp.rules[i].action
  <2>1. cp.rules[i].action \in Actions
    BY <1>1 DEF CompileFails, RuleRejected, ParseDecision, Actions
  <2>2. ParseDecision(cp.rules[i].action) = cp.rules[i].action
    BY <2>1 DEF ParseDecision
  <2>3. /\ cp.rules[i].tool \in SUBSET Tools
        /\ cp.rules[i].targets \in SUBSET SUBSET Targets
    BY <1>1 DEF Written
  <2> QED
    BY <2>1, <2>2, <2>3
    DEF compileRule, CompiledRule, exactToolSpecificity, globToolSpecificity
<1> DEFINE c == CompiledRules(cp)
<1>3. c = [i \in 1..n |-> compileRule(cp.rules[i])]
  BY <1>1 DEF CompiledRules
<1> HIDE DEF c, n
<1>4. c \in Seq(CompiledRule) /\ Len(c) = n /\ \A i \in 1..n : c[i] = compileRule(cp.rules[i])
  <2>1. c \in [1..n -> CompiledRule]
    BY <1>2, <1>3
  <2> QED  BY <1>1, <1>3, <2>1
<1> QED  BY <1>2, <1>4 DEF c, n

\* What Compile stores is a policy: parsed decisions and every rule kept.
LEMMA CompileType ==
  ASSUME NEW cp, Written(cp), ~CompileFails(cp)
  PROVE  Compile(cp) \in CompiledPolicy
<1>1. sortBySpecificity(CompiledRules(cp)) \in Seq(CompiledRule)
  <2>1. PICK p : Arranges(p, sortBySpecificity(CompiledRules(cp)), CompiledRules(cp),
                          Len(CompiledRules(cp)))
    BY RulesCompiled, SortIsStable
  <2> QED  BY <2>1 DEF Arranges
<1>2. ParseDecision(cp.default) \in Actions
  BY DEF CompileFails, ParseDecision, Actions
<1>3. Compile(cp) = [version |-> 0, default |-> ParseDecision(cp.default),
                     rules |-> sortBySpecificity(CompiledRules(cp))]
  BY DEF Compile, CompiledRules
<1> QED  BY <1>1, <1>2, <1>3 DEF CompiledPolicy

-----------------------------------------------------------------------------
(* What a compiled config answers *)

\* A compiled rule matches the calls its source applies to: the empty target
\* is in no pattern.
LEMMA MatchesWhenApplies ==
  ASSUME NEW r, r.targets \in SUBSET SUBSET Targets, NEW call \in Calls
  PROVE  ruleMatches(compileRule(r), call) <=> Applies(r, call)
<1>1. compileRule(r).tool = r.tool /\ compileRule(r).targets = r.targets
  BY DEF compileRule
<1>2. (\E g \in r.targets : call.target \in g) => call.target # NoTarget
  BY PolicyAssumption DEF PolicyAssumption
<1> QED  BY <1>1, <1>2 DEF ruleMatches, Applies

\* Compiled, sorted and matched in rank order, the rules say what the config
\* says: the highest rule that applies decides, for every config and call.
THEOREM EvaluateAsPromised ==
  ASSUME NEW cp, Written(cp), ~CompileFails(cp), NEW call \in Calls
  PROVE  EvaluatePolicy(Compile(cp), call) = Says(cp, call)
<1> DEFINE n == Len(cp.rules)
           c == CompiledRules(cp)
           t == sortBySpecificity(c)
           matching == MatchingRules(Compile(cp), call)
           applying == {i \in DOMAIN cp.rules : Applies(cp.rules[i], call)}
<1>1. /\ n \in Nat /\ DOMAIN cp.rules = 1..n
      /\ \A i \in 1..n : /\ cp.rules[i].literal \in BOOLEAN
                         /\ cp.rules[i].targets \in SUBSET SUBSET Targets
  BY DEF Written
<1>2. /\ c \in Seq(CompiledRule) /\ Len(c) = n
      /\ \A i \in 1..n : /\ c[i] = compileRule(cp.rules[i])
                         /\ cp.rules[i].action \in Actions
                         /\ compileRule(cp.rules[i]).decision = cp.rules[i].action
  BY RulesCompiled
<1>3. Compile(cp).rules = t /\ Compile(cp).default = cp.default
  <2>1. ParseDecision(cp.default) = cp.default
    BY DEF CompileFails, ParseDecision, Actions
  <2> QED  BY <2>1 DEF Compile, CompiledRules
<1> HIDE DEF c
<1>4. PICK p : Arranges(p, t, c, n)
  BY <1>2, SortIsStable
<1> HIDE DEF t, n
<1>5. /\ Len(t) = n /\ DOMAIN t = 1..n
      /\ \A i \in 1..n : p[i] \in 1..n /\ t[i] = compileRule(cp.rules[p[i]])
  <2>1. Len(t) = n /\ t \in Seq(CompiledRule) /\ p \in [1..n -> 1..n]
        /\ \A i \in 1..n : t[i] = c[p[i]]
    BY <1>4 DEF Arranges
  <2>2. DOMAIN t = 1..n
    BY <2>1
  <2> QED  BY <1>2, <2>1, <2>2
<1>6. matching = {i \in 1..n : Applies(cp.rules[p[i]], call)}
  <2>1. matching = {i \in 1..n : ruleMatches(t[i], call)}
    BY <1>3, <1>5 DEF MatchingRules
  <2>2. \A i \in 1..n : ruleMatches(t[i], call) <=> Applies(cp.rules[p[i]], call)
    BY <1>1, <1>5, MatchesWhenApplies
  <2> QED  BY <2>1, <2>2
<1>7. matching = {} <=> applying = {}
  <2>1. ASSUME NEW k \in applying PROVE matching # {}
    <3>1. k \in 1..n /\ Applies(cp.rules[k], call)
      BY <1>1
    <3>2. PICK i \in 1..n : p[i] = k
      BY <1>4, <3>1 DEF Arranges
    <3> QED  BY <1>6, <3>1, <3>2
  <2>2. ASSUME NEW i \in matching PROVE applying # {}
    <3> HIDE DEF matching
    <3>1. p[i] \in applying
      BY <1>1, <1>5, <1>6
    <3> QED  BY <3>1
  <2> QED  BY <2>1, <2>2
<1>8. ASSUME matching # {}
      PROVE  t[CHOOSE i \in matching : IsFirst(i, matching)].decision
               = cp.rules[CHOOSE i \in applying :
                            \A j \in applying : Outranks(cp, i, j)].action
  <2> DEFINE first == CHOOSE i \in matching : IsFirst(i, matching)
             top == CHOOSE i \in applying : \A j \in applying : Outranks(cp, i, j)
  <2>0. applying = {k \in 1..n : Applies(cp.rules[k], call)}
    BY <1>1
  <2> HIDE DEF matching, applying
  <2>1. first \in matching /\ IsFirst(first, matching)
    <3>1. matching \in SUBSET (1..n)
      BY <1>6
    <3>2. \E i \in matching : IsFirst(i, matching)
      BY <1>1, <1>8, <3>1, FirstExists
    <3> QED  BY <3>2
  <2> HIDE DEF first
  <2>2. first \in 1..n /\ p[first] \in applying
    BY <1>5, <1>6, <2>0, <2>1
  <2>3. ASSUME NEW k \in applying PROVE Outranks(cp, p[first], k)
    <3>1. PICK i \in 1..n : p[i] = k
      BY <1>4, <2>0 DEF Arranges
    <3>2. i \in matching /\ first <= i
      BY <1>6, <2>0, <2>1, <3>1 DEF IsFirst
    <3>3. CASE first = i
      BY <1>5, <2>2, <3>1, <3>3 DEF Outranks
    <3>4. CASE first # i
      <4>1. Before(c, p[first], k)
        <5>1. first < i
          BY <2>2, <3>2, <3>4
        <5> QED  BY <1>4, <2>2, <3>1, <5>1 DEF Arranges
      <4>2. \A j \in 1..n : c[j].specificity = IF cp.rules[j].literal THEN 0 ELSE 1
        BY <1>2 DEF compileRule, exactToolSpecificity, globToolSpecificity
      <4>3. /\ k \in 1..n /\ p[first] \in 1..n
            /\ cp.rules[k].literal \in BOOLEAN /\ cp.rules[p[first]].literal \in BOOLEAN
        BY <1>1, <1>5, <2>0, <2>2
      <4> QED  BY <4>1, <4>2, <4>3 DEF Before, Outranks
    <3> QED  BY <3>3, <3>4
  <2>4. top \in applying /\ \A j \in applying : Outranks(cp, top, j)
    BY <2>2, <2>3
  <2> HIDE DEF top
  <2>5. top = p[first]
    <3>1. Outranks(cp, top, p[first]) /\ Outranks(cp, p[first], top)
      BY <2>2, <2>3, <2>4
    <3>2. top \in 1..n /\ p[first] \in 1..n
      BY <2>0, <2>2, <2>4
    <3> QED  BY <1>1, <3>1, <3>2 DEF Outranks
  <2>6. t[first].decision = cp.rules[p[first]].action
    BY <1>2, <1>5, <2>2
  <2> QED  BY <2>5, <2>6 DEF first, top
<1> HIDE DEF matching, applying
<1>9. EvaluatePolicy(Compile(cp), call) =
        IF call.tool \notin PrintableTools THEN "deny"
        ELSE IF matching # {}
          THEN t[CHOOSE i \in matching : IsFirst(i, matching)].decision
        ELSE IF call.tool \in DestructiveTools THEN "require_approval" ELSE cp.default
  BY <1>3 DEF EvaluatePolicy, matching
<1>10. Says(cp, call) =
        IF call.tool \notin PrintableTools THEN "deny"
        ELSE IF applying # {}
          THEN cp.rules[CHOOSE i \in applying :
                          \A j \in applying : Outranks(cp, i, j)].action
        ELSE IF call.tool \in DestructiveTools THEN "require_approval" ELSE cp.default
  BY DEF Says, applying
<1> QED  BY <1>7, <1>8, <1>9, <1>10
=============================================================================
