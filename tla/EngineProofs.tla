---------------------------- MODULE EngineProofs ----------------------------
(***************************************************************************)
(* Evaluate answers what the operator's config says of a call, and answers *)
(* one config in force, for every set of configs and any number of callers *)
(* and updates.                                                            *)
(***************************************************************************)
EXTENDS NamedEngine, PolicyProofs

-----------------------------------------------------------------------------
(* What the engine holds *)

\* With no config the engine holds DenyByDefault, which says what Promised says.
LEMMA NoneAsPromised ==
  ASSUME NEW call \in Calls
  PROVE  EvaluatePolicy(DenyByDefault, call) = Promised(NoConfig, call)
<1>1. MatchingRules(DenyByDefault, call) = {}
  BY DEF MatchingRules, DenyByDefault
<1> QED  BY <1>1 DEF EvaluatePolicy, DenyByDefault, Promised

\* The two together, for every pointer Update may store.
LEMMA StoredAsPromised ==
  ASSUME NEW cp \in Stores
  PROVE  /\ Stored(cp) \in CompiledPolicy
         /\ \A call \in Calls : EvaluatePolicy(Stored(cp), call) = Promised(cp, call)
<1>1. CASE cp = NoConfig
  <2>1. DenyByDefault \in CompiledPolicy
    BY DEF DenyByDefault, CompiledPolicy, Actions
  <2> QED  BY <1>1, <2>1, NoneAsPromised DEF Stored
<1>2. CASE cp # NoConfig
  <2>1. cp \in [default: STRING, rules: Seq(ConfigRules)] /\ ~CompileFails(cp)
    BY <1>2, EngineAssumption DEF EngineAssumption, Stores, Compilable
  <2>2. Written(cp)
    <3>1. cp.rules \in Seq(ConfigRules)
      BY <2>1
    <3>2. Len(cp.rules) \in Nat /\ DOMAIN cp.rules = 1..Len(cp.rules)
          /\ \A i \in DOMAIN cp.rules : cp.rules[i] \in ConfigRules
      BY <3>1
    <3> QED  BY <3>2 DEF Written, ConfigRules
  <2> QED  BY <1>2, <2>1, <2>2, CompileType, EvaluateAsPromised DEF Stored, Promised
<1> QED  BY <1>1, <1>2

-----------------------------------------------------------------------------
(* The engine *)

LEMMA InitInvariant == Init => IInv
<1> SUFFICES ASSUME Init PROVE IInv
  OBVIOUS
<1>1. inForce \in Stores /\ current = Stored(inForce) /\ updates = 0
      /\ eval = [c \in Callers |-> Idle]
  BY DEF Init, Stores
<1>2. current \in CompiledPolicy
  BY <1>1, StoredAsPromised
<1>3. eval \in [Callers -> Evaluations] /\ \A c \in Callers : eval[c].pc = "idle"
  BY <1>1 DEF Idle, Evaluations
<1>4. updates \in 0..MaxUpdates
  BY <1>1, EngineAssumption DEF EngineAssumption
<1> QED  BY <1>1, <1>2, <1>3, <1>4 DEF IInv, TypeOK, SnapshotsInForce

\* The fields an evaluation has at each point.
LEMMA AtPoint ==
  ASSUME TypeOK, NEW c \in Callers
  PROVE  /\ eval[c] \in Evaluations
         /\ eval[c].pc = "load" =>
              eval[c] \in [pc: {"load"}, call: Calls, window: SUBSET Stores]
         /\ eval[c].pc = "match" =>
              eval[c] \in [pc: {"match"}, call: Calls, window: SUBSET Stores,
                           snapshot: CompiledPolicy]
         /\ eval[c].pc = "done" =>
              eval[c] \in [pc: {"done"}, call: Calls, window: SUBSET Stores,
                           decision: Actions]
         /\ eval[c].pc = "idle" => eval[c] \in [pc: {"idle"}]
         /\ eval[c].pc \in {"idle", "load", "match", "done"}
BY DEF TypeOK, Evaluations

\* Update opens the window of every call under way to the config it stores.
LEMMA UpdateHolds ==
  ASSUME IInv, NEW cp \in Stores, Update(cp)
  PROVE  IInv'
<1>1. /\ inForce' = cp /\ current' = Stored(cp) /\ updates' = updates + 1
      /\ updates < MaxUpdates /\ updates \in 0..MaxUpdates
      /\ eval \in [Callers -> Evaluations]
  BY DEF IInv, TypeOK, Update
<1>2. current' \in CompiledPolicy
  BY <1>1, StoredAsPromised
<1>3. updates' \in 0..MaxUpdates
  BY <1>1, EngineAssumption DEF EngineAssumption
<1>4. eval' = [c \in Callers |-> IF eval[c].pc = "idle" THEN eval[c]
                                 ELSE [eval[c] EXCEPT !.window = @ \cup {cp}]]
  BY DEF Update
<1>5. ASSUME NEW c \in Callers
      PROVE  /\ eval'[c] \in Evaluations
             /\ eval'[c].pc = "load" => cp \in eval'[c].window
             /\ eval'[c].pc = "match" => \E d \in eval'[c].window : eval'[c].snapshot = Stored(d)
  <2>0. eval'[c] = IF eval[c].pc = "idle" THEN eval[c]
                   ELSE [eval[c] EXCEPT !.window = @ \cup {cp}]
    BY <1>4
  <2>1. CASE eval[c].pc = "idle"
    BY <1>1, <2>0, <2>1
  <2>2. CASE eval[c].pc = "load"
    <3>1. eval[c] \in [pc: {"load"}, call: Calls, window: SUBSET Stores]
      BY <2>2, AtPoint DEF IInv
    <3>2. eval'[c] = [eval[c] EXCEPT !.window = @ \cup {cp}]
      BY <2>0, <2>2
    <3>3. eval'[c] \in [pc: {"load"}, call: Calls, window: SUBSET Stores]
          /\ cp \in eval'[c].window
      BY <3>1, <3>2
    <3> QED  BY <3>3 DEF Evaluations
  <2>3. CASE eval[c].pc = "match"
    <3>1. eval[c] \in [pc: {"match"}, call: Calls, window: SUBSET Stores, snapshot: CompiledPolicy]
      BY <2>3, AtPoint DEF IInv
    <3>2. eval'[c] = [eval[c] EXCEPT !.window = @ \cup {cp}]
      BY <2>0, <2>3
    <3>3. /\ eval'[c] \in [pc: {"match"}, call: Calls, window: SUBSET Stores,
                           snapshot: CompiledPolicy]
          /\ eval'[c].snapshot = eval[c].snapshot /\ eval[c].window \subseteq eval'[c].window
      BY <3>1, <3>2
    <3>4. \E d \in eval[c].window : eval[c].snapshot = Stored(d)
      BY <2>3 DEF IInv, SnapshotsInForce
    <3> QED  BY <3>3, <3>4 DEF Evaluations
  <2>4. CASE eval[c].pc = "done"
    <3>1. eval[c] \in [pc: {"done"}, call: Calls, window: SUBSET Stores, decision: Actions]
      BY <2>4, AtPoint DEF IInv
    <3>2. eval'[c] = [eval[c] EXCEPT !.window = @ \cup {cp}]
      BY <2>0, <2>4
    <3>3. eval'[c] \in [pc: {"done"}, call: Calls, window: SUBSET Stores, decision: Actions]
      BY <3>1, <3>2
    <3> QED  BY <3>3 DEF Evaluations
  <2> QED  BY <2>1, <2>2, <2>3, <2>4, AtPoint DEF IInv
<1>6. eval' \in [Callers -> Evaluations]
  BY <1>4, <1>5
<1> QED  BY <1>1, <1>2, <1>3, <1>5, <1>6 DEF IInv, TypeOK, SnapshotsInForce

\* A step of one caller that leaves the pointer alone.
LEMMA CallerHolds ==
  ASSUME IInv, NEW c \in Callers, NEW e \in Evaluations,
         eval' = [eval EXCEPT ![c] = e], UNCHANGED <<inForce, current, updates>>,
         e.pc = "load" => inForce \in e.window,
         e.pc = "match" => \E cp \in e.window : e.snapshot = Stored(cp)
  PROVE  IInv'
<1>1. eval \in [Callers -> Evaluations]
  BY DEF IInv, TypeOK
<1>2. eval' \in [Callers -> Evaluations]
      /\ \A d \in Callers : eval'[d] = IF d = c THEN e ELSE eval[d]
  BY <1>1
<1>3. TypeOK'
  BY <1>2 DEF IInv, TypeOK
<1>4. SnapshotsInForce'
  BY <1>2 DEF IInv, SnapshotsInForce
<1> QED  BY <1>3, <1>4 DEF IInv

LEMMA NextHolds == IInv /\ [Next]_vars => IInv'
<1> SUFFICES ASSUME IInv, [Next]_vars PROVE IInv'
  OBVIOUS
<1>0. eval \in [Callers -> Evaluations] /\ inForce \in Stores /\ current \in CompiledPolicy
  BY DEF IInv, TypeOK
<1>1. ASSUME NEW cp \in Stores, Update(cp) PROVE IInv'
  BY <1>1, UpdateHolds
<1>2. ASSUME NEW c \in Callers, NEW call \in Calls, BeginEvaluate(c, call) PROVE IInv'
  <2> DEFINE e == [pc |-> "load", call |-> call, window |-> {inForce}]
  <2>1. e \in Evaluations
    <3>1. e \in [pc: {"load"}, call: Calls, window: SUBSET Stores]
      BY <1>0
    <3> QED  BY <3>1 DEF Evaluations
  <2>2. /\ eval' = [eval EXCEPT ![c] = e] /\ UNCHANGED <<inForce, current, updates>>
        /\ inForce \in e.window /\ e.pc = "load"
    BY <1>2 DEF BeginEvaluate
  <2> HIDE DEF e
  <2> QED  BY <2>1, <2>2, CallerHolds
<1>3. ASSUME NEW c \in Callers, LoadSnapshot(c) PROVE IInv'
  <2> DEFINE e == [pc |-> "match", call |-> eval[c].call, window |-> eval[c].window,
                   snapshot |-> current]
  <2>1. eval[c].pc = "load"
    BY <1>3 DEF LoadSnapshot
  <2>2. eval[c] \in [pc: {"load"}, call: Calls, window: SUBSET Stores]
    BY <2>1, AtPoint DEF IInv
  <2>3. e \in Evaluations
    <3>1. e \in [pc: {"match"}, call: Calls, window: SUBSET Stores, snapshot: CompiledPolicy]
      BY <1>0, <2>2
    <3> QED  BY <3>1 DEF Evaluations
  <2>4. inForce \in eval[c].window /\ current = Stored(inForce)
    BY <2>1 DEF IInv, SnapshotsInForce
  <2>5. /\ eval' = [eval EXCEPT ![c] = e] /\ UNCHANGED <<inForce, current, updates>>
        /\ e.pc = "match" /\ \E cp \in e.window : e.snapshot = Stored(cp)
    BY <1>0, <1>3, <2>4 DEF LoadSnapshot
  <2> HIDE DEF e
  <2> QED  BY <2>3, <2>5, CallerHolds
<1>4. ASSUME NEW c \in Callers, MatchSnapshot(c) PROVE IInv'
  <2> DEFINE e == [pc |-> "done", call |-> eval[c].call, window |-> eval[c].window,
                   decision |-> EvaluatePolicy(eval[c].snapshot, eval[c].call)]
  <2>1. eval[c].pc = "match"
    BY <1>4 DEF MatchSnapshot
  <2>2. eval[c] \in [pc: {"match"}, call: Calls, window: SUBSET Stores, snapshot: CompiledPolicy]
    BY <2>1, AtPoint DEF IInv
  <2>3. e \in Evaluations
    <3>1. e \in [pc: {"done"}, call: Calls, window: SUBSET Stores, decision: Actions]
      BY <2>2, EvaluateType
    <3> QED  BY <3>1 DEF Evaluations
  <2>4. /\ eval' = [eval EXCEPT ![c] = e] /\ UNCHANGED <<inForce, current, updates>>
        /\ e.pc = "done"
    BY <1>0, <1>4 DEF MatchSnapshot
  <2> HIDE DEF e
  <2> QED  BY <2>3, <2>4, CallerHolds
<1>5. ASSUME NEW c \in Callers, Return(c) PROVE IInv'
  <2>1. /\ eval' = [eval EXCEPT ![c] = Idle] /\ UNCHANGED <<inForce, current, updates>>
        /\ Idle \in Evaluations /\ Idle.pc = "idle"
    BY <1>5 DEF Return, Idle, Evaluations
  <2> HIDE DEF Idle
  <2> QED  BY <2>1, CallerHolds
<1>6. ASSUME UNCHANGED vars PROVE IInv'
  BY <1>6 DEF vars, IInv, TypeOK, SnapshotsInForce
<1> QED  BY <1>1, <1>2, <1>3, <1>4, <1>5, <1>6 DEF Next, Stores

\* The pointer always holds the compiled form of the policy in force, whole;
\* a call under way matches against one policy that was in force since it
\* began (engine.go's atomic pointer, loaded once).
THEOREM EngineInvariant == Spec => []IInv
<1>1. Init => IInv
  BY InitInvariant
<1>2. IInv /\ [Next]_vars => IInv'
  BY NextHolds
<1> QED  BY <1>1, <1>2, PTL DEF Spec

\* What a finished call has decided was promised by a config in its window.
Answered == IInv /\ AnswersOnePolicyInForce

LEMMA AnsweredHolds == Answered /\ [Next]_vars => AnswersOnePolicyInForce'
<1> SUFFICES ASSUME Answered, [Next]_vars, NEW c \in Callers, eval'[c].pc = "done"
             PROVE  \E cp \in eval'[c].window : eval'[c].decision = Promised(cp, eval'[c].call)
  BY DEF AnswersOnePolicyInForce
<1>0. eval \in [Callers -> Evaluations]
  BY DEF Answered, IInv, TypeOK
<1>1. CASE eval[c].pc = "done"
  <2>1. eval[c] \in [pc: {"done"}, call: Calls, window: SUBSET Stores, decision: Actions]
    BY <1>1, AtPoint DEF Answered, IInv
  <2>2. /\ eval'[c].call = eval[c].call /\ eval'[c].decision = eval[c].decision
        /\ eval[c].window \subseteq eval'[c].window
    <3>1. ASSUME NEW cp \in Stores, Update(cp)
          PROVE  eval'[c] = [eval[c] EXCEPT !.window = @ \cup {cp}]
      BY <1>1, <3>1 DEF Update
    <3>2. ASSUME NEW d \in Callers,
                 (\E call \in Calls : BeginEvaluate(d, call)) \/ LoadSnapshot(d)
                   \/ MatchSnapshot(d) \/ Return(d)
          PROVE  eval'[c] = eval[c]
      <4>1. d = c => Return(d)
        BY <1>1, <3>2 DEF BeginEvaluate, LoadSnapshot, MatchSnapshot
      <4>2. d # c
        <5> SUFFICES ASSUME d = c PROVE FALSE
          OBVIOUS
        <5>1. eval'[c] = Idle
          BY <1>0, <4>1 DEF Return
        <5> QED  BY <5>1 DEF Idle
      <4> QED
        BY <1>0, <3>2, <4>2 DEF BeginEvaluate, LoadSnapshot, MatchSnapshot, Return
    <3>3. ASSUME UNCHANGED vars PROVE eval'[c] = eval[c]
      BY <3>3 DEF vars
    <3>4. \/ \E cp \in Stores : eval'[c] = [eval[c] EXCEPT !.window = @ \cup {cp}]
          \/ eval'[c] = eval[c]
      BY <3>1, <3>2, <3>3 DEF Next, Stores
    <3> QED  BY <2>1, <3>4
  <2>3. \E cp \in eval[c].window : eval[c].decision = Promised(cp, eval[c].call)
    BY <1>1 DEF Answered, AnswersOnePolicyInForce
  <2> QED  BY <2>2, <2>3
<1>2. CASE eval[c].pc # "done"
  <2>1. MatchSnapshot(c)
    <3>1. ASSUME NEW cp \in Stores, Update(cp) PROVE FALSE
      <4>1. eval'[c] = IF eval[c].pc = "idle" THEN eval[c]
                       ELSE [eval[c] EXCEPT !.window = @ \cup {cp}]
        BY <3>1 DEF Update
      <4>2. eval'[c].pc = eval[c].pc
        <5>1. eval[c].pc = "load" =>
                eval[c] \in [pc: {"load"}, call: Calls, window: SUBSET Stores]
          BY AtPoint DEF Answered, IInv
        <5>2. eval[c].pc = "match" =>
                eval[c] \in [pc: {"match"}, call: Calls, window: SUBSET Stores,
                             snapshot: CompiledPolicy]
          BY AtPoint DEF Answered, IInv
        <5>3. eval[c].pc \in {"idle", "load", "match"}
          BY <1>2, AtPoint DEF Answered, IInv
        <5> QED  BY <4>1, <5>1, <5>2, <5>3
      <4> QED  BY <1>2, <4>2
    <3>2. ASSUME NEW d \in Callers, NEW call \in Calls, BeginEvaluate(d, call) PROVE FALSE
      BY <1>0, <1>2, <3>2 DEF BeginEvaluate
    <3>3. ASSUME NEW d \in Callers, LoadSnapshot(d) PROVE FALSE
      BY <1>0, <1>2, <3>3 DEF LoadSnapshot
    <3>4. ASSUME NEW d \in Callers, Return(d) PROVE FALSE
      BY <1>0, <1>2, <3>4 DEF Return, Idle
    <3>5. ASSUME NEW d \in Callers, MatchSnapshot(d) PROVE d = c
      BY <1>0, <1>2, <3>5 DEF MatchSnapshot
    <3>6. ASSUME UNCHANGED vars PROVE FALSE
      BY <1>2, <3>6 DEF vars
    <3> QED  BY <3>1, <3>2, <3>3, <3>4, <3>5, <3>6 DEF Next, Stores
  <2>2. eval[c].pc = "match"
    BY <2>1 DEF MatchSnapshot
  <2>3. eval[c].call \in Calls /\ eval[c].window \in SUBSET Stores
    BY <2>2, AtPoint DEF Answered, IInv
  <2>4. PICK cp \in eval[c].window : eval[c].snapshot = Stored(cp)
    BY <2>2 DEF Answered, IInv, SnapshotsInForce
  <2>5. /\ eval'[c].window = eval[c].window /\ eval'[c].call = eval[c].call
        /\ eval'[c].decision = EvaluatePolicy(eval[c].snapshot, eval[c].call)
    BY <1>0, <2>1 DEF MatchSnapshot
  <2>6. EvaluatePolicy(Stored(cp), eval[c].call) = Promised(cp, eval[c].call)
    BY <2>3, StoredAsPromised
  <2> QED  BY <2>4, <2>5, <2>6
<1> QED  BY <1>1, <1>2

\* Evaluate answers what one config in force during the call promises for it:
\* compiling and sorting keep the operator's meaning, and an Update in the
\* middle of a call never mixes two policies in one answer.
THEOREM OnePolicyAnswers == Spec => []AnswersOnePolicyInForce
<1>1. Init => AnswersOnePolicyInForce
  BY DEF Init, Idle, AnswersOnePolicyInForce
<1>2. IInv /\ AnswersOnePolicyInForce /\ [Next]_vars => AnswersOnePolicyInForce'
  BY AnsweredHolds DEF Answered
<1> QED  BY <1>1, <1>2, EngineInvariant, PTL DEF Spec

-----------------------------------------------------------------------------
(* The destructive-verb gate, from the runes of a name to the decision *)

\* A list of sequences joined from the left, as FlattenSeq joins them.
IsFlat(g, seqs, n) ==
  /\ g = [i \in 1..n |-> g[i]]
  /\ \A i \in 1..n : g[i] = IF i = 1 THEN seqs[i] ELSE g[i - 1] \o seqs[i]

LEMMA FlatExists ==
  ASSUME NEW seqs, NEW n \in Nat
  PROVE  \E g : IsFlat(g, seqs, n)
<1> DEFINE P == {i \in 1..n : \E g : IsFlat(g, seqs, i)}
<1>0. IsFlat([i \in 1..0 |-> <<>>], seqs, 0)
  BY DEF IsFlat
<1>1. ASSUME NEW i \in 1..n, \A j \in 1..n : j < i => j \in P PROVE i \in P
  <2>1. PICK g : IsFlat(g, seqs, i - 1)
    <3>1. CASE i = 1
      BY <1>0, <3>1
    <3>2. CASE i # 1
      <4>1. i - 1 \in P
        BY <1>1, <3>2
      <4> QED  BY <4>1
    <3> QED  BY <3>1, <3>2
  <2> DEFINE e == IF i = 1 THEN seqs[i] ELSE g[i - 1] \o seqs[i]
             h == [k \in 1..i |-> IF k < i THEN g[k] ELSE e]
  <2> HIDE DEF e
  <2>2. h = [k \in 1..i |-> h[k]] /\ h[i] = e /\ \A k \in 1..(i - 1) : h[k] = g[k]
    OBVIOUS
  <2> HIDE DEF h
  <2>3. ASSUME NEW k \in 1..i
        PROVE  h[k] = IF k = 1 THEN seqs[k] ELSE h[k - 1] \o seqs[k]
    <3>0. k # 1 => k - 1 \in 1..(i - 1)
      OBVIOUS
    <3>1. k # 1 => h[k - 1] = g[k - 1]
      BY <2>2, <3>0
    <3>2. CASE k = i
      BY <2>2, <3>1, <3>2 DEF e
    <3>3. CASE k # i
      <4>1. k \in 1..(i - 1)
        BY <3>3
      <4> QED  BY <2>1, <2>2, <3>1, <4>1 DEF IsFlat
    <3> QED  BY <3>2, <3>3
  <2>4. IsFlat(h, seqs, i)
    BY <2>2, <2>3 DEF IsFlat
  <2> QED  BY <2>4
<1>2. P = 1..n
  <2> HIDE DEF P
  <2>1. P \in SUBSET (1..n)
    BY DEF P
  <2> QED  BY <1>1, <2>1, UpTo
<1>3. n = 0 \/ n \in 1..n
  OBVIOUS
<1> QED  BY <1>0, <1>2, <1>3

LEMMA FlatType ==
  ASSUME NEW V, NEW seqs, NEW n \in Nat, \A i \in 1..n : seqs[i] \in Seq(V),
         NEW g, IsFlat(g, seqs, n)
  PROVE  \A i \in 1..n : g[i] \in Seq(V)
<1> DEFINE P == {i \in 1..n : g[i] \in Seq(V)}
<1>1. ASSUME NEW i \in 1..n, \A j \in 1..n : j < i => j \in P PROVE i \in P
  <2>0. i # 1 => i - 1 \in 1..n /\ i - 1 < i
    OBVIOUS
  <2>1. i # 1 => g[i - 1] \in Seq(V)
    BY <1>1, <2>0
  <2>2. g[i] = IF i = 1 THEN seqs[i] ELSE g[i - 1] \o seqs[i]
    BY DEF IsFlat
  <2>3. g[i] \in Seq(V)
    BY <2>1, <2>2
  <2> QED  BY <2>3
<1>2. P = 1..n
  <2> HIDE DEF P
  <2>1. P \in SUBSET (1..n)
    BY DEF P
  <2> QED  BY <1>1, <2>1, UpTo
<1> QED  BY <1>2

\* Folding a name gives a sequence of runes again.
LEMMA NormalizeType ==
  ASSUME NEW name \in Seq(DOMAIN Folded), Folded \in [DOMAIN Folded -> Seq(DOMAIN Folded)]
  PROVE  Normalize(name) \in Seq(DOMAIN Folded)
<1> DEFINE V == DOMAIN Folded
           n == Len(name)
           seqs == [k \in 1..n |-> Folded[name[k]]]
           flatten[i \in 1..n] == IF i = 1 THEN seqs[i] ELSE flatten[i - 1] \o seqs[i]
<1>1. /\ n \in Nat /\ DOMAIN name = 1..n
      /\ \A i \in 1..n : seqs[i] \in Seq(V)
  OBVIOUS
<1>2. seqs \in Seq(Seq(V)) /\ Len(seqs) = n
  <2>1. n \in Nat /\ seqs \in [1..n -> Seq(V)]
    BY <1>1
  <2> HIDE DEF n, V, seqs
  <2>2. seqs \in Seq(Seq(V)) /\ DOMAIN seqs = 1..n
    BY <2>1, SeqDef
  <2>3. Len(seqs) = n
    BY <2>1, <2>2, LenProperties
  <2> QED  BY <2>2, <2>3
<1>3. Normalize(name) = IF n = 0 THEN seqs ELSE flatten[n]
  <2>1. Normalize(name) = FlattenSeq(seqs)
    BY <1>1 DEF Normalize
  <2> HIDE DEF n
  <2> QED  BY <1>2, <2>1 DEF FlattenSeq
<1>4. PICK g : IsFlat(g, seqs, n)
  BY <1>1, FlatExists
<1> HIDE DEF n, seqs, V
<1>5. g = [i \in 1..n |-> IF i = 1 THEN seqs[i] ELSE g[i - 1] \o seqs[i]]
  <2>1. g = [i \in 1..n |-> g[i]]
    BY <1>4 DEF IsFlat
  <2>2. \A i \in 1..n : g[i] = IF i = 1 THEN seqs[i] ELSE g[i - 1] \o seqs[i]
    BY <1>4 DEF IsFlat
  <2> QED  BY <2>1, <2>2
<1>6. flatten = [i \in 1..n |-> IF i = 1 THEN seqs[i] ELSE flatten[i - 1] \o seqs[i]]
  BY <1>5
<1>7. IsFlat(flatten, seqs, n)
  <2> HIDE DEF flatten
  <2>1. flatten = [i \in 1..n |-> flatten[i]]
    BY <1>6
  <2>2. \A i \in 1..n :
          flatten[i] = IF i = 1 THEN seqs[i] ELSE flatten[i - 1] \o seqs[i]
    BY <1>6
  <2> QED  BY <2>1, <2>2 DEF IsFlat
<1> HIDE DEF flatten
<1>8. CASE n = 0
  <2>1. seqs = <<>>
    BY <1>1, <1>2, <1>8
  <2> QED  BY <1>3, <1>8, <2>1 DEF V
<1>9. CASE n # 0
  <2>1. n \in 1..n
    BY <1>1, <1>9
  <2>2. flatten[n] \in Seq(V)
    BY <1>1, <1>7, <2>1, FlatType
  <2> QED  BY <1>3, <1>9, <2>2 DEF V
<1> QED  BY <1>8, <1>9
\* The two places where the scan stops a needle without a boundary in it are
\* neighbouring boundaries, and the other way round.
LEMMA ScanFindsWords ==
  ASSUME NEW V, NEW runes \in Seq(V), NEW v \in Seq(V), v # <<>>,
         \A k \in DOMAIN v : v[k] \notin Separators
  PROVE  containsWordRunes(runes, v) <=> v \in Words(runes)
<1> DEFINE n == Len(runes)
           m == Len(v)
<1>0. /\ n \in Nat /\ m \in Nat /\ m # 0 /\ DOMAIN v = 1..m
      /\ \A i \in 1..n : runes[i] \in V
  OBVIOUS
<1>1. ASSUME containsWordRunes(runes, v) PROVE v \in Words(runes)
  <2>1. PICK i \in 1..n : /\ i + m <= n + 1
                          /\ SubSeq(runes, i, i + m - 1) = v
                          /\ (i = 1 \/ isSeparator(runes[i - 1]))
                          /\ (i + m = n + 1 \/ isSeparator(runes[i + m]))
    BY <1>1 DEF containsWordRunes
  <2> DEFINE a == i - 1
             b == i + m
  <2>2. a \in 0..n /\ b \in 1..(n + 1) /\ a < b /\ a + 1 = i /\ b - 1 = i + m - 1
    BY <1>0, <2>1
  <2>3. \A k \in 1..m : v[k] = runes[i + k - 1]
    <3>1. \A k \in i..(i + m - 1) : runes[k] \in V
      BY <1>0, <2>1
    <3> HIDE DEF n, m
    <3>2. \A k \in 1..((i + m - 1) - i + 1) : SubSeq(runes, i, i + m - 1)[k] = runes[i + k - 1]
      BY <1>0, <2>1, <3>1, SubSeqProperties
    <3> QED  BY <1>0, <2>1, <3>2
  <2> HIDE DEF n, m
  <2>4. a \in Boundaries(runes) /\ b \in Boundaries(runes)
    <3>1. i # 1 => i - 1 \in 1..n
      BY <1>0, <2>1
    <3>2. i + m # n + 1 => i + m \in 1..n
      BY <1>0, <2>1
    <3> QED  BY <2>1, <3>1, <3>2 DEF Boundaries, n
  <2>5. ASSUME NEW k \in Boundaries(runes) PROVE k <= a \/ k >= b
    <3>0. k = 0 \/ k = n + 1 \/ (k \in 1..n /\ isSeparator(runes[k]))
      BY DEF Boundaries, n
    <3>1. CASE k \in 1..n /\ isSeparator(runes[k])
      <4> SUFFICES ASSUME ~(k <= a), ~(k >= b) PROVE FALSE
        OBVIOUS
      <4>1. k - i + 1 \in 1..m /\ i + (k - i + 1) - 1 = k
        BY <1>0, <2>1, <2>2, <3>1
      <4>2. v[k - i + 1] = runes[k]
        BY <2>3, <4>1
      <4> QED  BY <1>0, <3>1, <4>1, <4>2 DEF isSeparator
    <3> QED  BY <1>0, <2>1, <2>2, <3>0, <3>1
  <2>6. Neighbours(runes, a, b)
    BY <2>2, <2>4, <2>5 DEF Neighbours
  <2>7. v = SubSeq(runes, a + 1, b - 1)
    BY <2>1, <2>2
  <2> HIDE DEF a, b
  <2> DEFINE c == <<a, b>>
  <2>8. c \in {d \in (0..n) \X (1..(n + 1)) : Neighbours(runes, d[1], d[2])}
    BY <2>2, <2>6
  <2>9. v = SubSeq(runes, c[1] + 1, c[2] - 1)
    BY <2>7
  <2> HIDE DEF c
  <2> QED  BY <2>8, <2>9 DEF Words, n
<1>2. ASSUME v \in Words(runes) PROVE containsWordRunes(runes, v)
  <2>1. PICK d \in (0..n) \X (1..(n + 1)) :
          Neighbours(runes, d[1], d[2]) /\ v = SubSeq(runes, d[1] + 1, d[2] - 1)
    BY <1>2 DEF Words
  <2> DEFINE a == d[1]
             b == d[2]
  <2>2. /\ a \in 0..n /\ b \in 1..(n + 1) /\ Neighbours(runes, a, b)
        /\ v = SubSeq(runes, a + 1, b - 1)
    BY <2>1
  <2> HIDE DEF a, b, n, m
  <2>3. a < b /\ a \in Boundaries(runes) /\ b \in Boundaries(runes)
    BY <2>2 DEF Neighbours
  <2>4. a + 1 <= b - 1
    <3> SUFFICES ASSUME ~(a + 1 <= b - 1) PROVE FALSE
      OBVIOUS
    <3>1. SubSeq(runes, a + 1, b - 1) = <<>>
      <4>1. a + 1 \in Int /\ b - 1 \in Int /\ b - 1 < a + 1
        BY <1>0, <2>2
      <4> QED  BY <4>1, SubSeqEmpty
    <3> QED  BY <2>2, <3>1
  <2>5. m = (b - 1) - (a + 1) + 1
    <3>1. a + 1 \in Int /\ b - 1 \in Int
      BY <1>0, <2>2
    <3>2. \A i \in (a + 1)..(b - 1) : runes[i] \in V
      BY <1>0, <2>2
    <3>3. Len(SubSeq(runes, a + 1, b - 1)) =
            IF a + 1 <= b - 1 THEN (b - 1) - (a + 1) + 1 ELSE 0
      BY <3>1, <3>2, SubSeqProperties
    <3> QED  BY <2>2, <2>4, <3>3 DEF m
  <2> DEFINE i == a + 1
  <2>6. /\ i \in 1..n /\ i + m <= n + 1 /\ i + m = b /\ i + m - 1 = b - 1 /\ i - 1 = a
    BY <1>0, <2>2, <2>4, <2>5
  <2>7. (i = 1 \/ isSeparator(runes[i - 1])) /\ (i + m = n + 1 \/ isSeparator(runes[i + m]))
    <3>1. a = 0 \/ isSeparator(runes[a])
      BY <1>0, <2>3, <2>4, <2>2 DEF Boundaries, n
    <3>2. b = n + 1 \/ isSeparator(runes[b])
      BY <1>0, <2>2, <2>3 DEF Boundaries, n
    <3>3. a = 0 => i = 1
      OBVIOUS
    <3>4. runes[i - 1] = runes[a] /\ runes[i + m] = runes[b]
      BY <2>6
    <3> HIDE DEF i
    <3> QED  BY <2>6, <3>1, <3>2, <3>3, <3>4
  <2>8. SubSeq(runes, i, i + m - 1) = v
    BY <2>2, <2>6
  <2> HIDE DEF i
  <2> QED  BY <2>6, <2>7, <2>8 DEF containsWordRunes, n, m
<1> QED  BY <1>1, <1>2

\* The scan stops exactly the tools one of whose words is a destructive verb,
\* for every table of verbs, boundaries and foldings.
THEOREM GateIsWordwise ==
  ASSUME NEW t \in Tools
  PROVE  t \in DestructiveTools <=> HasDestructiveWord(NameOf[t])
<1> DEFINE runes == Normalize(NameOf[t])
<1>1. runes \in Seq(DOMAIN Folded)
  <2>1. NameOf[t] \in Seq(DOMAIN Folded) /\ Folded \in [DOMAIN Folded -> Seq(DOMAIN Folded)]
    BY NameAssumption DEF NameAssumption
  <2> QED  BY <2>1, NormalizeType
<1>2. t \in DestructiveTools <=>
        \E v \in DestructiveVerbs : containsWordRunes(runes, v)
  BY NameAssumption DEF NameAssumption, IsDestructiveTool
<1> HIDE DEF runes
<1>3. ASSUME NEW v \in DestructiveVerbs
      PROVE  containsWordRunes(runes, v) <=> v \in Words(runes)
  <2>1. /\ v \in Seq(DOMAIN Folded) /\ v # <<>>
        /\ \A k \in DOMAIN v : v[k] \notin Separators
    BY VerbAssumption DEF VerbAssumption
  <2> QED  BY <1>1, <2>1, ScanFindsWords
<1>4. HasDestructiveWord(NameOf[t]) <=> \E v \in DestructiveVerbs : v \in Words(runes)
  BY DEF HasDestructiveWord, runes
<1> QED  BY <1>2, <1>3, <1>4

\* Of the rules of a config that apply to a call, one outranks all.
LEMMA TopApplies ==
  ASSUME NEW cp, Written(cp), NEW S \in SUBSET (DOMAIN cp.rules), S # {}
  PROVE  \E i \in S : \A j \in S : Outranks(cp, i, j)
<1> DEFINE n == Len(cp.rules)
           L == {i \in S : cp.rules[i].literal}
<1>1. /\ n \in Nat /\ DOMAIN cp.rules = 1..n
      /\ \A i \in 1..n : cp.rules[i].literal \in BOOLEAN
  BY DEF Written
<1>2. S \in SUBSET (1..n) /\ L \in SUBSET (1..n)
  BY <1>1
<1> HIDE DEF n
<1>3. CASE L # {}
  <2>1. PICK i \in L : IsFirst(i, L)
    BY <1>1, <1>2, <1>3, FirstExists
  <2>2. \A j \in S : cp.rules[j].literal => i <= j
    BY <2>1 DEF IsFirst
  <2>3. \A j \in S : Outranks(cp, i, j)
    BY <1>1, <1>2, <2>1, <2>2 DEF Outranks
  <2> QED  BY <2>1, <2>3
<1>4. CASE L = {}
  <2>1. PICK i \in S : IsFirst(i, S)
    BY <1>1, <1>2, FirstExists
  <2>2. \A j \in S : ~cp.rules[j].literal /\ i <= j
    BY <1>4, <2>1 DEF IsFirst
  <2>3. \A j \in S : Outranks(cp, i, j)
    BY <1>1, <1>2, <2>2 DEF Outranks
  <2> QED  BY <2>3
<1> QED  BY <1>3, <1>4

\* What a config promises to allow or to send to approval, it states, but for
\* the gate: the rule that decides applies and has that action.
LEMMA PromisedStates ==
  ASSUME NEW cp \in Stores, NEW call \in Calls
  PROVE  /\ Promised(cp, call) = "allow" /\ call.tool \in DestructiveTools
              => ConfigStates(cp, call, "allow")
         /\ Promised(cp, call) = "require_approval" /\ call.tool \notin DestructiveTools
              => ConfigStates(cp, call, "require_approval")
<1>1. CASE cp = NoConfig
  BY <1>1 DEF Promised
<1>2. CASE cp # NoConfig
  <2> DEFINE applying == {i \in DOMAIN cp.rules : Applies(cp.rules[i], call)}
             top == CHOOSE i \in applying : \A j \in applying : Outranks(cp, i, j)
  <2>1. cp \in [default: STRING, rules: Seq(ConfigRules)] /\ ~CompileFails(cp)
    BY <1>2, EngineAssumption DEF EngineAssumption, Stores, Compilable
  <2>2. Written(cp)
    <3>1. cp.rules \in Seq(ConfigRules)
      BY <2>1
    <3>2. Len(cp.rules) \in Nat /\ DOMAIN cp.rules = 1..Len(cp.rules)
          /\ \A i \in DOMAIN cp.rules : cp.rules[i] \in ConfigRules
      BY <3>1
    <3> QED  BY <3>2 DEF Written, ConfigRules
  <2>3. applying # {} => top \in applying
    <3>1. applying \in SUBSET (DOMAIN cp.rules)
      OBVIOUS
    <3> HIDE DEF applying
    <3> QED  BY <2>2, <3>1, TopApplies
  <2>4. applying # {} => top \in DOMAIN cp.rules /\ Applies(cp.rules[top], call)
    BY <2>3
  <2> HIDE DEF top
  <2>5. Promised(cp, call) = IF call.tool \notin PrintableTools THEN "deny"
          ELSE IF applying # {} THEN cp.rules[top].action
          ELSE IF call.tool \in DestructiveTools THEN "require_approval" ELSE cp.default
    BY <1>2 DEF Promised, Says, top
  <2> HIDE DEF applying
  <2>6. CASE applying # {}
    <3> QED  BY <1>2, <2>4, <2>5, <2>6 DEF ConfigStates
  <2>7. CASE applying = {}
    <3> QED  BY <1>2, <2>5, <2>7 DEF ConfigStates
  <2> QED  BY <2>6, <2>7
<1> QED  BY <1>1, <1>2

\* A tool one of whose words is a destructive verb is allowed only by a rule
\* that says so in a config in force during the call, and no other tool is sent
\* to approval but by a config: for every table of verbs, any configs and any
\* Update in the middle of a call.
THEOREM DestructiveVerbsStopped == Spec => []DestructiveWordsGated
<1>1. IInv /\ AnswersOnePolicyInForce => DestructiveWordsGated
  <2> SUFFICES ASSUME IInv, AnswersOnePolicyInForce, NEW c \in Callers, eval[c].pc = "done"
               PROVE  LET call == eval[c].call
                          stated(action) == \E cp \in eval[c].window :
                                              ConfigStates(cp, call, action)
                      IN  /\ eval[c].decision = "allow" /\ HasDestructiveWord(NameOf[call.tool])
                               => stated("allow")
                          /\ eval[c].decision = "require_approval"
                               /\ ~HasDestructiveWord(NameOf[call.tool])
                               => stated("require_approval")
    BY DEF DestructiveWordsGated
  <2> DEFINE call == eval[c].call
  <2>1. call \in Calls /\ call.tool \in Tools /\ eval[c].window \in SUBSET Stores
    <3>1. eval[c] \in [pc: {"done"}, call: Calls, window: SUBSET Stores, decision: Actions]
      BY AtPoint DEF IInv
    <3>2. call \in Calls /\ eval[c].window \in SUBSET Stores
      BY <3>1
    <3> QED  BY <3>2 DEF Calls
  <2>2. PICK cp \in eval[c].window : eval[c].decision = Promised(cp, call)
    BY DEF AnswersOnePolicyInForce
  <2>3. call.tool \in DestructiveTools <=> HasDestructiveWord(NameOf[call.tool])
    BY <2>1, GateIsWordwise
  <2>4. /\ Promised(cp, call) = "allow" /\ call.tool \in DestructiveTools
              => ConfigStates(cp, call, "allow")
        /\ Promised(cp, call) = "require_approval" /\ call.tool \notin DestructiveTools
              => ConfigStates(cp, call, "require_approval")
    BY <2>1, <2>2, PromisedStates
  <2> QED  BY <2>2, <2>3, <2>4
<1> QED  BY <1>1, EngineInvariant, OnePolicyAnswers, PTL
=============================================================================
