---------------------------- MODULE PolicyEngine ----------------------------
(***************************************************************************)
(* policy.Engine: a compiled Policy behind an atomic pointer, read by      *)
(* Evaluate in the proxy's pump goroutine while a loader swaps it with     *)
(* Update.  A caller is one goroutine inside Evaluate.                     *)
(***************************************************************************)
EXTENDS Policy, FiniteSets

CONSTANTS Configs,     \* config policies a loader may hand to Compile
          Callers,     \* goroutines that call Evaluate
          NoConfig,    \* no policy: Update(nil), or New(nil)
          MaxUpdates   \* bound: swaps of the pointer after New

\* A rule as YAML gives it to Compile: module Policy says what its fields are.
ConfigRules ==
  [literal: BOOLEAN, tool: SUBSET Tools, targets: SUBSET SUBSET Targets,
   action: STRING, wellFormed: BOOLEAN]

ASSUME EngineAssumption ==
  /\ Configs \subseteq [default: STRING, rules: Seq(ConfigRules)]
  /\ NoConfig \notin Configs
  /\ MaxUpdates \in Nat

VARIABLES inForce,  \* the config whose compiled form was last stored
          current,  \* Engine.current
          eval,     \* per caller: the progress of its Evaluate
          updates   \* number of Update calls so far, for MaxUpdates

vars == <<inForce, current, eval, updates>>

Compilable == {cp \in Configs : ~CompileFails(cp)}

\* The pointer Update stores: nil is replaced by the deny-by-default policy.
Stored(cp) == IF cp = NoConfig THEN DenyByDefault ELSE Compile(cp)

\* eval[c].window collects the configs in force since the call began: what a
\* caller may take the answer to be about.
Idle == [pc |-> "idle"]

Init ==
  /\ inForce \in Compilable \cup {NoConfig}
  /\ current = Stored(inForce)
  /\ eval = [c \in Callers |-> Idle]
  /\ updates = 0

\* The loader runs Compile, and Update only when it succeeded.
Update(cp) ==
  /\ updates < MaxUpdates
  /\ inForce' = cp
  /\ current' = Stored(cp)
  /\ eval' = [c \in Callers |->
                IF eval[c].pc = "idle" THEN eval[c]
                ELSE [eval[c] EXCEPT !.window = @ \cup {cp}]]
  /\ updates' = updates + 1

BeginEvaluate(c, call) ==
  /\ eval[c].pc = "idle"
  /\ eval' = [eval EXCEPT ![c] =
                [pc |-> "load", call |-> call, window |-> {inForce}]]
  /\ UNCHANGED <<inForce, current, updates>>

\* p := e.current.Load()
LoadSnapshot(c) ==
  /\ eval[c].pc = "load"
  /\ eval' = [eval EXCEPT ![c] =
                [pc |-> "match", call |-> @.call, window |-> @.window,
                 snapshot |-> current]]
  /\ UNCHANGED <<inForce, current, updates>>

\* Everything after the load reads the snapshot only.
MatchSnapshot(c) ==
  /\ eval[c].pc = "match"
  /\ eval' = [eval EXCEPT ![c] =
                [pc |-> "done", call |-> @.call, window |-> @.window,
                 decision |-> EvaluatePolicy(@.snapshot, @.call)]]
  /\ UNCHANGED <<inForce, current, updates>>

Return(c) ==
  /\ eval[c].pc = "done"
  /\ eval' = [eval EXCEPT ![c] = Idle]
  /\ UNCHANGED <<inForce, current, updates>>

Next ==
  \/ \E cp \in Compilable \cup {NoConfig} : Update(cp)
  \/ \E c \in Callers :
       \/ \E call \in Calls : BeginEvaluate(c, call)
       \/ LoadSnapshot(c)
       \/ MatchSnapshot(c)
       \/ Return(c)

Spec == Init /\ [][Next]_vars

-----------------------------------------------------------------------------
(* What the operator's config promises, stated on the config as written.   *)

\* An engine that was never given a config asks for printable destructive tools
\* and denies the rest; with a config, module Policy says what it promises.
Promised(cp, call) ==
  IF cp = NoConfig
  THEN IF call.tool \in PrintableTools \cap DestructiveTools
       THEN "require_approval" ELSE "deny"
  ELSE Says(cp, call)

-----------------------------------------------------------------------------
(* Properties *)

Stores == Compilable \cup {NoConfig}

Evaluations ==
  [pc: {"idle"}]
  \cup [pc: {"load"}, call: Calls, window: SUBSET Stores]
  \cup [pc: {"match"}, call: Calls, window: SUBSET Stores, snapshot: CompiledPolicy]
  \cup [pc: {"done"}, call: Calls, window: SUBSET Stores, decision: Actions]

\* Compile gives a well-formed policy and every finished evaluation is a real
\* decision (DecisionUnset is never returned).
TypeOK ==
  /\ inForce \in Stores
  /\ current \in CompiledPolicy
  /\ updates \in 0..MaxUpdates
  /\ eval \in [Callers -> Evaluations]

\* The pointer holds the policy in force, compiled; a snapshot is that of a
\* config in force since the call began.
SnapshotsInForce ==
  /\ current = Stored(inForce)
  /\ \A c \in Callers :
       /\ eval[c].pc = "load" => inForce \in eval[c].window
       /\ eval[c].pc = "match" => \E cp \in eval[c].window : eval[c].snapshot = Stored(cp)

IInv == TypeOK /\ SnapshotsInForce

\* Evaluate answers what ONE config in force during the call promises for the
\* call: compilation and sorting change nothing of the operator's meaning, and
\* a concurrent Update never mixes two policies in one answer.
AnswersOnePolicyInForce ==
  \A c \in Callers : eval[c].pc = "done" =>
    \E cp \in eval[c].window : eval[c].decision = Promised(cp, eval[c].call)
=============================================================================
