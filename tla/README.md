# A TLA+ verification of mcp-socd

mcp-socd stands between an AI agent and an upstream MCP server. It relays JSON-RPC frames over
stdio, evaluates every `tools/call` against a policy, refuses what the policy does not allow,
and writes an audit trail. Beside the proxy the repository holds an approval workflow (terminal
and Slack), an audit emitter with its sinks, an action catalog, a configuration loader and a
vendor back end. At this commit the proxy calls the policy engine and the catalog only; the
workflow, the emitter, the event builder, the error posture, the back end and the loading of custom
actions are complete packages that nothing wires in yet (`internal/cli/root.go` passes
`NoopEmitter` and `catalog.New()`), so they are modelled as components of their own.

All paths below are relative to `src/`; `internal/` is left out where it is obvious.

## 1. Inventory

| Component | State | Operations | Talks to | What is hard |
|---|---|---|---|---|
| Proxy: `proxy/proxy.go`, `transport.go` | two pumps, the `finished` channel, `stdoutMu`, the child process, a context | `Run`, `Shutdown`, `pumpAgentToChild`, `pumpChildToAgent`, `writeToAgent` | agent and child by pipes; policy engine; catalog; emitter | two goroutines share one stdout; either end of either pipe may go first; kill, reap and report race |
| Intercept: `proxy/intercept.go` | none of its own | `interceptCall` | `Engine.Evaluate`, then `Engine.Current` again | a policy swap between the two loads; one audit event per outcome |
| Framing: `proxy/jsonrpc.go` | a buffered reader per pump | `ReadFrame`, `WriteFrame` | pipes | header and body are two writes |
| Policy engine: `policy/engine.go` | one atomic pointer | `Compile`, `Update`, `Evaluate` | proxy | lock-free swap; the sort keeps equal ranks in order; three phases in order |
| Destructive verbs: `policy/destructive.go` | none | `IsDestructiveTool` | `Evaluate`, posture | word boundaries at both ends of a name whose length folding changes |
| Approval workflow: `approval/workflow.go` | secret, list of channels | `NewWorkflow`, `Approve` | channels in order, audit hook | fall-through on failure under one deadline |
| Terminal channel: `approval/terminal.go` | one goroutine per request, inside a read | `Request` | operator | the goroutine cannot be cancelled; late and stale answers |
| Slack channel: `approval/slack.go` | map of pending requests, event loop, cache | `Request`, `Close` | approver, through Slack | late clicks, deregistration, lazy start, `Close` at any time |
| Tokens: `approval/hmac.go` | none | `SignToken`, `VerifyToken` | workflow, both channels | the token binds the request id only |
| Audit emitter: `audit/emitter.go` | mutex, `closed`, heartbeat goroutine | `Emit`, `Heartbeat`, `Close` | sinks | `Close` waits for a goroutine that wants the same mutex |
| Audit sinks: `audit/sink.go` | a file, two streams | `Write`, `Close` | operating system | partial fan-out, short writes, fsync, crash and restart |
| Event builder: `audit/event.go` | a working event and a time | the setters, `Build` | emitter | `Build` copies a struct that shares a slice's array and a pointer with the builder |
| Catalog: `catalog/loader.go`, `starter.go` | map of actions; one schema compiler for the whole package | `LoadCustomFile`, `LoadCustomBytes`, `Remove`, `Get`, `Validate` | proxy, posture | a document that fails half-way; a compiler that remembers what the map forgot |
| Error posture: `errors/posture.go` | none | `Classify` | catalog, verbs | a catalog that changes under it |
| Back end: `backend/` | registry of vendor clients | `Register`, `Execute`, the vendor methods | vendor | argument names written down three times |
| Configuration: `config/` | none | `Load`, `Validate` | everything, at start-up | three places check a config, each differently |
| Command line: `cli/root.go` | signal channel | `runRoot` | config, policy, proxy | overrides after validation; a signal while `Run` ends |

What makes each correct, in a line:

- **Proxy**: no call reaches the upstream unless one policy in force allowed it; each frame has
  one outcome and, if it is a call, one event that precedes it; stdout is whole frames; every
  return of `Run` leaves the child reaped, and, while the agent reads its stdout, a signal or
  the end of either side makes it return.
  (A write to an agent that closed its end kills the Go runtime on the spot, `BrokenPipe`: then
  nothing is reaped.)
- **Policy engine**: an evaluation answers as one single configuration promises, and a
  destructive tool no rule names is never simply allowed.
- **Approval**: one decision and one equal report per request; *approve* only if somebody
  approved that very request; `Approve` always returns.
- **Audit**: an acknowledged record is on disk and stays there; the sinks tell one story; `Close`
  ends, and nothing is written after it; an event once built never changes.
- **Catalog and posture**: a name means what one sound declaration says and changes meaning only
  through `Remove`; a failing load leaves a prefix of its document or nothing; a tool fails open
  only because somebody declared it harmless.
- **Back end**: a validated call finds its arguments, and acts upon the target the policy saw.
- **Start-up**: what serves was validated, runs the command asked for and answers every call as the
  file says.

`PROJECT.json` lists the hazards one by one, at their lines, with the properties that cover them
and a note where none does.

## 2. Modules

| Module | Models | Composes |
|---|---|---|
| `VerbGate` | the scan for destructive verbs over names spelled in runes | |
| `Policy` | rules, `Compile`, the specificity sort, the three phases of `Evaluate`, as operators; and `Says`, what a config as written says of a call | |
| `PolicyEngine` | the engine in time: a loader that swaps the policy, callers in `Evaluate` | `Policy` |
| `NamedEngine` | the engine over tool names spelled in runes | `PolicyEngine`, `VerbGate` |
| `CallGate` | abstract: a call is decided once, against the policy in force; allowed ones may go up, others may be refused | |
| `Proxy` | both pumps, `Run`, `Shutdown`, the child, os/exec, the agent, a policy swap | `Policy`; implements `CallGate` |
| `ApprovalTypes` | decisions, tokens, results | |
| `ApprovalGate` | abstract: one decision and one report per request, approve after consent | |
| `TerminalChannel`, `SlackChannel` | one transport each, with its human | `ApprovalTypes` |
| `Workflow` | `NewWorkflow`, `Approve`, and the composition with both channels | both channels (INSTANCE); implements `ApprovalGate` |
| `AuditEmitter` | `Emit`, heartbeat, `Close`, the fan-out, the file sink, crash and restart | |
| `Bindings` | abstract: a name is bound to one declared meaning until it is unbound | |
| `Catalog` | starter actions, the loader, `Remove`, `Validate`, target extraction, the posture | implements `Bindings` |
| `Backend` | the registry, `Execute`, the Falcon client, the vendor | `Catalog` |
| `EventBuilder` | the setters and `Build` over a heap of shared cells | |
| `Startup` | flags, `config.Load`, overrides, compile, up to a proxy that serves | `Policy` |
| `Libraries` | one specification in which each behaviour moves one of the four packages above | `Catalog`, `Backend`, `EventBuilder`, `Startup` |
| `MCPolicyEngine`, `MCProxy`, `MCWorkflow`, `MCAuditEmitter`, `MCLibraries` | the small instances | the five modules they are named for (`NamedEngine` for the first) |
| `ProxyInvariant`, `WorkflowInvariant`, `AuditInvariant` | the inductive strengthenings used by the proofs | `Proxy`, `Workflow`, `AuditEmitter` |
| `PolicyProofs`, `EngineProofs`, `ProxyProofs`, `ProxySafetyProofs`, `ProxyGateProofs`, `WorkflowProofs`, `AuditProofs`, `LibraryProofs` | theorems, section 6 | the modules they are named for, and one another in that order within a component |

### State and actions against the code

**Policy and PolicyEngine.** A glob is the set of names it matches, so `path.Match` is not
spelled out; a rule keeps whether its tool pattern is literal, because the rank depends on it.
The predicates that read the characters of a tool name are constant sets (`PrintableTools`,
`DestructiveTools`), the second of which `NamedEngine` computes from spelled names with `VerbGate`. `Evaluate` is split where another goroutine can get in between: call, load
of the pointer, match, return. `Update` compiles before it stores, so a config that does not
compile leaves the old policy in force.

**Proxy.** `pcA` walks pump A through read, intercept (params, catalog, schema), evaluate, emit,
the second load for the version, and the reply or the forward; `pcB` walks pump B through read
and relay. `writeToAgent` is lock, header, body and unlock, for both. `Run` is start, wait,
cancel, reap, return; `main` then exits, and that ends every goroutine wherever it stands.
`finished` is the buffered channel both pumps report to. A message is its frame and origin;
`stdout` keeps every chunk, so framing, order and double answers are visible. The policy is
loaded through the same pointer a loader may swap (`EngineUpdate`). History variables:
`decidedBy` (the snapshot of each call) and `window` (the policies current since the frame in
hand was read). External and therefore free: when the agent sends, stalls, or closes either pipe; when
the child answers, exits, fails or dies half-way through a write; when the kill takes effect.

**VerbGate.** A rune keeps what the scan tells apart: what NFKC and lower-casing turn it into
(`Folded`, possibly several runes, possibly a separator) and whether it is a word boundary. The
scan is the code's, position by position; `HasDestructiveWord` restates it without one, as the verb
being what stands between two neighbouring boundaries, and only the property uses that.

**Catalog.** `actions` is the map, `resources` what the package's schema compiler has registered,
which neither a failed load nor a `Remove` undoes. `parseCustomYAML` decodes and validates every
declaration before `addValidated` inserts the first; a taken name stops the insertion where it stands.
`Decoded` is the struct of `decodeSingleInto`, in which `primary_arg` does not exist. A JSON Schema
is its required, allowed and non-empty properties, all that the schemas of `starter.go` say
besides the type string and one enumeration. `Classify` and `extractTarget` read the same map.

**Backend.** `Execute` is the registry's look-up, the dispatch with the argument checks of the vendor
method, and the vendor's answer, three steps: a provider may overwrite the client in between.
An error of the SDK is the set of marks its text contains, as `mapSDKError` looks for substrings.

**EventBuilder.** `Build` copies the event's struct, so the array behind `Resources` and the
`Actor` stay shared. Both are cells of a heap; `append` writes in place while the array has room.

**Startup.** One step per stage of `runRoot`: flags, path, `Load` (every way it fails), overrides,
compile. What then runs is module `Proxy`.

**Workflow and channels.** A token is the pair of request id and secret, or `NoToken`; two
secrets from different sources differ. `Approve` signs, opens the context and walks the list of
channels; `ContextEnds` stands for the deadline and for a caller's cancel, which the channels
cannot tell apart. The configuration may hold any number of sections of either kind. What a channel
keeps for a request is keyed by the call, the pair of the section's position (`Positions`) and
the request; the event loop, its queue and `Close` by the section; the terminal, its operator and
the prompts on it are one for all. Slack delivers a click to whichever section's loop is running. In `TerminalChannel` every request starts a reader that stays until it gets a
line: readers of dead requests compete with live ones, and each has its own buffered reader,
which may take further lines with the first and lose them. In `SlackChannel` the look-up in the
pending map and the send are two steps, as the lock is dropped between them; a send on a closed
channel, and two requests inside the unsynchronised `approverCache`, end the process
(`panic`). Delivery of clicks is assumed although no code at this commit runs the socket-mode
client (`socketmode.Client.Run` is never called); with no delivery Slack can only time out, a
behaviour the model includes.

**AuditEmitter.** `Emit` is lock, one step per sink, a sync of its own for the file, unlock.
A failed sink ends the fan-out. A failed file write may leave a torn record. `Close` is its
critical section, the close of `stopCh`, and the wait for the heartbeat goroutine with the close
of the sinks. `Crash` is either the process (the file keeps everything) or the machine (what was
not synced is lost from some point on, the record there possibly torn); the proxy then starts
again on the same file.

## 3. Runs

| Run | Instance | Shows |
|---|---|---|
| `policy_engine` | every config of up to two of eight rule shapes under three default actions, and all triples of three; five tools spelled in runes (the verb alone, capitalised, as a prefix of a longer word, cut short, and behind a ligature and a foreign space); one caller, one swap | answers equal a reference definition written without sorting; a destructive word needs an allow rule, and no other name is held for approval unasked (869,698 states) |
| `proxy_safety` | five sessions of two frames, between them every kind of frame; two policies that disagree; one swap; pipes of two | 11 invariants and the refinement of `CallGate` (1,244,582 states) |
| `proxy_liveness` | two sessions, pipes of one, an agent that may stall | five leads-to properties |
| `approval_safety` | one request over both kinds in either order, over two terminal sections and over two Slack sections; two requests at a time on one section of each kind; a request without an id; five configurations `NewWorkflow` rejects; two gestures (lines and clicks together) | four invariants and the refinement of `ApprovalGate` (1,149,515 states) |
| `approval_liveness` | the configurations that work, one gesture | every `Approve` returns (149,958 states) |
| `audit` | one caller, the heartbeat with two ticks, two callers of `Close`, the shortest and the longest list of sinks, one sink failure, one crash | four invariants, one action property, two leads-to properties (131,957 states) |
| `libraries` | sixteen documents over three custom names and one of a starter, three removals; every call of a dispatched action with up to two arguments; four resources, two actors, two events; every default action, command and rule of every shape in a file, three overrides | three invariants, three action properties and the refinement of `Bindings` (432,738 states) |
| `proxy_drain`, `proxy_clean_exit`, `slack_secret`, `slack_panic`, `custom_primary_arg` | as above | statements of the documentation the code does not keep, section 5 |

### Bounds, and why they suffice

- *Two frames per session.* Interference between frames needs two of them: one in pump A's hands,
  one on its way through the child and pump B. What each kind does alone and next to a forwarded
  call is covered by the choice of sessions. The theorems of section 6 hold for any number.
- *One swap (`MaxUpdates`)*: every window in the pipeline (before the load, between the two loads)
  is hit by a single swap; a second only repeats it.
- *`PipeCap`* 2 lets pump B lag behind by more than a message; 1 makes every writer block, which
  is what the liveness run is after.
- *`MaxGestures` 2* (1 for liveness): one late or stale answer and one proper one. *Two requests*: one
  stale reader or click and one live request. *Two sections*: every pair of kinds, so each kind is
  tried before and after each; the theorems hold for lists of any length.
- *`MaxTicks` 2, `MaxFaults` 1, `MaxCrashes` 1*: a tick before and one during `Close`; a single
  fault already leaves the sinks unequal; a crash exposes what was not synced before it.
- *Rules*: two rules of every shape show each pair of ranks in both orders; triples let one rule
  move past two in the insertion sort. The theorems hold for rule lists of any length.
- *Documents*: each way a declaration can fail once, a document with a sound declaration before an
  unsound one, one with a free name before a taken one, and one that repeats a name. The catalog's state
  space is finite, so loads and removals of any length are covered.
- *Two arguments per call*: no action has more than two required ones.
- *Resources 4, actors and events 2*: the array behind the resources grows from one to two to four,
  so an append in place happens with an event built before it.
- *Five tools*: a boundary present or missing on either side of the verb, and a name each kind of folding
  changes.

Deadlock is checked for the policy engine and for `libraries`. The other models really stop: the process ends, or every
request is served and the bounds are used up.

### Fairness

- *Proxy*: weak fairness of both pumps, of `Run`, of the effect of a kill, and of the child
  taking frames from its stdin: goroutines are scheduled, SIGKILL works, an upstream that is
  alive reads. No fairness for the agent, for signals or for the child's end. An agent that never drains stdout blocks the pump that writes
  to it, and the process with it, whatever the code does; the properties say so in their
  premise (`AgentDrains`).
- *Approval*: weak fairness of `Approve`, of each channel's own steps, which include the terminal's
  timer and the two-second wait, and of the deadline. None for the operator, the approver, or
  the event loop: nobody has to answer.
- *Audit*: the holder of the mutex goes on (sinks return); each writer gets the mutex in the end
  (strong fairness: Go's mutex hands over to a waiter that has starved for a millisecond); a
  `Close` past its critical section goes on; the heartbeat's `select`, which picks at random
  among ready cases, takes the closed `stopCh` in the end (strong). None for calling `Emit`
  or `Close`, for ticks, faults or crashes.

## 4. Properties worth reading first

- `Proxy!ImplementsGate`: five goroutines and processes, and a policy swap at any moment, come
  down to *decide once, then forward or refuse accordingly*.
- `Proxy!AuditPrecedesEffect`: at no moment has the upstream or the agent seen an outcome the
  trail does not already hold.
- `Proxy!RelayedInOrder`: the *n*-th child message that reaches the agent is the *n*-th the child
  wrote, and while the pipe is open and pump B lives none is missing between the two.
- `Proxy!AllowedIsForwardedOrLast`: a call the trail allows but the upstream never saw is the last
  thing pump A ever did.
- `Catalog!ImplementsBindings`, `LoadKeepsAPrefix`: over loads that fail half-way, removals, and a
  compiler that forgets nothing.
- `Backend!ValidatedCallsComplete`: schema, target extraction and dispatch agree on every argument.
- `EventBuilder!BuiltEventsAreFrozen`: whatever is appended to a builder's shared array afterwards.
- `Startup!ServesWhatWasConfigured`: what serves is a validated file under its overrides, and the
  engine answers every call as that file, read without compiling or sorting, says.
- `PolicyEngine!AnswersOnePolicyInForce`: an evaluation's answer is promised by one config that
  was in force between its call and its return.
- `Workflow!ImplementsGate`: late lines, stale tokens and clicks on dead prompts never approve
  something nobody approved, and the hook reports what was returned.
- `AuditEmitter!AcknowledgedIsDurable`, `SinksAgree`: over partial fan-out, failed syncs and crashes.

Every property has a mutant in the module it is about: a definition next to the mapped one,
introduced by `Slip:`, that changes it as a plausible bug would and makes the property fail.

## 5. Where the code and its documentation disagree

Each has a run whose counterexample shows it.

- **`proxy_drain`**: `Shutdown` may end the process between the header and the body of a frame,
  contrary to "drains in-flight writes" (`proxy/proxy.go:22-24`); `SIGHUP`, which `README.md:112` says reloads
  "without dropping in-flight requests", calls the same `Shutdown`.
- **`proxy_clean_exit`**: after an orderly end of stdin, `Run` kills the child and returns the kill as
  an error, contrary to `proxy/proxy.go:151-152`.
- **`slack_secret`**: `newChannel` gives the secret to the terminal only, so Slack's Approve denies,
  contrary to `approval/slack.go:106-107`. (`SlackGetsSecret` also covers a channel built with it,
  as the package's tests do; the other properties hold for both.)
- **`slack_panic`**: a click looked up just before its request times out is sent on a closed channel
  and panics, contrary to `approval/slack.go:372-373` and `:84-85`.
- **`custom_primary_arg`**: the loader drops a custom action's `primary_arg` (`catalog/loader.go:213-220`), so
  the policy sees an empty target for it, contrary to `catalog/types.go:130-131` and
  `custom_actions.example.yaml:30`.

Met while modelling, without a run of their own:

- *Proxy and policy.* A refusal quotes the policy version of a second load (`proxy/intercept.go:241`), not
  of the snapshot that decided, contrary to `policy/types.go:11-13`; `DecisionIsFresh` holds
  nevertheless, as it only says that each of the two was in force since the frame was read. The comments on Cyrillic look-alikes (`policy/destructive.go:45-48`) expect NFKC to
  fold them, which it does not; the printable-ASCII test of `Evaluate` is what stops them.
- *Catalog and back end.* There is neither the name-based fallback nor the start-up warning of
  `catalog/types.go:131-134`. A load that failed half-way leaves its prefix, so loading the corrected document
  fails with `ErrActionExists` until the prefix is removed. `mapSDKError` searches the error's text
  where `falcon/hosts.go:19-20` says it goes by the HTTP status. `backend.go:152-155` asks for `ErrNotFound` when
  the target is missing, and the client returns a plain error.
- *Start-up.* `README.md:100` offers positional arguments for use without a config file, but `runRoot`
  loads the file first and fails. `config.Parse`'s comment (`config/loader.go:41`) says that it validates;
  only `Load` does. An override of empty words bypasses the check the file's command is put through.
  Custom actions and hot reload are not wired in.
- *Approval.* A terminal request that timed out leaves its reader at the terminal
  (`approval/terminal.go:189`), contrary to `approval/terminal.go:5-7`, and swallows the next line. A click made
  after the prompt is posted and before the request is registered (`approval/slack.go:241`) is dropped as one
  for an unknown or expired request, where `approval/slack.go:19-26` maps every click to a decision. The expired prompt keeps its
  buttons, since the update is given the context that has just ended (`approval/slack.go:264`); the
  hook names the last channel on a timeout where `approval/workflow.go:180-182` says the name is
  empty; `README.md:140` calls tokens single-use and bound to action and target, while `SignToken`
  binds the request id alone; the terminal prompt shows eight characters of a token that must be
  typed in full, and the production prompt never names the tool (`approval/workflow.go:156`);
  `config.example.yaml`'s first channel carries no secret, so `NewWorkflow` rejects it although a
  later channel has one.
- *Audit.* A torn line swallows the next record's line structure; `fileSink.Close` returns nil the
  second time where its comment says an error (`audit/sink.go:178-184`).

## 6. Proofs

Every safety invariant, action property and refinement that a passing run checks is a theorem, for
every value of the constants: any set of frames, tools, targets, policies, callers, requests,
sinks and documents, rule lists of any length, pipes of any capacity, any number of swaps,
gestures, crashes and faults. `PROJECT.json` lists the theorems with the property each one states.

### Assumptions

Each is a named ASSUME of the module that declares the constants, and TLC evaluates it on every run.

| Assumption | Says | Because in the code |
|---|---|---|
| `PolicyAssumption` | the predicate sets are sets of tools; the empty target is no target | they are predicates of the tool name; `""` stands for *no target* |
| `EngineAssumption` | a config has a default and a list of rules; a nil config is none | the types of `policy.Config` |
| `VerbAssumption`, `NameAssumption` | a verb is a non-empty word without separators; names are spelled in runes; the destructive tools are those the scan finds | the list in `policy/destructive.go`; NFKC turns a rune into runes |
| `ProxyAssumption` | frames and policies are well formed, `None` is none of them, pipes hold at least one frame | placeholders of the model |
| `TypesAssumption`, `PlaceholderAssumption` | positions are numbers; the placeholders are no tokens, secrets, lines or clicks | indices of a slice; `nil` and `""` |
| `ApprovalAssumption` | a configuration is a list of sections at `Positions`, an option and the requests asked; the bound on gestures is a number | the type of `config.Approval`; no restriction on the sections |
| `AuditAssumption` | the list of sinks is not empty, names no sink twice, and has the file last; writers differ from closers | `audit.New` always adds stderr and appends the file after the streams |
| `DocumentAssumption`, `StarterAssumption` | a document is a list of declarations; the starter actions are valid | a YAML sequence; `catalog.New` panics otherwise |
| `EventAssumption` | 0 is no time a caller passes in | the zero `time.Time` |
| `StartupAssumption` | the ways a file can be, and what flags can say | `config.Load`, `cli/root.go` |

### Proxy

`ProxyProofs` proves `TypeOK` action by action (it includes that a pump past its read holds a
frame, without which the later steps are not even well typed). None of the safety properties is
inductive: each speaks of what is already on the pipes, and a step adds what a program counter
promises. `ProxyInvariant` says what the counters promise, in four parts.

- `FateInv` (`ProxySafetyProofs`): the mutex belongs to the pump inside `writeToAgent`, and an odd
  number of chunks means that the last is the header of exactly the message that pump is about to
  complete; a frame not yet read has left no trace; the frame in hand has, for each place of pump A,
  exactly the history that place implies. From it `StdoutFramed`, `OneOutcomePerFrame`,
  `AuditPrecedesEffect` and `UpstreamSeesOnlyAllowedCalls`.
- `RunTrail`: `Run` writes the first event and, leaving its wait, the shutdown event. With it
  `RunReapsChild` and `AuditMarksRun`: startup is first, the shutdown event comes once, after the wait and
  before the return. It need not be last: pump A handles and logs what it reads until the process exits.
- `PumpAHands`: what pump A answers, the deciding snapshot or the catalog did refuse; a policy installed
  meanwhile is in the frame's window. With it `DecisionIsFresh` and `AllowedIsForwardedOrLast`.
- `ChildRest`: what pump B has yet to read is the rest of what the child wrote, or the front of
  it once `cmd.Wait` has closed the pipe. It carries `RelayedInOrder`, which counts messages on stdout:
  a header of the child's adds one to the count, and everything else leaves it alone.

`ProxyImplementsGate` is the refinement: a call's verdict, as `CallGate` sees it, is a function of
the trail, `decidedBy` and the pipes; one lemma per kind of effect says which verdict it moves
(a decision, a forward, an answer), and every other step is a stutter or a swap of the policy.

### Policy engine

- `SortIsStable`: the insertion sort of `Compile` yields a permutation of the rules, ranks descending,
  equal ranks in the order they were written.
- `EvaluateAsPromised` (`PolicyProofs`): the three phases over the sorted list answer what `Says`, a
  definition without sorting, does: the verdict of the first among the most specific rules that match. With `EngineInvariant`
  (every snapshot in flight is the compiled form of a config in that call's window)
  it gives `OnePolicyAnswers`.
- `GateIsWordwise`: the scan of `IsDestructiveTool`, with its look at both neighbours of a match, finds a
  verb exactly if some whole word of the folded name is one. With it, and the previous, `DestructiveVerbsStopped`.

### Approval

`WorkflowInvariant!IInv` says how far each `Approve` has come: every channel before its place was tried
and gave no definitive answer, no later one was touched (`Search`), a channel works only for an `Approve`
that waits for it (`Called`), and a *yes* travelling towards a result, in whichever terminal reader,
click queue or buffer, was said of the request its token or id names (`TerminalConsent`,
`SlackConsent`). `FirstAnswerDecides`, `NoEntryLeftBehind` and `SlackDecidesByClick` follow;
`WorkflowImplementsGate` adds that only a return appends to the hook, and that it appends what it returns.

### Audit

`AuditInvariant!IInv`: the record in the fan-out is the last one made and nothing failed yet
(`CurrentRecord`); `Close` moves on only behind the mutex and behind the heartbeat (`ClosingInOrder`); what a nil
that `Emit` is about to return rests on is durable already (`Promised`); each sink that the fan-out has passed
holds the record, each later one only older ones (`Spread`). It holds over torn writes and both kinds of
crash. From it `AcknowledgedSurvives`, `SinksTellOneStory`, `NothingAfterClose` and the action
property `RestartKeepsHistory`.

### Packages

- Catalog: `decodeAll` and `addAll` stop at the first failure, so the map after a load is the map before it
  with a prefix of the document's names on top (`LoadsInsertAPrefix`); a fold of inserts is a chain of
  `Bind` steps, the refinement `CatalogImplementsBindings`; `OpenedByDeclaration` is the posture's side of it.
- `ValidatedCallsDispatch`: the schemas of the five starters, the target extraction and the argument checks of the
  vendor methods agree.
- `BuiltEventsStay`: a built event reads no cell that is still free for an append, whether the append is in place or
  into a grown copy. The invariant is about which cells of the heap events and builder share.
- `ServesTheFile`: what serves is the validated file, but for the command and the audit flag where the command
  line gives them; with `EvaluateAsPromised`, the engine's answer to every call is what that file says of it.
- `EachOnItsOwn`, `PackagesStaySound`: the composition gives each package its own specification, so the
  theorems about each hold of `Libraries!Spec`.

### How recursion is reasoned about

The sort, the folding, the loader's two loops and the scan are recursive *functions* over positions.
That such a function exists, and what it computes, is proved by the least counterexample: lemma `UpTo` of `PolicyProofs` (what
holds of every position once it holds of those before it holds of all) rests on `FirstExists`, the well-order
of the naturals over sets of positions.

### Model-checked only

Liveness: the five leads-to properties of `proxy_liveness`, `EveryApproveReturns`, and `CloseReturns` and
`EmitReturns` of `audit`. They need `ENABLED` and fairness, which this prover does not handle. The five
statements of section 5 are refuted by TLC and need no proof.

## 7. Not modelled

The text of frames, prompts, messages and audit events, and YAML and JSON syntax beyond *parses* and
*does not*. JSON Schema keywords the starter actions do not use. What NFKC does to each rune (the
constant `Folded`). The rows the Falcon client shapes a result into, `Registry.Names`, and a caller who
goes on writing to the slice it gave `WithFindingTypes`. Signature
verification of Slack's HTTP mode, which only tests call, and the build's version strings. Concurrent
use of one catalog or builder, which neither is made for. Two Slack
sections whose secrets differ (none is given one at this commit). Writes to the child of less than a frame: a pipe to a dying reader loses the tail either way.

## 8. Plan

1. `Policy`, `PolicyEngine`, `CallGate`, `Proxy` with its runs: modelled, checked, safety and refinement proved.
2. `ApprovalTypes`, `TerminalChannel`, `SlackChannel`, `ApprovalGate`, `Workflow`: the same.
3. `AuditEmitter`: the same.
4. `VerbGate`, `NamedEngine`, `Catalog` with `Bindings`, `Backend`, `EventBuilder`, `Startup`: the same.
5. To come. `AcknowledgedIsDurable` with a word about lines that can be parsed, should the sink learn to recover from a
   torn record; the safety halves of
   the liveness arguments, as for `Close` that nobody holds the mutex while waiting for it. Shorter proofs where a
   lemma would serve two components.
