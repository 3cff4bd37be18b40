------------------------------ MODULE Workflow ------------------------------
(***************************************************************************)
(* approval.Workflow over its channels.  NewWorkflow builds it from        *)
(* the configuration; Approve, called by one goroutine per request, signs  *)
(* the request's token and asks the channels one after the other until one *)
(* answers, all under one context with the request's deadline.             *)
(***************************************************************************)
EXTENDS ApprovalTypes

CONSTANTS Configs,         \* what a process may start with: see config
          SlackGetsSecret, \* whether the Slack channel is built with the
                           \* workflow's secret: NewSlackChannel never does,
                           \* the package's tests build it with one
          MaxGestures      \* bound: lines typed and clicks made

\* A section of the configuration; env says what signing_secret_env names:
\* "none", an "unset" variable or a "set" one.
Sections == [type: STRING, env: {"none", "unset", "set"}, literal: BOOLEAN,
             creds: BOOLEAN]

ChannelName(ch) == IF ch.type = "slack" THEN "slack" ELSE "terminal"

ASSUME ApprovalAssumption ==
  /\ Configs \subseteq [channels: Seq(Sections), option: BOOLEAN, asked: SUBSET Requests]
  /\ \A c \in Configs : DOMAIN c.channels \subseteq Positions
  /\ SlackGetsSecret \subseteq BOOLEAN
  /\ MaxGestures \in Nat
VARIABLES
  config,    \* the channels section, whether WithSecret is given, and the
             \* requests that will be put to the workflow
  workflow,  \* "unbuilt", "ready", "failed"
  secret,    \* Workflow.secret
  channels,  \* names of Workflow.channels, in order
  apc,       \* per request, its Approve: "idle", "loop", "calling", "done"
  next,      \* per request: the index of the channel to try
  decided,   \* per request: what Approve returned, "open" before
  hook,      \* calls of the audit hook, in order
  said,      \* history: <<request, verdict>> a human gave on some channel
  gestures,  \* how many lines and clicks so far, for MaxGestures
  ctx, token,
  termSecret, tpc, tres, prompted, typed, ttyOpen, readers, line,
  slackSecret, spc, sres, socket, closed, message, pending, box, events,
  sending, panic

T == INSTANCE TerminalChannel
S == INSTANCE SlackChannel

ASSUME PlaceholderAssumption ==
  None \notin T!LineType \cup S!ClickType \cup S!ActionIDs

builtVars   == <<config, workflow, secret, channels, termSecret, slackSecret>>
approveVars == <<apc, next, decided, hook, ctx, token>>
termVars    == <<tpc, tres, prompted, typed, ttyOpen, readers, line>>
slackVars   == <<spc, sres, socket, closed, message, pending, box, events,
                 sending, panic>>
humanVars   == <<said, gestures>>
vars == <<builtVars, approveVars, humanVars, termVars, slackVars>>

Init ==
  /\ config \in Configs
  /\ workflow = "unbuilt" /\ secret = NoSecret /\ channels = <<>>
  /\ termSecret = NoSecret /\ slackSecret = NoSecret
  /\ apc = [r \in Requests |-> "idle"] /\ next = [r \in Requests |-> 1]
  /\ decided = [r \in Requests |-> "open"] /\ hook = <<>>
  /\ said = {} /\ gestures = 0
  /\ ctx = [r \in Requests |-> "none"] /\ token = [r \in Requests |-> NoToken]
  /\ T!Init /\ S!Init

-----------------------------------------------------------------------------
(* NewWorkflow *)

loadSecret(ch) ==
  IF ch.env = "set" THEN "env"
  ELSE IF ch.env = "none" /\ ch.literal THEN "literal" ELSE NoSecret

\* Only the first channel is asked.
WorkflowSecret(c) ==
  IF c.option THEN "option" ELSE loadSecret(c.channels[1])

\* newChannel succeeds.
Constructible(ch) ==
  \/ ch.type \in {"terminal", ""}
  \/ ch.type = "slack" /\ ch.creds

NewWorkflow ==
  /\ workflow = "unbuilt"
  /\ config.channels # <<>> /\ WorkflowSecret(config) # NoSecret
  /\ \A i \in DOMAIN config.channels : Constructible(config.channels[i])
  /\ workflow' = "ready"
  /\ secret' = WorkflowSecret(config)
  /\ channels' = [i \in DOMAIN config.channels |-> ChannelName(config.channels[i])]
  /\ termSecret' = secret'
  /\ slackSecret' \in {IF given THEN secret' ELSE NoSecret : given \in SlackGetsSecret}
  /\ UNCHANGED <<config, approveVars, humanVars, termVars, slackVars>>

NewWorkflowFails ==
  /\ workflow = "unbuilt"
  /\ \/ config.channels = <<>>
     \/ config.channels # <<>> /\ WorkflowSecret(config) = NoSecret
     \/ \E i \in DOMAIN config.channels : ~Constructible(config.channels[i])
  /\ workflow' = "failed"
  /\ UNCHANGED <<config, secret, channels, termSecret, slackSecret, approveVars,
                 humanVars, termVars, slackVars>>

-----------------------------------------------------------------------------
(* Approve *)

\* fireHook, then return; the deferred cancel ends the request's context.
Return(r, d, channel) ==
  /\ decided' = [decided EXCEPT ![r] = d]
  /\ hook' = Append(hook, [id |-> r, decision |-> d, channel |-> channel])
  /\ apc' = [apc EXCEPT ![r] = "done"]

Approve(r) ==
  /\ workflow = "ready" /\ apc[r] = "idle" /\ r \in config.asked
  /\ LET signed == SignToken(r, secret) IN
     IF signed = NoToken
     THEN Return(r, "error", "") /\ UNCHANGED <<next, ctx, token>>
     ELSE /\ token' = [token EXCEPT ![r] = signed]
          /\ ctx' = [ctx EXCEPT ![r] = "live"]
          /\ apc' = [apc EXCEPT ![r] = "loop"]
          /\ UNCHANGED <<next, decided, hook>>
  /\ UNCHANGED <<builtVars, humanVars, termVars, slackVars>>

\* The request's deadline passes, or the caller cancels: the channels cannot
\* tell the two apart.
ContextEnds(r) ==
  /\ ctx[r] = "live" /\ apc[r] \in {"loop", "calling"}
  /\ ctx' = [ctx EXCEPT ![r] = "done"]
  /\ UNCHANGED <<builtVars, apc, next, decided, hook, token, humanVars, termVars, slackVars>>

\* The call Approve makes, or is in.
Current(r) == Call(next[r], r)

\* Whether a call has returned, and what it returned.
Over(k) == IF channels[k.at] = "terminal" THEN tpc[k] = "done" ELSE spc[k] = "done"
ResultOf(k) == IF channels[k.at] = "terminal" THEN tres[k] ELSE sres[k]

CallChannel(r) ==
  /\ apc[r] = "loop" /\ next[r] <= Len(channels)
  /\ apc' = [apc EXCEPT ![r] = "calling"]
  /\ \/ channels[next[r]] = "terminal" /\ T!Request(Current(r)) /\ UNCHANGED slackVars
     \/ channels[next[r]] = "slack" /\ S!Request(Current(r)) /\ UNCHANGED termVars
  /\ UNCHANGED <<builtVars, next, decided, hook, ctx, token, humanVars>>

\* Slip: the error is ignored and the decision that came with it counts.
ChannelReturnsIgnoringError(r) ==
  /\ apc[r] = "calling" /\ Over(Current(r))
  /\ Return(r, ResultOf(Current(r)).decision, channels[next[r]])
  /\ ctx' = [ctx EXCEPT ![r] = "done"]
  /\ UNCHANGED <<builtVars, next, token, humanVars, termVars, slackVars>>

\* An error counts as the decision error; only approve and deny end the loop.
ChannelReturns(r) ==
  /\ apc[r] = "calling" /\ Over(Current(r))
  /\ LET result == ResultOf(Current(r))
         d      == IF result.err THEN "error" ELSE result.decision
     IN  \/ /\ IsDefinitive(d)
            /\ Return(r, d, channels[next[r]])
            /\ ctx' = [ctx EXCEPT ![r] = "done"] /\ UNCHANGED next
         \/ /\ ~IsDefinitive(d)
            /\ next' = [next EXCEPT ![r] = @ + 1]
            /\ apc' = [apc EXCEPT ![r] = "loop"]
            /\ UNCHANGED <<decided, hook, ctx>>
  /\ UNCHANGED <<builtVars, token, humanVars, termVars, slackVars>>

\* The loop is over: deny by timeout, under the name of the last channel.
NobodyDecided(r) ==
  /\ apc[r] = "loop" /\ next[r] > Len(channels)
  /\ Return(r, "timeout", channels[Len(channels)])
  /\ ctx' = [ctx EXCEPT ![r] = "done"]
  /\ UNCHANGED <<builtVars, next, token, humanVars, termVars, slackVars>>

-----------------------------------------------------------------------------
(* The channels at work, and the humans at them *)

TerminalStep(k) == T!Step(k) /\ UNCHANGED <<builtVars, approveVars, humanVars, slackVars>>
SlackStep(k)    == S!Step(k) /\ UNCHANGED <<builtVars, approveVars, humanVars, termVars>>
SlackLoop(j)    == S!Loop(j) /\ UNCHANGED <<builtVars, approveVars, humanVars, termVars>>
SlackClose(j)   == S!Close(j) /\ UNCHANGED <<builtVars, approveVars, humanVars, termVars>>
HangUp          == T!HangUp /\ UNCHANGED <<builtVars, approveVars, humanVars, slackVars>>

Gesture == gestures < MaxGestures /\ gestures' = gestures + 1

\* A line with a request's token is a verdict on that request.
OperatorTypes ==
  /\ Gesture
  /\ \E verb \in {"y", "n"}, r \in prompted, whole \in BOOLEAN :
       /\ T!OperatorTypes(verb, IF whole THEN token[r] ELSE NoToken)
       /\ said' = IF whole
                  THEN said \cup {<<r, IF verb = "y" THEN "approve" ELSE "deny">>}
                  ELSE said
  /\ UNCHANGED <<builtVars, approveVars, slackVars>>

\* What a click says: any button but Approve is a refusal.
Meaning(action) == IF action = "approve" THEN "approve" ELSE "deny"

ApproverClicks ==
  /\ Gesture
  /\ \E k \in Calls, action \in S!ActionIDs :
       /\ S!ApproverClicks(k, action)
       /\ said' = said \cup {<<k.id, Meaning(action)>>}
  /\ UNCHANGED <<builtVars, approveVars, termVars>>

\* A panic in any goroutine ends the process.
Next ==
  /\ panic = "no"
  /\ \/ NewWorkflow \/ NewWorkflowFails
     \/ \E r \in Requests :
          \/ Approve(r) \/ ContextEnds(r) \/ CallChannel(r) \/ ChannelReturns(r)
          \/ NobodyDecided(r)
     \/ \E k \in Calls : TerminalStep(k) \/ SlackStep(k)
     \/ \E j \in DOMAIN channels : channels[j] = "slack" /\ (SlackLoop(j) \/ SlackClose(j))
     \/ HangUp \/ OperatorTypes \/ ApproverClicks

Spec == Init /\ [][Next]_vars

\* Approve's goroutine keeps running and its deadline passes; the terminal's
\* timer fires; Slack's calls return, since they carry the context.
Fairness ==
  /\ \A r \in Requests :
       /\ WF_vars(panic = "no" /\ (CallChannel(r) \/ ChannelReturns(r) \/ NobodyDecided(r)))
       /\ WF_vars(panic = "no" /\ ContextEnds(r))
  /\ \A k \in Calls :
       /\ WF_vars(panic = "no" /\ TerminalStep(k))
       /\ WF_vars(panic = "no" /\ SlackStep(k))

FairSpec == Spec /\ Fairness

-----------------------------------------------------------------------------
(* Properties *)

HookEvents == [id: Requests, decision: Decisions, channel: {"", "terminal", "slack"}]

\* What NewWorkflow leaves behind; a ready workflow has a secret and a channel.
BuiltType ==
  /\ config \in Configs /\ workflow \in {"unbuilt", "ready", "failed"}
  /\ secret \in Secrets \cup {NoSecret} /\ termSecret = secret
  /\ slackSecret \in {NoSecret, secret}
  /\ channels \in Seq({"terminal", "slack"}) /\ DOMAIN channels \subseteq Positions
  /\ IF workflow = "ready" THEN secret # NoSecret /\ channels # <<>>
                           ELSE secret = NoSecret

ApproveType ==
  /\ apc \in [Requests -> {"idle", "loop", "calling", "done"}]
  /\ next \in [Requests -> Nat \ {0}]
  /\ \A r \in Requests : /\ next[r] <= Len(channels) + 1
                         /\ apc[r] = "calling" => next[r] \in DOMAIN channels
  /\ decided \in [Requests -> Decisions \cup {"open"}]
  /\ hook \in Seq(HookEvents) /\ said \subseteq Requests \X {"approve", "deny"}
  /\ gestures \in Nat
  /\ ctx \in [Requests -> {"none", "live", "done"}]
  /\ token \in [Requests -> Tokens \cup {NoToken}]
  /\ \A r \in Requests : token[r] \in {NoToken, SignToken(r, secret)}

TypeOK == BuiltType /\ ApproveType /\ T!TypeOK /\ S!TypeOK

\* The workflow, its channels and the people at them implement ApprovalGate:
\* one decision and one equal report per request, approve only by consent to
\* that very request, on whatever channel and however late the answer comes.
Gate == INSTANCE ApprovalGate WITH
  consented <- {r \in Requests : <<r, "approve">> \in said},
  reported  <- [i \in DOMAIN hook |-> <<hook[i].id, hook[i].decision>>]

ImplementsGate == Gate!Spec

\* Channels are asked in order; the first definitive answer is the decision and
\* ends the search; without one every channel has been asked.
AnswerOf(k) ==
  LET result == ResultOf(k)
  IN  IF result = None THEN "none" ELSE IF result.err THEN "error" ELSE result.decision

FirstDefinitiveWins ==
  \A r \in Requests : apc[r] = "done" /\ token[r] # NoToken =>
    \/ \E i \in DOMAIN channels :
         /\ decided[r] = AnswerOf(Call(i, r)) /\ IsDefinitive(decided[r])
         /\ \A j \in 1..(i - 1) : AnswerOf(Call(j, r)) \in {"timeout", "error"}
         /\ \A j \in (i + 1)..Len(channels) : AnswerOf(Call(j, r)) = "none"
    \/ /\ decided[r] = "timeout"
       /\ \A i \in DOMAIN channels : AnswerOf(Call(i, r)) \in {"timeout", "error"}

\* Slack's maps of pending requests hold the requests that wait, and no others:
\* no way out of Request leaves an entry behind.
PendingIsWaiting ==
  pending = {k \in Calls :
               spc[k] \in {"wait", "approver", "respond", "deregister"}}

\* A Slack channel that has the workflow's secret decides as the approver
\* clicked on that very request.
SlackDecidesAsClicked ==
  slackSecret = secret => \A i \in DOMAIN hook : hook[i].channel = "slack" =>
    hook[i].decision = "timeout" \/ <<hook[i].id, hook[i].decision>> \in said

\* Every Approve returns, whatever the operator, the approver and Slack do,
\* unless a panic took the process down.
EveryApproveReturns ==
  \A r \in Requests : (apc[r] = "loop") ~> (apc[r] = "done" \/ panic # "no")

-----------------------------------------------------------------------------
(* Statements of the documentation the code does not keep *)

\* slack.go:106-107: "both channels share the same workflow-scoped secret", so
\* a click on Approve approves and deny is the answer to another click.
ApproveClickApproves ==
  \A i \in DOMAIN hook : hook[i].channel = "slack" /\ hook[i].decision = "deny" =>
    <<hook[i].id, "deny">> \in said

\* slack.go:84-87: the channel is safe across concurrent Requests; :372-373: a
\* click for a Request that has returned is dropped.
LateClickIsDropped == panic # "send"
=============================================================================
