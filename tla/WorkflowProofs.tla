--------------------------- MODULE WorkflowProofs ---------------------------
(***************************************************************************)
(* Proofs about Workflow and its two channels, for every set of requests,  *)
(* every configuration and any number of lines and clicks.                 *)
(***************************************************************************)
EXTENDS WorkflowInvariant, SequenceTheorems, TLAPS

-----------------------------------------------------------------------------
(* Types *)

\* The channels speak the workflow's vocabulary.
LEMMA Vocabulary ==
  /\ T!Results = Results /\ T!Tokens = Tokens /\ S!Results = Results
  /\ \A d, failed : /\ T!Result(d, failed) = Result(d, failed)
                    /\ S!Result(d, failed) = Result(d, failed)
  /\ \A r, tok, s : /\ T!VerifyToken(r, tok, s) = VerifyToken(r, tok, s)
                    /\ S!VerifyToken(r, tok, s) = VerifyToken(r, tok, s)
BY DEF T!Results, S!Results, Results, T!Decisions, S!Decisions, Decisions, T!Tokens,
   Tokens, T!Secrets, Secrets, T!Result, S!Result, Result, T!VerifyToken,
   S!VerifyToken, VerifyToken, T!SignToken, S!SignToken, SignToken

LEMMA SameCalls == T!Calls = Calls /\ S!Calls = Calls
BY DEF T!Calls, S!Calls, Calls

LEMMA SameCall == \A j, r : S!Call(j, r) = Call(j, r)
BY DEF S!Call, Call

\* A call is its section and its request.
LEMMA CallIs ==
  /\ \A j \in Positions, r \in Requests : Call(j, r) \in Calls
  /\ \A j, r : Call(j, r).at = j /\ Call(j, r).id = r
  /\ \A k \in Calls : /\ k.at \in Positions /\ k.id \in Requests
                      /\ k = Call(k.at, k.id)
BY DEF Call, Calls

LEMMA SignType ==
  ASSUME NEW r \in Requests, NEW s \in Secrets \cup {NoSecret}
  PROVE  /\ SignToken(r, s) \in Tokens \cup {NoToken}
         /\ SignToken(r, s) # NoToken => SignToken(r, s).id = r
         /\ SignToken(r, NoSecret) = NoToken
BY DEF SignToken, Tokens

LEMMA ResultType ==
  ASSUME NEW d \in Decisions, NEW failed \in BOOLEAN
  PROVE  /\ Result(d, failed) \in Results /\ Result(d, failed) # None
         /\ Result(d, failed).decision = d /\ Result(d, failed).err = failed
BY TypesAssumption DEF Result, Results

LEMMA LineTyped ==
  ASSUME NEW verb \in {"y", "n", "error"}, NEW tok \in Tokens \cup {NoToken}
  PROVE  /\ T!Line(verb, tok) \in T!LineType /\ T!Line(verb, tok) # None
         /\ T!Line(verb, tok).verb = verb /\ T!Line(verb, tok).token = tok
BY PlaceholderAssumption, Vocabulary DEF T!Line, T!LineType

LEMMA ClickTyped ==
  ASSUME NEW r \in Requests, NEW action \in S!ActionIDs
  PROVE  /\ S!Click(r, action) \in S!ClickType /\ S!Click(r, action) # None
         /\ S!Click(r, action).id = r /\ S!Click(r, action).action = action
BY PlaceholderAssumption DEF S!Click, S!ClickType

\* What an appended sequence holds.
LEMMA AppendHolds ==
  ASSUME NEW V, NEW s \in Seq(V), NEW e \in V, NEW i \in DOMAIN Append(s, e)
  PROVE  (i \in DOMAIN s /\ Append(s, e)[i] = s[i]) \/ Append(s, e)[i] = e
BY AppendProperties

LEMMA ParseType ==
  ASSUME NEW l, NEW r
  PROVE  T!parseTerminalResponse(l, r, termSecret) \in Decisions
BY DEF T!parseTerminalResponse, Decisions

LEMMA HandleType ==
  ASSUME NEW k, NEW action
  PROVE  S!handleInteraction(k, action) \in Decisions
BY DEF S!handleInteraction, Decisions

LEMMA TypeInit == Init => TypeOK
<1> SUFFICES ASSUME Init PROVE TypeOK
  OBVIOUS
<1> USE DEF Init
<1>1. BuiltType
  BY DEF BuiltType
<1>2. ApproveType
  BY DEF ApproveType
<1>3. T!TypeOK
  BY DEF T!TypeOK, T!Init
<1>4. S!TypeOK
  BY DEF S!TypeOK, S!Init
<1> QED  BY <1>1, <1>2, <1>3, <1>4 DEF TypeOK

\* What a step leaves alone keeps its type.
LEMMA TypeUnchanged ==
  ASSUME TypeOK
  PROVE  /\ UNCHANGED builtVars => BuiltType'
         /\ UNCHANGED <<approveVars, humanVars, channels, secret>> => ApproveType'
         /\ UNCHANGED termVars => T!TypeOK'
         /\ UNCHANGED slackVars => S!TypeOK'
<1>1. UNCHANGED builtVars => BuiltType'
  BY DEF TypeOK, BuiltType, builtVars
<1>2. UNCHANGED <<approveVars, humanVars, channels, secret>> => ApproveType'
  BY DEF TypeOK, ApproveType, approveVars, humanVars
<1>3. UNCHANGED termVars => T!TypeOK'
  BY DEF TypeOK, T!TypeOK, termVars
<1>4. UNCHANGED slackVars => S!TypeOK'
  BY DEF TypeOK, S!TypeOK, slackVars
<1> QED  BY <1>1, <1>2, <1>3, <1>4

LEMMA FinishType ==
  ASSUME T!TypeOK, NEW k \in Calls, NEW d \in Decisions, NEW failed \in BOOLEAN,
         T!Finish(k, T!Result(d, failed))
  PROVE  /\ tpc' \in [Calls -> {"idle", "prompt", "wait", "done"}]
         /\ tres' \in [Calls -> T!Results \cup {None}]
         /\ \A q \in Calls : tpc'[q] = "done" <=> tres'[q] # None
<1> USE SameCalls
<1>1. PICK v \in T!Results : v = T!Result(d, failed) /\ v # None
  BY Vocabulary, ResultType
<1>2. tpc' = [tpc EXCEPT ![k] = "done"] /\ tres' = [tres EXCEPT ![k] = v]
  BY <1>1 DEF T!Finish
<1> QED  BY <1>1, <1>2 DEF T!TypeOK

\* The terminal channel at work keeps its types.
LEMMA TerminalTypeStep ==
  ASSUME T!TypeOK, NEW k \in Calls, T!Request(k) \/ T!Step(k) \/ T!HangUp
  PROVE  T!TypeOK'
<1> USE SameCalls, CallIs DEF T!TypeOK, T!readerVars, T!callVars
<1>1. CASE T!Request(k)
  BY <1>1 DEF T!Request
<1>2. CASE T!HangUp
  BY <1>2 DEF T!HangUp
<1>3. CASE T!WritePrompt(k)
  <2>1. CASE T!Finish(k, T!Result("error", TRUE))
    <3>1. "error" \in Decisions
      BY DEF Decisions
    <3> QED  BY <1>3, <2>1, <3>1, FinishType DEF T!WritePrompt
  <2>2. CASE tpc' = [tpc EXCEPT ![k] = "wait"] /\ UNCHANGED tres
    BY <1>3, <2>2 DEF T!WritePrompt
  <2> QED  BY <1>3, <2>1, <2>2 DEF T!WritePrompt
<1>4. CASE T!ReaderGets(k)
  <2>1. /\ readers' \subseteq Calls
        /\ UNCHANGED <<tpc, tres, prompted, ttyOpen>>
    BY <1>4 DEF T!ReaderGets
  <2>2. CASE \E n \in 1..Len(typed) : /\ line' = [line EXCEPT ![k] = Head(typed)]
                                     /\ typed' = SubSeq(typed, n + 1, Len(typed))
    <3>1. PICK n \in 1..Len(typed) : /\ line' = [line EXCEPT ![k] = Head(typed)]
                                    /\ typed' = SubSeq(typed, n + 1, Len(typed))
      BY <2>2
    <3>2. typed # <<>> /\ Head(typed) \in T!LineType
      BY <3>1
    <3>3. SubSeq(typed, n + 1, Len(typed)) \in Seq(T!LineType)
      <4>1. \A i \in (n + 1)..Len(typed) : typed[i] \in T!LineType
        BY <3>1
      <4> QED  BY <3>1, <4>1, SubSeqProperties
    <3> QED  BY <2>1, <3>1, <3>2, <3>3
  <2>3. CASE /\ line' \in {[line EXCEPT ![k] = l] : l \in {T!EmptyLine, T!ReadError}}
             /\ UNCHANGED typed
    BY <2>1, <2>3, LineTyped DEF T!EmptyLine, T!ReadError
  <2> QED  BY <1>4, <2>2, <2>3 DEF T!ReaderGets
<1>5. CASE T!TakeLine(k)
  <2>1. PICK d \in Decisions, failed \in BOOLEAN : T!Finish(k, T!Result(d, failed))
    BY <1>5, ParseType DEF T!TakeLine, Decisions
  <2> QED  BY <1>5, <2>1, FinishType DEF T!TakeLine
<1>6. CASE T!ReadTimesOut(k)
  BY <1>6, FinishType DEF T!ReadTimesOut, Decisions
<1>7. CASE T!ContextDone(k)
  BY <1>7, FinishType DEF T!ContextDone, Decisions
<1> QED  BY <1>1, <1>2, <1>3, <1>4, <1>5, <1>6, <1>7 DEF T!Step

LEMMA OperatorTypesType ==
  ASSUME T!TypeOK, NEW verb \in {"y", "n"}, NEW tok \in Tokens \cup {NoToken},
         T!OperatorTypes(verb, tok)
  PROVE  T!TypeOK'
<1>1. typed \in Seq(T!LineType) /\ typed' = Append(typed, T!Line(verb, tok))
  BY DEF T!TypeOK, T!OperatorTypes
<1>2. typed' \in Seq(T!LineType)
  BY <1>1, LineTyped, AppendProperties
<1> QED  BY <1>2 DEF T!TypeOK, T!OperatorTypes, T!callVars

\* Where a Slack Request has something to return.
HasResult == {"approver", "respond", "deregister", "done"}

\* A Request that moves, with or without a result.
LEMMA GotoType ==
  ASSUME S!TypeOK, NEW k \in Calls,
         NEW label \in {"start", "starting", "post", "register", "wait"} \cup HasResult,
         S!Goto(k, label),
         \/ UNCHANGED sres /\ (spc[k] \in HasResult <=> label \in HasResult)
         \/ /\ label \in HasResult
            /\ \E d \in Decisions, failed \in BOOLEAN : S!Returning(k, d, failed)
  PROVE  /\ spc' \in [Calls -> {"idle", "start", "starting", "post", "register", "wait",
                                "approver", "respond", "deregister", "done"}]
         /\ sres' \in [Calls -> S!Results \cup {None}]
         /\ \A q \in Calls : sres'[q] # None <=> spc'[q] \in HasResult
<1> USE SameCalls
<1>1. spc' = [spc EXCEPT ![k] = label]
  BY DEF S!Goto
<1>2. CASE UNCHANGED sres /\ (spc[k] \in HasResult <=> label \in HasResult)
  BY <1>1, <1>2 DEF S!TypeOK, HasResult
<1>3. CASE /\ label \in HasResult
           /\ \E d \in Decisions, failed \in BOOLEAN : S!Returning(k, d, failed)
  <2>1. PICK v \in S!Results : sres' = [sres EXCEPT ![k] = v] /\ v # None
    BY <1>3, Vocabulary, ResultType DEF S!Returning
  <2> QED  BY <1>1, <1>3, <2>1 DEF S!TypeOK, HasResult
<1> QED  BY <1>2, <1>3

LEMMA SlackRequestType ==
  ASSUME S!TypeOK, NEW k \in Calls, S!Request(k) \/ S!Step(k)
  PROVE  S!TypeOK'
<1> USE SameCalls DEF S!loopVars, HasResult
<1>0. "error" \in Decisions /\ "timeout" \in Decisions
  BY DEF Decisions
<1>1. CASE S!Request(k)
  BY <1>1, GotoType DEF S!Request, S!TypeOK
<1>2. CASE S!EnsureSocket(k)
  BY <1>2, CallIs, GotoType DEF S!EnsureSocket, S!TypeOK
<1>3. CASE S!SocketStarted(k)
  BY <1>0, <1>3, GotoType DEF S!SocketStarted, S!TypeOK
<1>4. CASE S!Post(k)
  <2>1. message' \in [Calls -> {"none", "prompt", "confirmed"}]
    <3>1. message' \in {message, [message EXCEPT ![k] = "prompt"]}
      BY <1>4 DEF S!Post
    <3> QED  BY <3>1 DEF S!TypeOK
  <2>2. /\ UNCHANGED <<pending, box, socket, closed, events, sending, panic>>
        /\ spc[k] = "post"
        /\ \/ S!Goto(k, "register") /\ UNCHANGED sres
           \/ S!Goto(k, "done") /\ S!Returning(k, "error", TRUE)
    BY <1>4 DEF S!Post
  <2>3. /\ spc' \in [Calls -> {"idle", "start", "starting", "post", "register", "wait",
                             "approver", "respond", "deregister", "done"}]
        /\ sres' \in [Calls -> S!Results \cup {None}]
        /\ \A q \in Calls : sres'[q] # None <=> spc'[q] \in HasResult
    BY <1>0, <2>2, GotoType
  <2> QED  BY <2>1, <2>2, <2>3 DEF S!TypeOK
<1>5. CASE S!Register(k)
  BY <1>5, GotoType DEF S!Register, S!TypeOK
<1>6. CASE S!TakeClick(k)
  <2>1. S!handleInteraction(k, box[k]) \in Decisions
    BY HandleType
  <2>2. PICK label \in {"approver", "respond"} : S!Goto(k, label)
    BY <1>6 DEF S!TakeClick
  <2>3. /\ spc' \in [Calls -> {"idle", "start", "starting", "post", "register", "wait",
                                "approver", "respond", "deregister", "done"}]
        /\ sres' \in [Calls -> S!Results \cup {None}]
        /\ \A q \in Calls : sres'[q] # None <=> spc'[q] \in HasResult
    BY <1>6, <2>1, <2>2, GotoType DEF S!TakeClick
  <2> QED  BY <1>6, <2>3 DEF S!TakeClick, S!TypeOK
<1>7. CASE S!ResolveApprover(k)
  BY <1>7, GotoType DEF S!ResolveApprover, S!TypeOK
<1>8. CASE S!Respond(k)
  BY <1>8, GotoType DEF S!Respond, S!TypeOK
<1>9. CASE S!ContextDone(k)
  BY <1>0, <1>9, GotoType DEF S!ContextDone, S!TypeOK
<1>10. CASE S!Deregister(k)
  BY <1>10, GotoType DEF S!Deregister, S!TypeOK
<1> QED
  BY <1>1, <1>2, <1>3, <1>4, <1>5, <1>6, <1>7, <1>8, <1>9, <1>10 DEF S!Step

\* The event loop, Close and a click.
LEMMA SlackLoopType ==
  ASSUME S!TypeOK,
         \/ \E j \in Positions : S!Loop(j) \/ S!Close(j)
         \/ \E k \in Calls, action \in S!ActionIDs : S!ApproverClicks(k, action)
  PROVE  S!TypeOK'
<1> USE SameCalls
<1>1. ASSUME NEW j \in Positions, S!LookUp(j) PROVE S!TypeOK'
  <2>1. events[j] \in Seq(S!ClickType) /\ events[j] # <<>>
    BY <1>1 DEF S!LookUp, S!TypeOK
  <2>2. Head(events[j]) \in S!ClickType /\ Tail(events[j]) \in Seq(S!ClickType)
    BY <2>1
  <2>3. \E c \in S!ClickType \cup {None} : sending' = [sending EXCEPT ![j] = c]
    BY <1>1, <2>2 DEF S!LookUp
  <2> QED  BY <1>1, <2>2, <2>3 DEF S!LookUp, S!TypeOK
<1>2. ASSUME NEW j \in Positions, S!Send(j) PROVE S!TypeOK'
  <2>1. /\ sending[j].id \in Requests /\ sending[j].action \in S!ActionIDs
        /\ Call(j, sending[j].id) \in Calls
    BY <1>2, SameCall, CallIs DEF S!Send, S!TypeOK, S!ClickType
  <2> QED  BY <1>2, <2>1, SameCall DEF S!Send, S!TypeOK
<1>3. ASSUME NEW j \in Positions, S!LoopStops(j) \/ S!Close(j) PROVE S!TypeOK'
  BY <1>3 DEF S!LoopStops, S!Close, S!TypeOK
<1>4. ASSUME NEW k \in Calls, NEW action \in S!ActionIDs, S!ApproverClicks(k, action)
      PROVE  S!TypeOK'
  <2>1. PICK j \in Positions : events' = [events EXCEPT ![j] = Append(@, S!Click(k.id, action))]
    BY <1>4 DEF S!ApproverClicks
  <2>2. Append(events[j], S!Click(k.id, action)) \in Seq(S!ClickType)
    BY CallIs, ClickTyped, AppendProperties DEF S!TypeOK
  <2> QED  BY <1>4, <2>1, <2>2 DEF S!ApproverClicks, S!TypeOK
<1> QED  BY <1>1, <1>2, <1>3, <1>4 DEF S!Loop

\* A workflow that is built has a secret and a channel for each section.
LEMMA BuiltTypeStep ==
  ASSUME TypeOK, NewWorkflow
  PROVE  BuiltType'
<1> DEFINE cs == config.channels
<1>1. /\ config \in Configs /\ cs \in Seq(Sections) /\ cs # <<>>
      /\ WorkflowSecret(config) # NoSecret
      /\ DOMAIN cs \subseteq Positions
  BY ApprovalAssumption DEF TypeOK, BuiltType, NewWorkflow
<1>2. secret' \in Secrets
  <2>1. loadSecret(cs[1]) \in Secrets \cup {NoSecret}
    BY DEF loadSecret, Secrets
  <2>2. secret' = WorkflowSecret(config) /\ "option" \in Secrets
    BY DEF NewWorkflow, Secrets
  <2> QED  BY <1>1, <2>1, <2>2 DEF WorkflowSecret
<1>3. channels' = [i \in DOMAIN cs |-> ChannelName(cs[i])]
  BY DEF NewWorkflow
<1>4. Len(cs) \in Nat \ {0} /\ DOMAIN cs = 1..Len(cs)
  BY <1>1
<1>5. \A i \in DOMAIN cs : ChannelName(cs[i]) \in {"terminal", "slack"}
  BY DEF ChannelName
<1> HIDE DEF cs
<1>6. channels' \in Seq({"terminal", "slack"}) /\ channels' # <<>>
  <2>1. channels' \in [1..Len(cs) -> {"terminal", "slack"}]
    BY <1>3, <1>4, <1>5
  <2>2. DOMAIN channels' # {} /\ DOMAIN <<>> = {}
    BY <1>3, <1>4
  <2> QED  BY <1>4, <2>1, <2>2
<1>7. DOMAIN channels' \subseteq Positions
  BY <1>1, <1>3
<1>8. /\ workflow' = "ready" /\ termSecret' = secret' /\ slackSecret' \in {NoSecret, secret'}
      /\ config' = config
  BY DEF NewWorkflow
<1> QED  BY <1>1, <1>2, <1>6, <1>7, <1>8, TypesAssumption DEF BuiltType

\* Before a workflow is ready, no request has been put to it.
LEMMA UnreadyIsUnasked ==
  ASSUME Search, workflow # "ready", NEW r \in Requests, ApproveType
  PROVE  apc[r] = "idle" /\ Unasked(r)
BY DEF Search, Searched, ApproveType

\* Return reports the decision it records.
LEMMA ReturnType ==
  ASSUME TypeOK, NEW r \in Requests, NEW d \in Decisions,
         NEW channel \in {"", "terminal", "slack"}, Return(r, d, channel)
  PROVE  /\ decided' \in [Requests -> Decisions \cup {"open"}]
         /\ hook' \in Seq(HookEvents)
         /\ apc' \in [Requests -> {"idle", "loop", "calling", "done"}]
<1>1. [id |-> r, decision |-> d, channel |-> channel] \in HookEvents
  BY DEF HookEvents
<1>2. hook \in Seq(HookEvents)
  BY DEF TypeOK, ApproveType
<1>3. hook' \in Seq(HookEvents)
  BY <1>1, <1>2, AppendProperties DEF Return
<1> QED  BY <1>3 DEF Return, TypeOK, ApproveType

\* The call Approve is in.
LEMMA CurrentIs ==
  ASSUME TypeOK, NEW r \in Requests, next[r] \in DOMAIN channels
  PROVE  /\ Current(r) \in Calls /\ Current(r).at = next[r] /\ Current(r).id = r
         /\ channels[next[r]] \in {"terminal", "slack"}
<1>1. next[r] \in Positions /\ channels \in Seq({"terminal", "slack"})
  BY DEF TypeOK, BuiltType
<1> QED  BY <1>1, CallIs DEF Current

\* What a channel returned counts as a decision.
LEMMA AnswerType ==
  ASSUME TypeOK, NEW r \in Requests, apc[r] = "calling", Over(Current(r))
  PROVE  /\ next[r] \in DOMAIN channels /\ channels[next[r]] \in {"terminal", "slack"}
         /\ ResultOf(Current(r)) \in Results
         /\ AnswerOf(Current(r)) \in Decisions
<1>1. next[r] \in DOMAIN channels
  BY DEF TypeOK, ApproveType
<1>2. channels[next[r]] \in {"terminal", "slack"} /\ Current(r) \in Calls
  BY <1>1, CurrentIs
<1>3. /\ tpc[Current(r)] = "done" => tres[Current(r)] \in Results
      /\ spc[Current(r)] = "done" => sres[Current(r)] \in Results
  BY <1>2, SameCalls, Vocabulary DEF TypeOK, T!TypeOK, S!TypeOK
<1>4. ResultOf(Current(r)) \in Results
  BY <1>2, <1>3 DEF Over, ResultOf
<1>5. \A v \in Results : v # None /\ v.decision \in Decisions
  BY TypesAssumption DEF Results
<1> QED  BY <1>1, <1>2, <1>4, <1>5 DEF AnswerOf, Decisions

LEMMA ApproveTypeStep ==
  ASSUME TypeOK, Search, NEW r \in Requests,
         Approve(r) \/ ContextEnds(r) \/ CallChannel(r) \/ ChannelReturns(r) \/ NobodyDecided(r)
  PROVE  ApproveType'
<1>1. CASE Approve(r)
  <2>1. /\ SignToken(r, secret) \in Tokens \cup {NoToken}
        /\ UNCHANGED <<next, channels, secret, humanVars>> /\ apc[r] = "idle"
    BY <1>1, SignType DEF Approve, builtVars, TypeOK, BuiltType
  <2>2. CASE Return(r, "error", "") /\ UNCHANGED <<ctx, token>>
    <3>1. /\ decided' \in [Requests -> Decisions \cup {"open"}]
          /\ hook' \in Seq(HookEvents)
          /\ apc' \in [Requests -> {"idle", "loop", "calling", "done"}]
      BY <2>2, ReturnType DEF Decisions
    <3>2. apc' = [apc EXCEPT ![r] = "done"]
      BY <2>2 DEF Return
    <3> QED  BY <2>1, <2>2, <3>1, <3>2 DEF TypeOK, ApproveType, humanVars
  <2>3. CASE /\ token' = [token EXCEPT ![r] = SignToken(r, secret)]
             /\ ctx' = [ctx EXCEPT ![r] = "live"] /\ apc' = [apc EXCEPT ![r] = "loop"]
             /\ UNCHANGED <<decided, hook>>
    BY <2>1, <2>3 DEF TypeOK, ApproveType, humanVars
  <2> QED  BY <1>1, <2>2, <2>3 DEF Approve
<1>2. CASE ContextEnds(r)
  BY <1>2 DEF ContextEnds, builtVars, humanVars, TypeOK, ApproveType
<1>3. CASE CallChannel(r)
  <2>1. /\ apc' = [apc EXCEPT ![r] = "calling"] /\ next[r] \in 1..Len(channels)
        /\ UNCHANGED <<channels, secret, humanVars, next, decided, hook, ctx, token>>
    BY <1>3 DEF CallChannel, builtVars, TypeOK, ApproveType
  <2>2. next[r] \in DOMAIN channels
    BY <2>1 DEF TypeOK, BuiltType
  <2> QED  BY <2>1, <2>2 DEF TypeOK, ApproveType, humanVars
<1>4. CASE ChannelReturns(r)
  <2>1. /\ apc[r] = "calling" /\ Over(Current(r))
        /\ UNCHANGED <<channels, secret, token, humanVars>>
    BY <1>4 DEF ChannelReturns, builtVars
  <2>2. CASE \E d \in Decisions, name \in {"terminal", "slack"} :
               Return(r, d, name) /\ ctx' = [ctx EXCEPT ![r] = "done"] /\ UNCHANGED next
    <3>1. /\ decided' \in [Requests -> Decisions \cup {"open"}]
          /\ hook' \in Seq(HookEvents)
          /\ apc' \in [Requests -> {"idle", "loop", "calling", "done"}]
          /\ apc' = [apc EXCEPT ![r] = "done"]
      BY <2>2, ReturnType DEF Return
    <3> QED  BY <2>1, <2>2, <3>1 DEF TypeOK, ApproveType, humanVars
  <2>3. CASE /\ next' = [next EXCEPT ![r] = @ + 1] /\ apc' = [apc EXCEPT ![r] = "loop"]
             /\ UNCHANGED <<decided, hook, ctx>>
    <3>1. next[r] + 1 <= Len(channels) + 1 /\ next[r] + 1 \in Nat \ {0} /\ Len(channels) \in Nat
      BY <2>1 DEF TypeOK, ApproveType, BuiltType
    <3> QED  BY <2>1, <2>3, <3>1 DEF TypeOK, ApproveType, humanVars
  <2> QED
    <3>1. /\ channels[next[r]] \in {"terminal", "slack"} /\ "error" \in Decisions
          /\ ResultOf(Current(r)).decision \in Decisions
      BY <2>1, AnswerType DEF Results, Decisions
    <3> QED  BY <1>4, <2>2, <2>3, <3>1 DEF ChannelReturns
<1>5. CASE NobodyDecided(r)
  <2>1. /\ Return(r, "timeout", channels[Len(channels)])
        /\ ctx' = [ctx EXCEPT ![r] = "done"]
        /\ UNCHANGED <<channels, secret, next, token, humanVars>>
        /\ apc[r] = "loop"
    BY <1>5 DEF NobodyDecided, builtVars
  <2>2. channels[Len(channels)] \in {"terminal", "slack"}
    BY <2>1 DEF Search, Searched, TypeOK, BuiltType
  <2>3. /\ decided' \in [Requests -> Decisions \cup {"open"}]
        /\ hook' \in Seq(HookEvents)
        /\ apc' \in [Requests -> {"idle", "loop", "calling", "done"}]
        /\ apc' = [apc EXCEPT ![r] = "done"]
    BY <2>1, <2>2, ReturnType DEF Return, Decisions
  <2> QED  BY <2>1, <2>3 DEF TypeOK, ApproveType, humanVars
<1> QED  BY <1>1, <1>2, <1>3, <1>4, <1>5

LEMMA TypeStep ==
  ASSUME TypeOK, Search, [Next]_vars
  PROVE  TypeOK'
<1>0. BuiltType /\ ApproveType /\ T!TypeOK /\ S!TypeOK
  BY DEF TypeOK
<1>1. CASE NewWorkflow
  <2>1. T!TypeOK' /\ S!TypeOK' /\ BuiltType'
    BY <1>1, TypeUnchanged, BuiltTypeStep DEF NewWorkflow
  <2>2. workflow # "ready" /\ UNCHANGED <<approveVars, humanVars>>
    BY <1>1 DEF NewWorkflow
  <2>3. Len(channels') + 1 \in Nat \ {0} /\ Len(channels') + 1 >= 1
    BY <2>1 DEF BuiltType
  <2>4. ApproveType'
    <3>1. \A r \in Requests : apc[r] = "idle" /\ next[r] = 1 /\ token[r] = NoToken
      BY <1>0, <2>2, UnreadyIsUnasked DEF Unasked
    <3> QED  BY <1>0, <2>2, <2>3, <3>1 DEF ApproveType, approveVars, humanVars
  <2> QED  BY <2>1, <2>4 DEF TypeOK
<1>2. CASE NewWorkflowFails
  <2>1. ApproveType' /\ T!TypeOK' /\ S!TypeOK'
    BY <1>2, TypeUnchanged DEF NewWorkflowFails
  <2>2. BuiltType'
    BY <1>0, <1>2 DEF NewWorkflowFails, BuiltType
  <2> QED  BY <2>1, <2>2 DEF TypeOK
<1>3. ASSUME NEW r \in Requests,
             Approve(r) \/ ContextEnds(r) \/ CallChannel(r) \/ ChannelReturns(r)
               \/ NobodyDecided(r)
      PROVE  TypeOK'
  <2>1. BuiltType'
    BY <1>3, TypeUnchanged DEF Approve, ContextEnds, CallChannel, ChannelReturns,
       NobodyDecided
  <2>2. CASE CallChannel(r)
    <3>1. Current(r) \in Calls
      BY <1>0, <2>2, CurrentIs DEF CallChannel, ApproveType, BuiltType
    <3>2. T!TypeOK' /\ S!TypeOK'
      BY <1>0, <2>2, <3>1, TypeUnchanged, TerminalTypeStep, SlackRequestType DEF CallChannel
    <3> QED  BY <1>3, <2>1, <3>2, ApproveTypeStep DEF TypeOK
  <2>3. CASE ~CallChannel(r)
    <3>1. T!TypeOK' /\ S!TypeOK'
      BY <1>3, <2>3, TypeUnchanged DEF Approve, ContextEnds, ChannelReturns, NobodyDecided
    <3> QED  BY <1>3, <2>1, <3>1, ApproveTypeStep DEF TypeOK
  <2> QED  BY <2>2, <2>3
<1>4. ASSUME NEW k \in Calls, TerminalStep(k) PROVE TypeOK'
  <2>1. BuiltType' /\ ApproveType' /\ S!TypeOK'
    BY <1>4, TypeUnchanged DEF TerminalStep, builtVars
  <2> QED  BY <1>0, <1>4, <2>1, TerminalTypeStep DEF TerminalStep, TypeOK
<1>5. ASSUME NEW k \in Calls, SlackStep(k) PROVE TypeOK'
  <2>1. BuiltType' /\ ApproveType' /\ T!TypeOK'
    BY <1>5, TypeUnchanged DEF SlackStep, builtVars
  <2> QED  BY <1>0, <1>5, <2>1, SlackRequestType DEF SlackStep, TypeOK
<1>6. ASSUME NEW j \in DOMAIN channels, SlackLoop(j) \/ SlackClose(j) PROVE TypeOK'
  <2>1. BuiltType' /\ ApproveType' /\ T!TypeOK'
    BY <1>6, TypeUnchanged DEF SlackLoop, SlackClose, builtVars
  <2>2. j \in Positions
    BY <1>0, <1>6 DEF BuiltType
  <2> QED  BY <1>0, <1>6, <2>1, <2>2, SlackLoopType DEF SlackLoop, SlackClose, TypeOK
<1>7. CASE HangUp
  <2>1. BuiltType' /\ ApproveType' /\ S!TypeOK'
    BY <1>7, TypeUnchanged DEF HangUp, builtVars
  <2>2. T!TypeOK'
    BY <1>0, <1>7 DEF HangUp, T!HangUp, T!TypeOK, T!callVars
  <2> QED  BY <2>1, <2>2 DEF TypeOK
<1>8. CASE OperatorTypes
  <2>1. BuiltType' /\ S!TypeOK'
    BY <1>8, TypeUnchanged DEF OperatorTypes
  <2>2. PICK verb \in {"y", "n"}, r \in prompted, whole \in BOOLEAN :
          /\ T!OperatorTypes(verb, IF whole THEN token[r] ELSE NoToken)
          /\ said' = IF whole
                     THEN said \cup {<<r, IF verb = "y" THEN "approve" ELSE "deny">>}
                     ELSE said
    BY <1>8 DEF OperatorTypes
  <2>3. r \in Requests /\ token[r] \in Tokens \cup {NoToken}
    BY <1>0 DEF T!TypeOK, ApproveType
  <2>4. T!TypeOK'
    BY <1>0, <2>2, <2>3, OperatorTypesType
  <2>5. said' \subseteq Requests \X {"approve", "deny"} /\ gestures' \in Nat
    BY <1>0, <1>8, <2>2, <2>3 DEF ApproveType, OperatorTypes, Gesture
  <2>6. UNCHANGED <<approveVars, channels, secret>>
    BY <1>8 DEF OperatorTypes, builtVars
  <2> QED  BY <1>0, <2>1, <2>4, <2>5, <2>6 DEF TypeOK, ApproveType, approveVars
<1>9. CASE ApproverClicks
  <2>1. BuiltType' /\ T!TypeOK'
    BY <1>9, TypeUnchanged DEF ApproverClicks
  <2>2. S!TypeOK'
    BY <1>0, <1>9, SlackLoopType DEF ApproverClicks
  <2>3. said' \subseteq Requests \X {"approve", "deny"} /\ gestures' \in Nat
    BY <1>0, <1>9, CallIs DEF ApproveType, ApproverClicks, Gesture, Meaning
  <2>4. UNCHANGED <<approveVars, channels, secret>>
    BY <1>9 DEF ApproverClicks, builtVars
  <2> QED  BY <1>0, <2>1, <2>2, <2>3, <2>4 DEF TypeOK, ApproveType, approveVars
<1>10. CASE UNCHANGED vars
  BY <1>10, TypeUnchanged DEF vars, builtVars, TypeOK
<1> QED
  BY <1>1, <1>2, <1>3, <1>4, <1>5, <1>6, <1>7, <1>8, <1>9, <1>10 DEF Next

-----------------------------------------------------------------------------
(* How far an Approve has come through the channels *)

\* A channel at work moves the one call that is inside it.
LEMMA TerminalShape ==
  ASSUME T!TypeOK, NEW k \in Calls, T!Step(k)
  PROVE  \A c \in Calls :
           /\ tpc'[c] = "idle" <=> tpc[c] = "idle"
           /\ tpc[c] = "done" => tpc'[c] = "done" /\ tres'[c] = tres[c]
<1>1. \/ UNCHANGED <<tpc, tres>>
      \/ /\ tpc[k] \in {"prompt", "wait"}
         /\ \E p \in {"wait", "done"} : tpc' = [tpc EXCEPT ![k] = p]
         /\ UNCHANGED tres \/ \E v : tres' = [tres EXCEPT ![k] = v]
  BY DEF T!Step, T!WritePrompt, T!ReaderGets, T!TakeLine, T!ReadTimesOut, T!ContextDone,
     T!Finish, T!callVars
<1> QED  BY <1>1, SameCalls DEF T!TypeOK

LEMMA SlackShape ==
  ASSUME S!TypeOK, NEW k \in Calls, S!Step(k)
  PROVE  \A c \in Calls :
           /\ spc'[c] = "idle" <=> spc[c] = "idle"
           /\ spc[c] = "done" => spc'[c] = "done" /\ sres'[c] = sres[c]
<1>1. /\ spc[k] \notin {"idle", "done"}
      /\ \E p \in {"starting", "post", "register", "wait", "approver", "respond",
                   "deregister", "done"} : spc' = [spc EXCEPT ![k] = p]
      /\ UNCHANGED sres \/ \E v : sres' = [sres EXCEPT ![k] = v]
  BY DEF S!Step, S!EnsureSocket, S!SocketStarted, S!Post, S!Register, S!TakeClick,
     S!ResolveApprover, S!Respond, S!ContextDone, S!Deregister, S!Goto, S!Returning
<1> QED  BY <1>1, SameCalls DEF S!TypeOK

\* The calls of a request that Searched looks at.
LEMMA CallsOf ==
  ASSUME TypeOK, NEW r \in Requests
  PROVE  /\ \A j \in DOMAIN channels : j \in Positions /\ j \in Nat
         /\ \A j \in Positions : Call(j, r) \in Calls /\ Call(j, r).id = r /\ Call(j, r).at = j
BY CallIs, TypesAssumption DEF TypeOK, BuiltType

LEMMA ChannelsWork ==
  ASSUME TypeOK, Search, Called, UNCHANGED <<workflow, channels, approveVars>>,
         \A c \in Calls :
           /\ tpc'[c] = "idle" <=> tpc[c] = "idle"
           /\ tpc[c] = "done" => tpc'[c] = "done" /\ tres'[c] = tres[c]
           /\ spc'[c] = "idle" <=> spc[c] = "idle"
           /\ spc[c] = "done" => spc'[c] = "done" /\ sres'[c] = sres[c]
  PROVE  Search' /\ Called'
<1>1. ASSUME NEW c \in Calls
      PROVE  /\ Untried(c)' <=> Untried(c)
             /\ Over(c) => Over(c)' /\ AnswerOf(c)' = AnswerOf(c)
  BY DEF Untried, Over, AnswerOf, ResultOf
<1>2. ASSUME NEW q \in Requests PROVE Searched(q)'
  <2>1. Searched(q)
    BY DEF Search
  <2>2. UNCHANGED <<workflow, channels, apc, next, decided, ctx, token>>
    BY DEF approveVars
  <2>3. ASSUME NEW j \in Positions
        PROVE  /\ Untried(Call(j, q))' <=> Untried(Call(j, q))
               /\ Over(Call(j, q)) =>
                    Over(Call(j, q))' /\ AnswerOf(Call(j, q))' = AnswerOf(Call(j, q))
    <3>1. PICK c \in Calls : c = Call(j, q)
      BY CallsOf
    <3> QED  BY <1>1, <3>1
  <2>4. apc[q] = "idle" => Unasked(q)'
    BY <2>1, <2>2, <2>3 DEF Searched, Unasked
  <2> QED  BY <2>1, <2>2, <2>3, <2>4, CallsOf DEF Searched
<1>3. Called'
  BY DEF Called, CalledAs, approveVars
<1> QED  BY <1>2, <1>3 DEF Search

LEMMA SearchInit == Init => Search /\ Called
<1> SUFFICES ASSUME Init PROVE Search /\ Called
  OBVIOUS
<1>1. \A k \in Calls : tpc[k] = "idle" /\ spc[k] = "idle"
  BY SameCalls DEF Init, T!Init, S!Init
<1>2. \A r \in Requests : Unasked(r) /\ apc[r] = "idle" /\ decided[r] = "open"
  BY <1>1, CallIs DEF Init, Unasked, Untried
<1>3. DOMAIN channels = {}
  BY DEF Init
<1>4. Search
  BY <1>2, <1>3 DEF Search, Searched, Unasked
<1> QED  BY <1>1, <1>4 DEF Called

\* A call nothing touches.
Still(k) == tpc'[k] = tpc[k] /\ tres'[k] = tres[k] /\ spc'[k] = spc[k] /\ sres'[k] = sres[k]

LEMMA StillCall ==
  ASSUME UNCHANGED channels, NEW k, Still(k)
  PROVE  /\ Untried(k)' <=> Untried(k)
         /\ Over(k)' <=> Over(k)
         /\ AnswerOf(k)' = AnswerOf(k)
BY DEF Still, Untried, Over, AnswerOf, ResultOf

\* What a step of one request leaves alone for the others.
LEMMA OthersSearch ==
  ASSUME TypeOK, Search, NEW q \in Requests, UNCHANGED <<workflow, channels>>,
         apc'[q] = apc[q], next'[q] = next[q], decided'[q] = decided[q],
         ctx'[q] = ctx[q], token'[q] = token[q],
         \A k \in Calls : k.id = q => Still(k)
  PROVE  Searched(q)'
<1>1. ASSUME NEW j \in Positions
      PROVE  /\ Untried(Call(j, q))' <=> Untried(Call(j, q))
             /\ Over(Call(j, q))' <=> Over(Call(j, q))
             /\ AnswerOf(Call(j, q))' = AnswerOf(Call(j, q))
  <2>1. PICK k \in Calls : k = Call(j, q) /\ k.id = q
    BY CallsOf
  <2>2. Still(k)
    BY <2>1
  <2> QED  BY <2>1, <2>2, StillCall
<1>2. Searched(q) /\ \A j \in DOMAIN channels : j \in Positions
  BY CallsOf DEF Search
<1>3. Unasked(q) => Unasked(q)'
  BY <1>1 DEF Unasked
<1> QED  BY <1>1, <1>2, <1>3 DEF Searched

\* Before the workflow is ready no channel has been called.
LEMMA NothingCalled ==
  ASSUME TypeOK, Search, workflow # "ready"
  PROVE  \A k \in Calls : Untried(k)
<1> SUFFICES ASSUME NEW k \in Calls PROVE Untried(k)
  OBVIOUS
<1>1. k.id \in Requests /\ k.at \in Positions /\ k = Call(k.at, k.id)
  BY CallIs
<1>2. Unasked(k.id)
  BY <1>1, UnreadyIsUnasked DEF TypeOK
<1> QED  BY <1>1, <1>2 DEF Unasked

\* A workflow is built before it is asked.
LEMMA BuiltSearch ==
  ASSUME TypeOK, Search, Called, NewWorkflow
  PROVE  Search' /\ Called'
<1>0. UNCHANGED <<approveVars, tpc, spc>> /\ workflow # "ready" /\ ApproveType
  BY DEF NewWorkflow, termVars, slackVars, TypeOK
<1>1. ASSUME NEW r \in Requests PROVE apc[r] = "idle" /\ Unasked(r)
  BY <1>0, UnreadyIsUnasked
<1>2. \A k : Untried(k)' <=> Untried(k)
  BY <1>0 DEF Untried
<1>3. DOMAIN channels' = 1..Len(channels') /\ Len(channels') \in Nat
      /\ DOMAIN channels' \subseteq Positions
  BY BuiltTypeStep DEF BuiltType
<1>4. ASSUME NEW r \in Requests PROVE Searched(r)'
  <2>1. \A j \in Positions : Untried(Call(j, r))'
    BY <1>1, <1>2 DEF Unasked
  <2>2. Unasked(r)' /\ apc'[r] = "idle" /\ next'[r] = 1
    BY <1>0, <1>1, <2>1 DEF Unasked, approveVars
  <2>3. decided'[r] = "open"
    BY <1>0, <1>1 DEF Search, Searched, approveVars
  <2>4. \A j \in DOMAIN channels' : ~(j < next'[r]) /\ Untried(Call(j, r))'
    BY <1>3, <2>1, <2>2
  <2> QED  BY <2>2, <2>3, <2>4 DEF Searched
<1>5. Called'
  BY <1>0, <1>2, NothingCalled DEF Called, Untried
<1> QED  BY <1>4, <1>5 DEF Search

LEMMA FailedSearch ==
  ASSUME TypeOK, Search, Called, NewWorkflowFails
  PROVE  Search' /\ Called'
<1>1. /\ workflow' = "failed" /\ workflow # "ready"
      /\ UNCHANGED <<channels, approveVars, tpc, tres, spc, sres>>
  BY DEF NewWorkflowFails, termVars, slackVars
<1>2. ASSUME NEW r \in Requests PROVE Searched(r)'
  <2>1. Searched(r) /\ apc[r] = "idle"
    BY <1>1, UnreadyIsUnasked DEF Search, TypeOK
  <2>2. \A k : /\ Untried(k)' <=> Untried(k)
               /\ Over(k)' <=> Over(k)
               /\ AnswerOf(k)' = AnswerOf(k)
    BY <1>1 DEF Untried, Over, AnswerOf, ResultOf
  <2>3. Unasked(r)'
    BY <1>1, <2>1, <2>2 DEF Searched, Unasked, approveVars
  <2> QED  BY <1>1, <2>1, <2>2, <2>3 DEF Searched, approveVars
<1>3. Called'
  BY <1>1 DEF Called, CalledAs, approveVars
<1> QED  BY <1>2, <1>3 DEF Search

\* A channel that is at work was called, as Called says it.
Serves(k) == /\ tpc[k] \notin {"idle", "done"} => CalledAs(k, "terminal")
             /\ spc[k] \notin {"idle", "done"} => CalledAs(k, "slack")

\* A step of one Approve is a step of its own search alone.
LEMMA OneSearch ==
  ASSUME TypeOK, Search, Called, NEW r \in Requests, Searched(r)',
         UNCHANGED <<workflow, channels>>,
         \A q \in Requests \ {r} :
           /\ apc'[q] = apc[q] /\ next'[q] = next[q] /\ decided'[q] = decided[q]
           /\ ctx'[q] = ctx[q] /\ token'[q] = token[q],
         \A k \in Calls : k.id # r => Still(k),
         \A k \in Calls : k.id = r => Serves(k)'
  PROVE  Search' /\ Called'
<1>1. ASSUME NEW q \in Requests PROVE Searched(q)'
  <2>1. CASE q = r
    BY <2>1
  <2>2. CASE q # r
    BY <2>2, OthersSearch
  <2> QED  BY <2>1, <2>2
<1>2. ASSUME NEW k \in Calls PROVE Serves(k)'
  <2>1. CASE k.id = r
    BY <2>1
  <2>2. CASE k.id # r
    <3>1. Still(k) /\ Serves(k) /\ k.id \in Requests \ {r}
      BY <2>2, CallIs DEF Called, Serves
    <3> QED  BY <3>1 DEF Still, Serves, CalledAs
  <2> QED  BY <2>1, <2>2
<1> QED  BY <1>1, <1>2 DEF Search, Called, Serves

LEMMA ApproveSearch ==
  ASSUME TypeOK, Search, Called, NEW r \in Requests, Approve(r)
  PROVE  Search' /\ Called'
<1>1. /\ UNCHANGED <<workflow, channels, next, tpc, tres, spc, sres>>
      /\ workflow = "ready" /\ apc[r] = "idle" /\ Searched(r) /\ Unasked(r)
  BY DEF Approve, builtVars, termVars, slackVars, Search, Searched
<1>2. ApproveType
  BY DEF TypeOK
<1>3. /\ \A j \in Positions : Untried(Call(j, r))' /\ Untried(Call(j, r))
      /\ \A j \in DOMAIN channels : j \in Positions
  BY <1>1, CallsOf DEF Untried, Unasked
<1>4. /\ \A q \in Requests \ {r} : /\ apc'[q] = apc[q] /\ decided'[q] = decided[q]
                                  /\ ctx'[q] = ctx[q] /\ token'[q] = token[q]
      /\ \/ apc'[r] = "done" /\ decided'[r] = "error" /\ token'[r] = NoToken
         \/ apc'[r] = "loop" /\ decided'[r] = decided[r] /\ token'[r] # NoToken
  <2>1. CASE Return(r, "error", "") /\ UNCHANGED <<next, ctx, token>>
    BY <1>1, <1>2, <2>1 DEF Return, ApproveType, Unasked
  <2>2. CASE SignToken(r, secret) # NoToken
    BY <1>1, <1>2, <2>2 DEF Approve, ApproveType
  <2> QED  BY <2>1, <2>2 DEF Approve
<1>5. next'[r] = 1 /\ \A j \in DOMAIN channels' : ~(j < 1)
  BY <1>1 DEF Unasked, TypeOK, BuiltType
<1>6. apc[r] # "done" /\ decided[r] = "open"
  BY <1>1 DEF Searched
<1>7. Searched(r)'
  <2>1. CASE apc'[r] = "done" /\ decided'[r] = "error" /\ token'[r] = NoToken
    BY <1>1, <1>3, <1>5, <2>1 DEF Searched
  <2>2. CASE apc'[r] = "loop" /\ decided'[r] = decided[r] /\ token'[r] # NoToken
    BY <1>1, <1>3, <1>5, <1>6, <2>2 DEF Searched
  <2> QED  BY <1>4, <2>1, <2>2
<1>8. ASSUME NEW k \in Calls PROVE Still(k) /\ (k.id = r => Serves(k)')
  <2>1. Still(k)
    BY <1>1 DEF Still
  <2>2. k.id = r => Untried(k)'
    BY <1>3, CallIs
  <2> QED  BY <2>1, <2>2 DEF Serves, Untried
<1> QED  BY <1>1, <1>4, <1>7, <1>8, OneSearch

LEMMA ContextEndsSearch ==
  ASSUME TypeOK, Search, Called, NEW r \in Requests, ContextEnds(r)
  PROVE  Search' /\ Called'
<1>1. /\ UNCHANGED <<workflow, channels, apc, next, decided, token, tpc, tres, spc, sres>>
      /\ \A q \in Requests \ {r} : ctx'[q] = ctx[q]
      /\ apc[r] \in {"loop", "calling"} /\ Searched(r)
  BY DEF ContextEnds, builtVars, termVars, slackVars, Search, TypeOK, ApproveType
<1>2. \A k : /\ Untried(k)' <=> Untried(k)
             /\ Over(k)' <=> Over(k)
             /\ AnswerOf(k)' = AnswerOf(k)
  BY <1>1 DEF Untried, Over, AnswerOf, ResultOf
<1>3. Searched(r)'
  BY <1>1, <1>2 DEF Searched
<1>4. \A k \in Calls : Still(k) /\ Serves(k)'
  BY <1>1 DEF Still, Serves, Called, CalledAs
<1> QED  BY <1>1, <1>3, <1>4, OneSearch

\* A request's channel is at work only while Approve is in its call.
LEMMA IdleUnlessCalling ==
  ASSUME TypeOK, Called, NEW k \in Calls,
         apc[k.id] # "calling" \/ Over(Current(k.id))
  PROVE  tpc[k] \in {"idle", "done"} /\ spc[k] \in {"idle", "done"}
<1>1. \A name : CalledAs(k, name) => apc[k.id] = "calling" /\ Current(k.id) = k
                                          /\ channels[k.at] = name
  BY CallIs DEF CalledAs, Current
<1> QED  BY <1>1 DEF Called, Over

LEMMA CallChannelSearch ==
  ASSUME TypeOK, Search, Called, NEW r \in Requests, CallChannel(r)
  PROVE  Search' /\ Called'
<1> DEFINE name == channels[next[r]]
<1>1. PICK c \in Calls : c = Current(r) /\ c.at = next[r] /\ c.id = r
  BY CurrentIs DEF CallChannel, TypeOK, ApproveType, BuiltType
<1>2. /\ UNCHANGED <<workflow, channels, next, decided, ctx, token, tres, sres>>
      /\ apc[r] = "loop" /\ apc' = [apc EXCEPT ![r] = "calling"]
      /\ Searched(r) /\ next[r] \in DOMAIN channels
      /\ \/ /\ name = "terminal" /\ tpc' = [tpc EXCEPT ![c] = "prompt"] /\ UNCHANGED spc
         \/ /\ name = "slack" /\ spc' = [spc EXCEPT ![c] = "start"] /\ UNCHANGED tpc
  BY <1>1 DEF CallChannel, builtVars, termVars, slackVars, Search, T!Request, S!Request, S!Goto,
     TypeOK, BuiltType, ApproveType
<1>3. /\ apc'[r] = "calling"
      /\ \A q \in Requests \ {r} : apc'[q] = apc[q]
  BY <1>2 DEF TypeOK, ApproveType
<1>4. \A k \in Calls \ {c} : Still(k)
  BY <1>2, SameCalls DEF Still, TypeOK, T!TypeOK, S!TypeOK
<1>5. ASSUME NEW j \in DOMAIN channels, j # next[r]
      PROVE  /\ Untried(Call(j, r))' <=> Untried(Call(j, r))
             /\ Over(Call(j, r))' <=> Over(Call(j, r))
             /\ AnswerOf(Call(j, r))' = AnswerOf(Call(j, r))
  <2>1. PICK k \in Calls : k = Call(j, r) /\ k.at = j
    BY CallsOf
  <2>2. Still(k)
    BY <1>1, <1>4, <1>5, <2>1
  <2> QED  BY <1>2, <2>1, <2>2, StillCall
<1>6. Searched(r)'
  <2>1. \A j \in DOMAIN channels : j \in Nat /\ next[r] \in Nat
    BY CallsOf DEF TypeOK, ApproveType
  <2> QED  BY <1>2, <1>3, <1>5, <2>1 DEF Searched
<1>7. ASSUME NEW k \in Calls, k.id = r PROVE Serves(k)'
  <2>1. tpc[k] \in {"idle", "done"} /\ spc[k] \in {"idle", "done"}
    BY <1>2, <1>7, IdleUnlessCalling
  <2>2. CASE k # c
    BY <1>4, <2>1, <2>2 DEF Still, Serves
  <2>3. CASE k = c
    <3>1. name = "terminal" => CalledAs(k, "terminal")' /\ spc'[k] = spc[k]
      BY <1>1, <1>2, <1>3, <2>3 DEF CalledAs
    <3>2. name = "slack" => CalledAs(k, "slack")' /\ tpc'[k] = tpc[k]
      BY <1>1, <1>2, <1>3, <2>3 DEF CalledAs
    <3> QED  BY <1>2, <2>1, <3>1, <3>2 DEF Serves
  <2> QED  BY <2>2, <2>3
<1>8. \A k \in Calls : k.id # r => Still(k)
  BY <1>1, <1>4
<1> HIDE DEF name
<1> QED  BY <1>2, <1>3, <1>6, <1>7, <1>8, OneSearch

\* When Approve moves on, the calls stand still and none is at work.
LEMMA MovesOn ==
  ASSUME TypeOK, Called, NEW r \in Requests, UNCHANGED <<channels, tpc, tres, spc, sres>>,
         apc[r] # "calling" \/ Over(Current(r))
  PROVE  /\ \A k \in Calls : Still(k) /\ (k.id = r => Serves(k)')
         /\ \A k : /\ Untried(k)' <=> Untried(k)
                   /\ Over(k)' <=> Over(k)
                   /\ AnswerOf(k)' = AnswerOf(k)
<1>1. \A k \in Calls : k.id = r => tpc[k] \in {"idle", "done"} /\ spc[k] \in {"idle", "done"}
  BY IdleUnlessCalling
<1>2. \A k : Still(k)
  BY DEF Still
<1>3. \A k \in Calls : k.id = r => Serves(k)'
  BY <1>1, <1>2 DEF Serves, Still
<1> QED  BY <1>2, <1>3, StillCall

LEMMA ChannelReturnsSearch ==
  ASSUME TypeOK, Search, Called, NEW r \in Requests, ChannelReturns(r)
  PROVE  Search' /\ Called'
<1> DEFINE answer == AnswerOf(Current(r))
<1>1. /\ UNCHANGED <<workflow, channels, token, tpc, tres, spc, sres>>
      /\ apc[r] = "calling" /\ Over(Current(r)) /\ Searched(r)
  BY DEF ChannelReturns, builtVars, termVars, slackVars, Search
<1>2. /\ next[r] \in DOMAIN channels /\ answer \in Decisions
      /\ DOMAIN channels = 1..Len(channels) /\ Len(channels) \in Nat
  BY <1>1, AnswerType DEF TypeOK, BuiltType
<1>3. ApproveType
  BY DEF TypeOK
<1>4. /\ \A k \in Calls : Still(k) /\ (k.id = r => Serves(k)')
      /\ \A k : /\ Untried(k)' <=> Untried(k)
                /\ Over(k)' <=> Over(k)
                /\ AnswerOf(k)' = AnswerOf(k)
  BY <1>1, MovesOn
<1>5. \/ /\ IsDefinitive(answer) /\ apc' = [apc EXCEPT ![r] = "done"]
         /\ decided' = [decided EXCEPT ![r] = answer]
         /\ ctx' = [ctx EXCEPT ![r] = "done"] /\ UNCHANGED next
      \/ /\ ~IsDefinitive(answer) /\ apc' = [apc EXCEPT ![r] = "loop"]
         /\ next' = [next EXCEPT ![r] = next[r] + 1] /\ UNCHANGED <<decided, ctx>>
  <2>1. ResultOf(Current(r)) # None
    BY <1>1, AnswerType, TypesAssumption
  <2> QED  BY <2>1 DEF ChannelReturns, AnswerOf, Return
<1> HIDE DEF answer
<1>6. \A q \in Requests \ {r} : /\ apc'[q] = apc[q] /\ next'[q] = next[q]
                               /\ decided'[q] = decided[q] /\ ctx'[q] = ctx[q]
  BY <1>3, <1>5 DEF ApproveType
<1>7. Searched(r)'
  <2>1. CASE /\ IsDefinitive(answer) /\ apc' = [apc EXCEPT ![r] = "done"]
             /\ decided' = [decided EXCEPT ![r] = answer] /\ UNCHANGED next
    <3>1. apc'[r] = "done" /\ decided'[r] = answer /\ answer # "open"
      BY <1>2, <1>3, <2>1 DEF ApproveType, IsDefinitive
    <3> QED  BY <1>1, <1>2, <1>4, <2>1, <3>1 DEF Searched, answer, Current
  <2>2. CASE /\ ~IsDefinitive(answer) /\ apc' = [apc EXCEPT ![r] = "loop"]
             /\ next' = [next EXCEPT ![r] = next[r] + 1] /\ UNCHANGED decided
    <3>1. /\ apc'[r] = "loop" /\ next'[r] = next[r] + 1 /\ next[r] \in Nat
          /\ answer \in {"timeout", "error"}
      BY <1>2, <1>3, <2>2 DEF ApproveType, IsDefinitive, Decisions
    <3>2. \A j \in DOMAIN channels :
            /\ j < next[r] + 1 => /\ Over(Call(j, r))
                                  /\ AnswerOf(Call(j, r)) \in {"timeout", "error"}
            /\ j >= next[r] + 1 => Untried(Call(j, r))
      <4> SUFFICES ASSUME NEW j \in DOMAIN channels
                   PROVE  /\ j < next[r] + 1 =>
                               /\ Over(Call(j, r))
                               /\ AnswerOf(Call(j, r)) \in {"timeout", "error"}
                          /\ j >= next[r] + 1 => Untried(Call(j, r))
        OBVIOUS
      <4>1. j \in Nat /\ next[r] \in Nat
        BY <1>2, <3>1
      <4>2. CASE j = next[r]
        BY <1>1, <3>1, <4>1, <4>2 DEF answer, Current
      <4>3. CASE j < next[r]
        BY <1>1, <4>1, <4>3 DEF Searched
      <4>4. CASE j > next[r]
        BY <1>1, <4>1, <4>4 DEF Searched
      <4> QED  BY <4>1, <4>2, <4>3, <4>4
    <3>3. \A j \in DOMAIN channels : j \in Nat
      BY <1>2
    <3> QED  BY <1>1, <1>4, <2>2, <3>1, <3>2, <3>3 DEF Searched
  <2> QED  BY <1>5, <2>1, <2>2
<1> QED  BY <1>1, <1>4, <1>6, <1>7, OneSearch

LEMMA NobodyDecidedSearch ==
  ASSUME TypeOK, Search, Called, NEW r \in Requests, NobodyDecided(r)
  PROVE  Search' /\ Called'
<1>1. /\ UNCHANGED <<workflow, channels, next, token, tpc, tres, spc, sres>>
      /\ apc[r] = "loop" /\ apc' = [apc EXCEPT ![r] = "done"] /\ Searched(r)
      /\ decided' = [decided EXCEPT ![r] = "timeout"] /\ next[r] > Len(channels)
      /\ ctx' = [ctx EXCEPT ![r] = "done"]
  BY DEF NobodyDecided, Return, builtVars, termVars, slackVars, Search
<1>2. /\ \A j \in DOMAIN channels : j < next[r] /\ ~(j > next[r]) /\ j # next[r]
      /\ next[r] \notin DOMAIN channels
  BY <1>1 DEF TypeOK, BuiltType, ApproveType
<1>3. /\ apc'[r] = "done" /\ decided'[r] = "timeout"
      /\ \A q \in Requests \ {r} : /\ apc'[q] = apc[q] /\ decided'[q] = decided[q]
                                  /\ ctx'[q] = ctx[q]
  BY <1>1 DEF TypeOK, ApproveType
<1>4. /\ \A k \in Calls : Still(k) /\ (k.id = r => Serves(k)')
      /\ \A k : /\ Untried(k)' <=> Untried(k)
                /\ Over(k)' <=> Over(k)
                /\ AnswerOf(k)' = AnswerOf(k)
  BY <1>1, MovesOn
<1>5. Searched(r)'
  BY <1>1, <1>2, <1>3, <1>4 DEF Searched
<1> QED  BY <1>1, <1>3, <1>4, <1>5, OneSearch

LEMMA SearchStep ==
  ASSUME TypeOK, Search, Called, [Next]_vars
  PROVE  Search' /\ Called'
<1>0. T!TypeOK /\ S!TypeOK
  BY DEF TypeOK
<1>1. ASSUME NEW k \in Calls, TerminalStep(k) PROVE Search' /\ Called'
  <2>1. UNCHANGED <<workflow, channels, approveVars, spc, sres>>
    BY <1>1 DEF TerminalStep, builtVars, slackVars
  <2> QED  BY <1>0, <1>1, <2>1, TerminalShape, ChannelsWork DEF TerminalStep
<1>2. ASSUME NEW k \in Calls, SlackStep(k) PROVE Search' /\ Called'
  <2>1. UNCHANGED <<workflow, channels, approveVars, tpc, tres>>
    BY <1>2 DEF SlackStep, builtVars, termVars
  <2> QED  BY <1>0, <1>2, <2>1, SlackShape, ChannelsWork DEF SlackStep
<1>3. CASE \/ \E j \in DOMAIN channels : SlackLoop(j) \/ SlackClose(j)
           \/ HangUp \/ OperatorTypes \/ ApproverClicks \/ UNCHANGED vars
  <2>1. UNCHANGED <<workflow, channels, approveVars, tpc, tres, spc, sres>>
    BY <1>3 DEF SlackLoop, SlackClose, HangUp, OperatorTypes, ApproverClicks, vars,
       builtVars, termVars, slackVars, S!Loop, S!LookUp, S!Send, S!LoopStops, S!Close,
       S!ApproverClicks, T!HangUp, T!OperatorTypes, T!callVars
  <2> QED  BY <2>1, ChannelsWork
<1> QED
  BY <1>1, <1>2, <1>3, BuiltSearch, FailedSearch, ApproveSearch, ContextEndsSearch,
     CallChannelSearch, ChannelReturnsSearch, NobodyDecidedSearch DEF Next

-----------------------------------------------------------------------------
(* Consent, from the keyboard or the button to the decision *)

\* What people have said stays said.
LEMMA TerminalConsentKept ==
  ASSUME TerminalConsent, said \subseteq said', UNCHANGED <<typed, line, tres>>
  PROVE  TerminalConsent'
BY DEF TerminalConsent, Meant

\* A result that is not approve needs no consent.
LEMMA RefusalNeedsNone ==
  ASSUME TerminalConsent, T!TypeOK, UNCHANGED <<said, typed, line>>, NEW k \in Calls,
         NEW d \in Decisions, NEW failed \in BOOLEAN, T!Finish(k, T!Result(d, failed)),
         d = "approve" => <<k.id, "approve">> \in said
  PROVE  TerminalConsent'
<1> USE SameCalls
<1>1. tres' = [tres EXCEPT ![k] = Result(d, failed)] /\ Result(d, failed).decision = d
  BY Vocabulary, ResultType DEF T!Finish
<1>2. \A q \in Calls : tres'[q] # None =>
                           (tres'[q].decision = "approve" => <<q.id, "approve">> \in said)
  BY <1>1 DEF TerminalConsent, T!TypeOK
<1> QED  BY <1>2 DEF TerminalConsent, Meant

LEMMA TerminalConsentStep ==
  ASSUME TerminalConsent, TypeOK, NEW k \in Calls, TerminalStep(k)
  PROVE  TerminalConsent'
<1> USE SameCalls
<1>1. T!TypeOK /\ T!Step(k) /\ UNCHANGED <<said, secret, termSecret>>
  BY DEF TypeOK, TerminalStep, humanVars, builtVars
<1>2. CASE T!WritePrompt(k)
  <2>1. CASE T!Finish(k, T!Result("error", TRUE))
    BY <1>1, <1>2, <2>1, RefusalNeedsNone DEF T!WritePrompt, Decisions
  <2>2. CASE UNCHANGED tres
    BY <1>1, <1>2, <2>2, TerminalConsentKept DEF T!WritePrompt
  <2> QED  BY <1>2, <2>1, <2>2 DEF T!WritePrompt
<1>3. CASE T!ReaderGets(k)
  <2>1. UNCHANGED <<said, tres>>
    BY <1>1, <1>3 DEF T!ReaderGets, T!callVars
  <2>2. CASE \E n \in 1..Len(typed) : /\ line' = [line EXCEPT ![k] = Head(typed)]
                                     /\ typed' = SubSeq(typed, n + 1, Len(typed))
    <3>1. PICK n \in 1..Len(typed) : /\ line' = [line EXCEPT ![k] = Head(typed)]
                                    /\ typed' = SubSeq(typed, n + 1, Len(typed))
      BY <2>2
    <3>2. typed \in Seq(T!LineType) /\ Head(typed) = typed[1] /\ 1 \in DOMAIN typed
      BY <1>1, <3>1 DEF T!TypeOK
    <3>3. \A i \in DOMAIN typed' : n + i \in DOMAIN typed /\ typed'[i] = typed[n + i]
      BY <3>1, <3>2
    <3>4. \A i \in DOMAIN typed' : Meant(typed'[i])
      BY <3>3 DEF TerminalConsent
    <3>5. \A q \in Calls : line'[q] # None => Meant(line'[q])
      BY <1>1, <3>1, <3>2 DEF TerminalConsent, T!TypeOK
    <3> QED  BY <2>1, <3>4, <3>5 DEF TerminalConsent, Meant
  <2>3. CASE /\ line' \in {[line EXCEPT ![k] = l] : l \in {T!EmptyLine, T!ReadError}}
             /\ UNCHANGED typed
    <3>1. Meant(T!EmptyLine) /\ Meant(T!ReadError)
      BY DEF Meant, T!EmptyLine, T!ReadError, T!Line
    <3>2. \A q \in Calls : line'[q] # None => Meant(line'[q])
      BY <1>1, <2>3, <3>1 DEF TerminalConsent, T!TypeOK
    <3> QED  BY <2>1, <2>3, <3>2 DEF TerminalConsent, Meant
  <2> QED  BY <1>3, <2>2, <2>3 DEF T!ReaderGets
<1>4. CASE T!TakeLine(k)
  <2>1. UNCHANGED <<typed, line>> /\ line[k] # None
    BY <1>4 DEF T!TakeLine, T!readerVars
  <2>2. T!parseTerminalResponse(line[k], k.id, termSecret) = "approve"
      => <<k.id, "approve">> \in said
    <3> SUFFICES ASSUME T!parseTerminalResponse(line[k], k.id, termSecret) = "approve"
                 PROVE  <<k.id, "approve">> \in said
      OBVIOUS
    <3>1. /\ line[k].token # NoToken /\ line[k].verb = "y"
          /\ VerifyToken(k.id, line[k].token, termSecret)
      BY Vocabulary DEF T!parseTerminalResponse
    <3>2. line[k].token.id = k.id
      BY <3>1, CallIs, SignType DEF VerifyToken, TypeOK, BuiltType
    <3> QED  BY <2>1, <3>1, <3>2 DEF TerminalConsent, Meant
  <2>3. CASE T!Finish(k, T!Result("error", TRUE))
    BY <1>1, <2>1, <2>3, RefusalNeedsNone DEF Decisions
  <2>4. CASE T!Finish(k, T!Result(T!parseTerminalResponse(line[k], k.id, termSecret), FALSE))
    BY <1>1, <2>1, <2>2, <2>4, ParseType, RefusalNeedsNone
  <2> QED  BY <1>4, <2>3, <2>4 DEF T!TakeLine
<1>5. CASE T!ReadTimesOut(k)
  BY <1>1, <1>5, RefusalNeedsNone DEF T!ReadTimesOut, T!readerVars, Decisions
<1>6. CASE T!ContextDone(k)
  BY <1>1, <1>6, RefusalNeedsNone DEF T!ContextDone, T!readerVars, Decisions
<1> QED  BY <1>1, <1>2, <1>3, <1>4, <1>5, <1>6 DEF T!Step

\* A line that approves is consent to the request whose token it carries.
LEMMA TypedConsent ==
  ASSUME TerminalConsent, TypeOK, OperatorTypes
  PROVE  TerminalConsent'
<1>1. PICK verb \in {"y", "n"}, r \in prompted, whole \in BOOLEAN :
        /\ T!OperatorTypes(verb, IF whole THEN token[r] ELSE NoToken)
        /\ said' = IF whole
                   THEN said \cup {<<r, IF verb = "y" THEN "approve" ELSE "deny">>}
                   ELSE said
  BY DEF OperatorTypes
<1> DEFINE tok == IF whole THEN token[r] ELSE NoToken
           l == T!Line(verb, tok)
<1>2. r \in Requests /\ token[r] \in {NoToken, SignToken(r, secret)} /\ said \subseteq said'
  BY <1>1 DEF TypeOK, T!TypeOK, ApproveType
<1>3. tok \in Tokens \cup {NoToken} /\ (tok # NoToken => whole = TRUE /\ tok.id = r)
  BY <1>2, SignType DEF TypeOK, BuiltType
<1>4. typed \in Seq(T!LineType) /\ typed' = Append(typed, l) /\ UNCHANGED <<line, tres>>
  BY <1>1 DEF T!OperatorTypes, T!callVars, TypeOK, T!TypeOK
<1>5. l \in T!LineType /\ l.verb = verb /\ l.token = tok
  BY <1>3, LineTyped
<1>6. l.verb = "y" /\ l.token # NoToken => <<l.token.id, "approve">> \in said'
  BY <1>1, <1>3, <1>5
<1> HIDE DEF l, tok
<1>7. \A i \in DOMAIN typed' : (i \in DOMAIN typed /\ typed'[i] = typed[i]) \/ typed'[i] = l
  BY <1>4, <1>5, AppendProperties
<1> QED  BY <1>2, <1>4, <1>6, <1>7 DEF TerminalConsent, Meant

LEMMA SlackConsentKept ==
  ASSUME SlackConsent, said \subseteq said', slackSecret' = secret' => slackSecret = secret,
         UNCHANGED <<events, sending, box, sres>>
  PROVE  SlackConsent'
BY DEF SlackConsent, Clicked

\* A Slack request that waits has a token, which verifies under its own secret.
LEMMA WaitingVerifies ==
  ASSUME TypeOK, Search, Called, NEW k \in Calls, spc[k] = "wait", slackSecret = secret
  PROVE  S!VerifyToken(k.id, token[k.id], slackSecret)
<1>1. apc[k.id] = "calling"
  BY DEF Called, CalledAs
<1>2. token[k.id] # NoToken /\ token[k.id] = SignToken(k.id, secret)
  BY <1>1, CallIs DEF Search, Searched, TypeOK, ApproveType
<1> QED  BY <1>2, Vocabulary DEF VerifyToken

\* A result is an approval only of its own request, by its approver.
LEMMA SlackResult ==
  ASSUME SlackConsent, S!TypeOK, UNCHANGED <<said, secret, slackSecret, events, sending>>,
         NEW k \in Calls, box' \in {box, [box EXCEPT ![k] = None]},
         NEW d \in Decisions, NEW failed \in BOOLEAN, S!Returning(k, d, failed),
         d = "approve" => <<k.id, "approve">> \in said,
         slackSecret = secret /\ ~failed => <<k.id, d>> \in said
  PROVE  SlackConsent'
<1> USE SameCalls
<1>1. PICK v : v = Result(d, failed) /\ sres' = [sres EXCEPT ![k] = v]
  BY Vocabulary DEF S!Returning
<1>2. v.decision = d /\ v.err = failed
  BY <1>1, ResultType
<1>3. \A q \in Calls : sres'[q] # None =>
        /\ sres'[q].decision = "approve" => <<q.id, "approve">> \in said
        /\ slackSecret = secret /\ ~sres'[q].err => <<q.id, sres'[q].decision>> \in said
  BY <1>1, <1>2 DEF SlackConsent, S!TypeOK
<1>4. \A q \in Calls : box'[q] # None => <<q.id, Meaning(box'[q])>> \in said
  BY DEF SlackConsent, S!TypeOK
<1> QED  BY <1>3, <1>4 DEF SlackConsent, Clicked

LEMMA SlackConsentStep ==
  ASSUME SlackConsent, TypeOK, Search, Called, NEW k \in Calls, SlackStep(k)
  PROVE  SlackConsent'
<1>1. S!TypeOK /\ S!Step(k) /\ UNCHANGED <<said, secret, slackSecret>>
  BY DEF TypeOK, SlackStep, humanVars, builtVars
<1>2. CASE S!TakeClick(k)
  <2>1. /\ spc[k] = "wait" /\ box[k] # None /\ box' = [box EXCEPT ![k] = None]
        /\ UNCHANGED <<events, sending>>
        /\ S!Returning(k, S!handleInteraction(k, box[k]), FALSE)
    BY <1>2 DEF S!TakeClick, S!loopVars
  <2>2. <<k.id, Meaning(box[k])>> \in said
    BY <2>1 DEF SlackConsent
  <2>3. /\ S!handleInteraction(k, box[k]) = "approve" => <<k.id, "approve">> \in said
        /\ slackSecret = secret => <<k.id, S!handleInteraction(k, box[k])>> \in said
    BY <2>1, <2>2, WaitingVerifies DEF S!handleInteraction, Meaning
  <2> QED  BY <1>1, <2>1, <2>3, HandleType, SlackResult
<1>3. CASE ~S!TakeClick(k)
  <2>1. UNCHANGED <<events, sending, box>>
    BY <1>1, <1>3 DEF S!Step, S!EnsureSocket, S!SocketStarted, S!Post, S!Register,
       S!ResolveApprover, S!Respond, S!ContextDone, S!Deregister, S!loopVars
  <2>2. \/ UNCHANGED sres
        \/ S!Returning(k, "error", TRUE) \/ S!Returning(k, "timeout", TRUE)
    BY <1>1, <1>3 DEF S!Step, S!EnsureSocket, S!SocketStarted, S!Post, S!Register,
       S!ResolveApprover, S!Respond, S!ContextDone, S!Deregister
  <2>3. CASE UNCHANGED sres
    BY <1>1, <2>1, <2>3, SlackConsentKept
  <2>4. CASE S!Returning(k, "error", TRUE) \/ S!Returning(k, "timeout", TRUE)
    BY <1>1, <2>1, <2>4, SlackResult DEF Decisions
  <2> QED  BY <2>2, <2>3, <2>4
<1> QED  BY <1>2, <1>3

\* The loop passes a click on to the request it names, and to no other.
LEMMA LoopConsent ==
  ASSUME SlackConsent, TypeOK, NEW j \in Positions, SlackLoop(j)
  PROVE  SlackConsent'
<1> USE SameCalls
<1>1. UNCHANGED <<said, secret, slackSecret>> /\ S!TypeOK /\ S!Loop(j)
  BY DEF SlackLoop, humanVars, builtVars, TypeOK
<1>2. CASE S!LookUp(j)
  <2>1. /\ events[j] \in Seq(S!ClickType) /\ events[j] # <<>>
        /\ events' = [events EXCEPT ![j] = Tail(events[j])]
        /\ UNCHANGED <<box, sres>>
    BY <1>1, <1>2 DEF S!LookUp, S!TypeOK
  <2>2. PICK c \in {Head(events[j]), None} : sending' = [sending EXCEPT ![j] = c]
    BY <1>2 DEF S!LookUp
  <2>3. Head(events[j]) = events[j][1] /\ 1 \in DOMAIN events[j]
    BY <2>1
  <2>4. \A i \in DOMAIN Tail(events[j]) :
          i + 1 \in DOMAIN events[j] /\ Tail(events[j])[i] = events[j][i + 1]
    BY <2>1
  <2>5. c # None => Clicked(c)
    BY <2>2, <2>3 DEF SlackConsent
  <2>6. \A i \in DOMAIN Tail(events[j]) : Clicked(Tail(events[j])[i])
    BY <2>4 DEF SlackConsent
  <2>7. \A p \in Positions :
          /\ \A i \in DOMAIN events'[p] : Clicked(events'[p][i])
          /\ sending'[p] # None => Clicked(sending'[p])
    <3> SUFFICES ASSUME NEW p \in Positions
                 PROVE  /\ \A i \in DOMAIN events'[p] : Clicked(events'[p][i])
                        /\ sending'[p] # None => Clicked(sending'[p])
      OBVIOUS
    <3>1. CASE p = j
      <4>1. events'[p] = Tail(events[j]) /\ sending'[p] = c
        BY <1>1, <2>1, <2>2, <3>1 DEF S!TypeOK
      <4> QED  BY <2>5, <2>6, <4>1
    <3>2. CASE p # j
      <4>1. events'[p] = events[p] /\ sending'[p] = sending[p]
        BY <1>1, <2>1, <2>2, <3>2 DEF S!TypeOK
      <4> QED  BY <4>1 DEF SlackConsent
    <3> QED  BY <3>1, <3>2
  <2> QED  BY <1>1, <2>1, <2>7 DEF SlackConsent, Clicked
<1>3. CASE S!Send(j)
  <2>1. PICK k \in Calls : k = Call(j, sending[j].id) /\ k.id = sending[j].id
    BY <1>1, <1>3, CallIs DEF S!Send, S!TypeOK, S!ClickType
  <2>2. /\ sending[j] # None /\ sending' = [sending EXCEPT ![j] = None]
        /\ UNCHANGED <<events, sres>>
        /\ box' \in {box, [box EXCEPT ![k] = sending[j].action]}
    BY <1>1, <1>3, <2>1, SameCall DEF S!Send, S!TypeOK
  <2>3. <<k.id, Meaning(sending[j].action)>> \in said
    BY <2>1, <2>2 DEF SlackConsent, Clicked
  <2>4. \A q \in Calls : box'[q] # None => <<q.id, Meaning(box'[q])>> \in said
    BY <1>1, <2>2, <2>3 DEF SlackConsent, S!TypeOK
  <2>5. \A p \in Positions : sending'[p] # None => sending'[p] = sending[p]
    BY <1>1, <2>2 DEF S!TypeOK
  <2>6. \A p \in Positions :
          /\ \A i \in DOMAIN events[p] :
                              <<events[p][i].id, Meaning(events[p][i].action)>> \in said
          /\ sending'[p] # None => <<sending'[p].id, Meaning(sending'[p].action)>> \in said
    BY <2>5 DEF SlackConsent, Clicked
  <2>7. UNCHANGED <<events, sres, said, secret, slackSecret>>
    BY <1>1, <2>2
  <2> QED  BY <2>4, <2>6, <2>7 DEF SlackConsent, Clicked
<1>4. CASE S!LoopStops(j)
  BY <1>1, <1>4, SlackConsentKept DEF S!LoopStops
<1> QED  BY <1>1, <1>2, <1>3, <1>4 DEF S!Loop

LEMMA ClickConsent ==
  ASSUME SlackConsent, TypeOK, ApproverClicks
  PROVE  SlackConsent'
<1>1. PICK k \in Calls, action \in S!ActionIDs :
        /\ S!ApproverClicks(k, action) /\ said' = said \cup {<<k.id, Meaning(action)>>}
  BY DEF ApproverClicks
<1> DEFINE c == S!Click(k.id, action)
<1>2. /\ c \in S!ClickType /\ c.id = k.id /\ c.action = action
  BY <1>1, CallIs, ClickTyped
<1>3. <<c.id, Meaning(c.action)>> \in said'
  BY <1>1, <1>2
<1>4. PICK j \in Positions : events' = [events EXCEPT ![j] = Append(@, c)]
  BY <1>1 DEF S!ApproverClicks
<1>5. /\ events \in [Positions -> Seq(S!ClickType)]
      /\ UNCHANGED <<sending, box, sres, secret, slackSecret>>
  BY <1>1 DEF S!ApproverClicks, TypeOK, S!TypeOK, ApproverClicks, builtVars
<1> HIDE DEF c
<1>6. ASSUME NEW p \in Positions, NEW i \in DOMAIN events'[p]
      PROVE  (i \in DOMAIN events[p] /\ events'[p][i] = events[p][i]) \/ events'[p][i] = c
  <2>1. events'[p] \in {events[p], Append(events[p], c)}
    BY <1>4, <1>5
  <2>2. events[p] \in Seq(S!ClickType)
    BY <1>5
  <2>3. CASE events'[p] = Append(events[p], c)
    BY <1>2, <1>6, <2>2, <2>3, AppendHolds
  <2> QED  BY <1>6, <2>1, <2>3
<1>7. \A p \in Positions :
          \A i \in DOMAIN events'[p] : <<events'[p][i].id, Meaning(events'[p][i].action)>> \in said'
  BY <1>1, <1>3, <1>6 DEF SlackConsent, Clicked
<1> QED  BY <1>1, <1>5, <1>7 DEF SlackConsent, Clicked

LEMMA ConsentStep ==
  ASSUME IInv, [Next]_vars
  PROVE  TerminalConsent' /\ SlackConsent'
<1>0. TypeOK /\ Search /\ Called /\ TerminalConsent /\ SlackConsent
  BY DEF IInv
<1>1. CASE NewWorkflow
  <2>1. UNCHANGED <<said, typed, line, tres, events, sending, box, sres>>
    BY <1>1 DEF NewWorkflow, humanVars, termVars, slackVars
  <2>2. TerminalConsent'
    BY <1>0, <2>1, TerminalConsentKept
  <2>3. ASSUME NEW k \in Calls PROVE sres[k] = None
    <3>1. Untried(k)
      BY <1>0, <1>1, NothingCalled DEF NewWorkflow
    <3> QED  BY <1>0, <3>1, SameCalls DEF Untried, TypeOK, S!TypeOK
  <2>4. SlackConsent'
    BY <1>0, <2>1, <2>3 DEF SlackConsent, Clicked
  <2> QED  BY <2>2, <2>4
<1>2. ASSUME UNCHANGED <<said, secret, slackSecret>>, UNCHANGED <<typed, line, tres>>,
             UNCHANGED <<events, sending, box, sres>>
      PROVE  TerminalConsent' /\ SlackConsent'
  BY <1>0, <1>2, TerminalConsentKept, SlackConsentKept
<1>3. CASE \/ NewWorkflowFails \/ \E j \in DOMAIN channels : SlackClose(j)
           \/ HangUp \/ UNCHANGED vars
           \/ \E r \in Requests : \/ Approve(r) \/ ContextEnds(r) \/ CallChannel(r)
                                  \/ ChannelReturns(r) \/ NobodyDecided(r)
  <2>1. UNCHANGED <<said, secret, slackSecret>>
    BY <1>3 DEF NewWorkflowFails, SlackClose, HangUp, Approve, ContextEnds, CallChannel,
       ChannelReturns, NobodyDecided, vars, builtVars, humanVars
  <2>2. UNCHANGED <<typed, line, tres>>
    BY <1>3 DEF NewWorkflowFails, SlackClose, HangUp, Approve, ContextEnds, CallChannel,
       ChannelReturns, NobodyDecided, vars, termVars, T!Request, T!HangUp, T!readerVars,
       T!callVars
  <2>3. UNCHANGED <<events, sending, box, sres>>
    BY <1>3 DEF NewWorkflowFails, SlackClose, HangUp, Approve, ContextEnds, CallChannel,
       ChannelReturns, NobodyDecided, vars, slackVars, S!Request, S!Close, S!loopVars
  <2> QED  BY <1>2, <2>1, <2>2, <2>3
<1>4. ASSUME NEW k \in Calls, TerminalStep(k) PROVE TerminalConsent' /\ SlackConsent'
  <2>1. UNCHANGED <<said, secret, slackSecret, events, sending, box, sres>>
    BY <1>4 DEF TerminalStep, humanVars, builtVars, slackVars
  <2> QED  BY <1>0, <1>4, <2>1, TerminalConsentStep, SlackConsentKept
<1>5. ASSUME NEW k \in Calls, SlackStep(k) PROVE TerminalConsent' /\ SlackConsent'
  <2>1. UNCHANGED <<said, typed, line, tres>>
    BY <1>5 DEF SlackStep, humanVars, termVars
  <2> QED  BY <1>0, <1>5, <2>1, SlackConsentStep, TerminalConsentKept
<1>6. ASSUME NEW j \in DOMAIN channels, SlackLoop(j) PROVE TerminalConsent' /\ SlackConsent'
  <2>1. UNCHANGED <<said, typed, line, tres>>
    BY <1>6 DEF SlackLoop, humanVars, termVars
  <2>2. j \in Positions
    BY <1>0, <1>6 DEF TypeOK, BuiltType
  <2> QED  BY <1>0, <1>6, <2>1, <2>2, LoopConsent, TerminalConsentKept
<1>7. CASE OperatorTypes
  <2>1. UNCHANGED <<secret, slackSecret, events, sending, box, sres>> /\ said \subseteq said'
    BY <1>7 DEF OperatorTypes, builtVars, slackVars
  <2> QED  BY <1>0, <1>7, <2>1, TypedConsent, SlackConsentKept
<1>8. CASE ApproverClicks
  <2>1. UNCHANGED <<typed, line, tres>> /\ said \subseteq said'
    BY <1>8 DEF ApproverClicks, termVars
  <2> QED  BY <1>0, <1>8, <2>1, ClickConsent, TerminalConsentKept
<1> QED  BY <1>1, <1>3, <1>4, <1>5, <1>6, <1>7, <1>8 DEF Next

\* The workflow's state fits together in every reachable state: IInv.
THEOREM InvariantHolds == Spec => []IInv
<1>1. Init => IInv
  <2>1. Init => TerminalConsent /\ SlackConsent
    BY SameCalls DEF Init, T!Init, S!Init, TerminalConsent, SlackConsent
  <2> QED  BY <2>1, TypeInit, SearchInit DEF IInv
<1>2. IInv /\ [Next]_vars => IInv'
  BY TypeStep, SearchStep, ConsentStep DEF IInv
<1> QED  BY <1>1, <1>2, PTL DEF Spec

-----------------------------------------------------------------------------
(* What follows *)

\* The channels are asked in order and the first definitive answer is the
\* decision; a search without one has asked them all.
THEOREM FirstAnswerDecides == Spec => []FirstDefinitiveWins
<1>1. IInv => FirstDefinitiveWins
  <2> SUFFICES ASSUME IInv, NEW r \in Requests, apc[r] = "done", token[r] # NoToken
               PROVE  \/ \E i \in DOMAIN channels :
                           /\ decided[r] = AnswerOf(Call(i, r)) /\ IsDefinitive(decided[r])
                           /\ \A j \in 1..(i - 1) : AnswerOf(Call(j, r)) \in {"timeout", "error"}
                           /\ \A j \in (i + 1)..Len(channels) : AnswerOf(Call(j, r)) = "none"
                      \/ /\ decided[r] = "timeout"
                         /\ \A i \in DOMAIN channels : AnswerOf(Call(i, r)) \in {"timeout", "error"}
    BY DEF FirstDefinitiveWins
  <2>1. /\ Searched(r) /\ next[r] \in Nat \ {0} /\ next[r] <= Len(channels) + 1
        /\ DOMAIN channels = 1..Len(channels) /\ Len(channels) \in Nat
        /\ \A j \in DOMAIN channels : channels[j] \in {"terminal", "slack"}
    BY DEF IInv, Search, TypeOK, ApproveType, BuiltType
  <2>2. \A j \in DOMAIN channels : Untried(Call(j, r)) => AnswerOf(Call(j, r)) = "none"
    BY SameCalls, CallsOf DEF Untried, AnswerOf, ResultOf, IInv, TypeOK, T!TypeOK, S!TypeOK
  <2>3. CASE next[r] \in DOMAIN channels
    <3>1. /\ decided[r] = AnswerOf(Call(next[r], r)) /\ IsDefinitive(decided[r])
      BY <2>1, <2>3 DEF Searched
    <3>2. \A j \in 1..(next[r] - 1) : AnswerOf(Call(j, r)) \in {"timeout", "error"}
      BY <2>1, <2>3 DEF Searched
    <3>3. \A j \in (next[r] + 1)..Len(channels) : AnswerOf(Call(j, r)) = "none"
      BY <2>1, <2>2, <2>3 DEF Searched
    <3> QED  BY <2>3, <3>1, <3>2, <3>3
  <2>4. CASE next[r] \notin DOMAIN channels
    <3>1. \A i \in DOMAIN channels : i < next[r]
      BY <2>1, <2>4
    <3> QED  BY <2>1, <2>4, <3>1 DEF Searched
  <2> QED  BY <2>3, <2>4
<1> QED  BY <1>1, InvariantHolds, PTL

\* No way out of a Slack Request leaves an entry in the map of pending ones.
THEOREM NoEntryLeftBehind == Spec => []PendingIsWaiting
<1> DEFINE Inside == {"wait", "approver", "respond", "deregister"}
<1>1. Init => PendingIsWaiting
  BY SameCalls DEF Init, S!Init, PendingIsWaiting
<1>2. ASSUME IInv, PendingIsWaiting, [Next]_vars PROVE PendingIsWaiting'
  <2>0. S!TypeOK /\ \A q \in Calls : q \in pending <=> spc[q] \in Inside
    BY <1>2, SameCalls DEF IInv, TypeOK, PendingIsWaiting, S!TypeOK
  <2>1. CASE UNCHANGED <<pending, spc>>
    BY <1>2, <2>1 DEF PendingIsWaiting
  <2>2. ASSUME NEW k \in Calls, S!Request(k) \/ S!Step(k) PROVE PendingIsWaiting'
    <3>1. \E label : /\ spc' = [spc EXCEPT ![k] = label]
                     /\ \/ UNCHANGED pending /\ (label \in Inside <=> spc[k] \in Inside)
                        \/ pending' = pending \cup {k} /\ label \in Inside
                        \/ pending' = pending \ {k} /\ label \notin Inside
      <4>1. CASE S!Register(k)
        <5>1. spc' = [spc EXCEPT ![k] = "wait"] /\ pending' = pending \cup {k}
          BY <4>1 DEF S!Register, S!Goto
        <5> WITNESS "wait"
        <5> QED  BY <5>1
      <4>2. CASE S!Deregister(k)
        <5>1. spc' = [spc EXCEPT ![k] = "done"] /\ pending' = pending \ {k}
          BY <4>2 DEF S!Deregister, S!Goto
        <5> WITNESS "done"
        <5> QED  BY <5>1
      <4>3. CASE S!Request(k) \/ S!EnsureSocket(k) \/ S!SocketStarted(k) \/ S!Post(k)
        <5>1. /\ UNCHANGED pending /\ spc[k] \notin Inside
              /\ \E p \in {"start", "starting", "post", "register", "done"} :
                   spc' = [spc EXCEPT ![k] = p]
          BY <4>3 DEF S!Request, S!EnsureSocket, S!SocketStarted, S!Post, S!Goto
        <5> QED  BY <5>1
      <4>4. CASE \/ S!TakeClick(k) \/ S!ResolveApprover(k) \/ S!Respond(k)
                 \/ S!ContextDone(k)
        <5>1. /\ UNCHANGED pending /\ spc[k] \in Inside
              /\ \E p \in {"approver", "respond", "deregister"} : spc' = [spc EXCEPT ![k] = p]
          BY <4>4 DEF S!TakeClick, S!ResolveApprover, S!Respond, S!ContextDone, S!Goto
        <5> QED  BY <5>1
      <4> QED  BY <2>2, <4>1, <4>2, <4>3, <4>4 DEF S!Step
    <3> HIDE DEF Inside
    <3>2. pending' \subseteq Calls /\ \A q \in Calls : q \in pending' <=> spc'[q] \in Inside
      BY <2>0, <3>1, SameCalls DEF S!TypeOK
    <3> QED  BY <3>2 DEF PendingIsWaiting, Inside
  <2> QED
    <3>1. ASSUME NEW r \in Requests, CallChannel(r)
          PROVE  UNCHANGED <<pending, spc>> \/ \E k \in Calls : S!Request(k) \/ S!Step(k)
      <4>1. Current(r) \in Calls
        BY <1>2, <3>1, CurrentIs DEF CallChannel, IInv, TypeOK, BuiltType, ApproveType
      <4> QED  BY <3>1, <4>1 DEF CallChannel, slackVars
    <3>2. UNCHANGED <<pending, spc>> \/ \E k \in Calls : S!Request(k) \/ S!Step(k)
      BY <1>2, <3>1 DEF Next, NewWorkflow, NewWorkflowFails, Approve, ContextEnds,
         ChannelReturns, NobodyDecided, TerminalStep, SlackStep, SlackLoop, SlackClose,
         HangUp, OperatorTypes, ApproverClicks, vars, slackVars, S!Loop, S!LookUp, S!Send,
         S!LoopStops, S!Close, S!ApproverClicks
    <3> QED  BY <2>1, <2>2, <3>2
<1> QED  BY <1>1, <1>2, InvariantHolds, PTL DEF Spec

\* A Return, and whose decision it is.
LEMMA ReturnOf ==
  ASSUME IInv, NEW r \in Requests,
         Approve(r) \/ ChannelReturns(r) \/ NobodyDecided(r)
  PROVE  \/ UNCHANGED <<decided, hook>>
         \/ \E d \in Decisions, name \in {"", "terminal", "slack"} :
              /\ decided[r] = "open" /\ Return(r, d, name)
              /\ d = "approve" => <<r, "approve">> \in said
              /\ name = "slack" /\ slackSecret = secret =>
                   d = "timeout" \/ <<r, d>> \in said
<1>0. TypeOK /\ Searched(r)
  BY DEF IInv, Search
<1>1. CASE Approve(r)
  <2>1. \/ UNCHANGED <<decided, hook>>
        \/ apc[r] = "idle" /\ Return(r, "error", "")
    BY <1>1 DEF Approve
  <2> QED  BY <1>0, <2>1 DEF Searched, Decisions
<1>2. CASE ChannelReturns(r)
  <2> DEFINE name == channels[next[r]]
             result == ResultOf(Current(r))
             d == IF result.err THEN "error" ELSE result.decision
  <2>1. apc[r] = "calling" /\ Over(Current(r))
    BY <1>2 DEF ChannelReturns
  <2>2. name \in {"terminal", "slack"} /\ result \in Results /\ result # None
    BY <1>0, <2>1, AnswerType, TypesAssumption
  <2>3. \/ UNCHANGED <<decided, hook>>
        \/ IsDefinitive(d) /\ Return(r, d, name)
    BY <1>2 DEF ChannelReturns
  <2>4. ASSUME IsDefinitive(d)
        PROVE  /\ d \in Decisions
               /\ d = "approve" => <<r, "approve">> \in said
               /\ name = "slack" /\ slackSecret = secret => <<r, d>> \in said
    <3>1. ~result.err /\ d = result.decision /\ d \in Decisions
      BY <2>4 DEF IsDefinitive, Decisions
    <3>2. TerminalConsent /\ SlackConsent
      BY DEF IInv
    <3>3. Current(r) \in Calls /\ Current(r).at = next[r] /\ Current(r).id = r
      BY <1>0, <2>1, CurrentIs DEF TypeOK, ApproveType
    <3> QED  BY <2>2, <3>1, <3>2, <3>3 DEF TerminalConsent, SlackConsent, ResultOf
  <2>5. decided[r] = "open"
    BY <1>0, <2>1 DEF Searched
  <2> HIDE DEF name, result, d
  <2> QED  BY <2>2, <2>3, <2>4, <2>5
<1>3. CASE NobodyDecided(r)
  <2>1. apc[r] = "loop" /\ Return(r, "timeout", channels[Len(channels)])
    BY <1>3 DEF NobodyDecided
  <2>2. channels[Len(channels)] \in {"terminal", "slack"} /\ decided[r] = "open"
    BY <1>0, <2>1 DEF Searched, TypeOK, BuiltType
  <2> QED  BY <2>1, <2>2 DEF Decisions
<1> QED  BY <1>1, <1>2, <1>3

\* Only a Return decides and reports.
LEMMA OnlyReturnsDecide ==
  ASSUME [Next]_vars
  PROVE  \/ UNCHANGED <<decided, hook>>
         \/ \E r \in Requests : /\ Approve(r) \/ ChannelReturns(r) \/ NobodyDecided(r)
                                /\ UNCHANGED <<said, secret, slackSecret>>
BY DEF Next, NewWorkflow, NewWorkflowFails, Approve, ContextEnds, CallChannel, ChannelReturns,
   NobodyDecided, TerminalStep, SlackStep, SlackLoop, SlackClose, HangUp, OperatorTypes,
   ApproverClicks, vars, approveVars, builtVars, humanVars

\* With the workflow's secret, Slack's decision is the button its approver pressed.
THEOREM SlackDecidesByClick == Spec => []SlackDecidesAsClicked
<1>1. Init => SlackDecidesAsClicked
  BY DEF Init, SlackDecidesAsClicked
<1>2. ASSUME IInv, SlackDecidesAsClicked, [Next]_vars PROVE SlackDecidesAsClicked'
  <2>0. hook \in Seq(HookEvents)
    BY <1>2 DEF IInv, TypeOK, ApproveType
  <2>1. CASE UNCHANGED <<decided, hook>>
    <3>1. said \subseteq said'
      BY <1>2 DEF Next, NewWorkflow, NewWorkflowFails, Approve, ContextEnds, CallChannel,
         ChannelReturns, NobodyDecided, TerminalStep, SlackStep, SlackLoop, SlackClose,
         HangUp, OperatorTypes, ApproverClicks, vars, humanVars
    <3>2. slackSecret = secret \/ UNCHANGED <<secret, slackSecret>>
      <4>1. NewWorkflow \/ UNCHANGED <<secret, slackSecret>>
        BY <1>2 DEF Next, NewWorkflowFails, Approve, ContextEnds, CallChannel,
           ChannelReturns, NobodyDecided, TerminalStep, SlackStep, SlackLoop, SlackClose,
           HangUp, OperatorTypes, ApproverClicks, vars, builtVars
      <4>2. NewWorkflow => slackSecret = secret
        BY <1>2 DEF NewWorkflow, IInv, TypeOK, BuiltType
      <4> QED  BY <4>1, <4>2
    <3> QED  BY <1>2, <2>1, <3>1, <3>2 DEF SlackDecidesAsClicked
  <2>2. ASSUME NEW r \in Requests, Approve(r) \/ ChannelReturns(r) \/ NobodyDecided(r),
               UNCHANGED <<said, secret, slackSecret>>, ~UNCHANGED <<decided, hook>>
        PROVE  SlackDecidesAsClicked'
    <3>1. PICK d \in Decisions, name \in {"", "terminal", "slack"} :
            /\ Return(r, d, name)
            /\ name = "slack" /\ slackSecret = secret => d = "timeout" \/ <<r, d>> \in said
      BY <1>2, <2>2, ReturnOf
    <3>2. PICK e \in HookEvents : /\ e = [id |-> r, decision |-> d, channel |-> name]
                                  /\ hook' = Append(hook, e)
      BY <3>1 DEF Return, HookEvents
    <3>3. \A i \in DOMAIN hook' : (i \in DOMAIN hook /\ hook'[i] = hook[i]) \/ hook'[i] = e
      <4>1. e \in HookEvents /\ hook' = Append(hook, e)
        BY <3>2
      <4>2. \A i \in DOMAIN Append(hook, e) :
              (i \in DOMAIN hook /\ Append(hook, e)[i] = hook[i]) \/ Append(hook, e)[i] = e
        BY <2>0, <4>1, AppendHolds
      <4> QED  BY <4>1, <4>2
    <3>4. slackSecret = secret /\ e.channel = "slack" =>
            e.decision = "timeout" \/ <<e.id, e.decision>> \in said
      BY <3>1, <3>2
    <3> QED  BY <1>2, <2>2, <3>3, <3>4 DEF SlackDecidesAsClicked
  <2> QED  BY <1>2, <2>1, <2>2, OnlyReturnsDecide
<1> QED  BY <1>1, <1>2, InvariantHolds, PTL DEF Spec

\* The decisions the hook has seen, as the abstract specification has them.
reportedOf(h) == [i \in DOMAIN h |-> <<h[i].id, h[i].decision>>]

\* One more report is one more in the abstract sequence.
LEMMA ReportAppends ==
  ASSUME NEW h \in Seq(HookEvents), NEW e \in HookEvents
  PROVE  reportedOf(Append(h, e)) = Append(reportedOf(h), <<e.id, e.decision>>)
<1> DEFINE P == Requests \X Decisions
<1>1. \A x \in HookEvents : <<x.id, x.decision>> \in P
  BY DEF HookEvents
<1>2. \A g \in Seq(HookEvents) :
        /\ reportedOf(g) \in Seq(P) /\ Len(reportedOf(g)) = Len(g)
        /\ \A i \in 1..Len(g) : reportedOf(g)[i] = <<g[i].id, g[i].decision>>
  <2> SUFFICES ASSUME NEW g \in Seq(HookEvents)
               PROVE  /\ reportedOf(g) \in Seq(P) /\ Len(reportedOf(g)) = Len(g)
                      /\ \A i \in 1..Len(g) : reportedOf(g)[i] = <<g[i].id, g[i].decision>>
    OBVIOUS
  <2>1. Len(g) \in Nat /\ DOMAIN g = 1..Len(g) /\ \A i \in 1..Len(g) : g[i] \in HookEvents
    OBVIOUS
  <2> HIDE DEF P
  <2>2. reportedOf(g) \in [1..Len(g) -> P]
    BY <1>1, <2>1 DEF reportedOf
  <2> QED  BY <2>1, <2>2, LenProperties DEF reportedOf
<1> HIDE DEF P
<1>3. PICK p \in P : p = <<e.id, e.decision>>
  BY <1>1
<1>4. PICK g \in Seq(HookEvents) : g = Append(h, e)
  BY AppendProperties
<1>5. /\ Len(g) = Len(h) + 1 /\ g[Len(h) + 1] = e
      /\ \A i \in 1..Len(h) : g[i] = h[i]
  BY <1>4, AppendProperties
<1>6. /\ Append(reportedOf(h), p) \in Seq(P)
      /\ Len(Append(reportedOf(h), p)) = Len(h) + 1
      /\ \A i \in 1..Len(h) : Append(reportedOf(h), p)[i] = reportedOf(h)[i]
      /\ Append(reportedOf(h), p)[Len(h) + 1] = p
  BY <1>2, AppendProperties
<1>7. \A i \in 1..Len(g) : reportedOf(g)[i] = Append(reportedOf(h), p)[i]
  <2>1. \A i \in 1..Len(g) : i \in 1..Len(h) \/ i = Len(h) + 1
    BY <1>5
  <2> QED  BY <1>2, <1>3, <1>5, <1>6, <2>1
<1>8. reportedOf(g) = Append(reportedOf(h), p)
  BY <1>2, <1>5, <1>6, <1>7, SeqEqual
<1> QED  BY <1>3, <1>4, <1>8

\* The workflow, both channels and the people at them implement ApprovalGate.
THEOREM WorkflowImplementsGate == Spec => ImplementsGate
<1>1. Init => Gate!Init
  BY DEF Init, Gate!Init
<1>2. ASSUME IInv, IInv', [Next]_vars
      PROVE  [Gate!Next]_(Gate!vars)
  <2>0. hook \in Seq(HookEvents)
    BY <1>2 DEF IInv, TypeOK, ApproveType
  <2>1. CASE UNCHANGED <<said, decided, hook>>
    BY <2>1 DEF Gate!vars
  <2>2. ASSUME NEW r \in Requests, Approve(r) \/ ChannelReturns(r) \/ NobodyDecided(r),
               UNCHANGED said, ~UNCHANGED <<decided, hook>>
        PROVE  Gate!Next
    <3>1. PICK d \in Decisions, name \in {"", "terminal", "slack"} :
            /\ decided[r] = "open" /\ Return(r, d, name)
            /\ d = "approve" => <<r, "approve">> \in said
      BY <1>2, <2>2, ReturnOf
    <3>2. PICK e \in HookEvents : /\ e = [id |-> r, decision |-> d, channel |-> name]
                                  /\ hook' = Append(hook, e)
      BY <3>1 DEF Return, HookEvents
    <3>3. reportedOf(hook') = Append(reportedOf(hook), <<r, d>>)
      <4>1. reportedOf(Append(hook, e)) = Append(reportedOf(hook), <<e.id, e.decision>>)
        BY <2>0, ReportAppends
      <4>2. <<e.id, e.decision>> = <<r, d>>
        BY <3>2
      <4> QED  BY <3>2, <4>1, <4>2
    <3>4. Gate!Decide(r, d)
      BY <2>2, <3>1, <3>3 DEF Gate!Decide, Return, reportedOf
    <3> QED  BY <3>4 DEF Gate!Next, Decisions
  <2>3. ASSUME NEW r \in Requests, NEW v \in {"approve", "deny"}, said' = said \cup {<<r, v>>},
               UNCHANGED <<decided, hook>>
        PROVE  [Gate!Next]_(Gate!vars)
    <3>1. CASE v = "approve"
      <4>1. {q \in Requests : <<q, "approve">> \in said'}
              = {q \in Requests : <<q, "approve">> \in said} \cup {r}
        BY <2>3, <3>1
      <4> QED  BY <2>3, <4>1 DEF Gate!Consent, Gate!Next
    <3>2. CASE v = "deny"
      <4>1. {q \in Requests : <<q, "approve">> \in said'}
              = {q \in Requests : <<q, "approve">> \in said}
        BY <2>3, <3>2
      <4> QED  BY <2>3, <4>1 DEF Gate!vars
    <3> QED  BY <3>1, <3>2
  <2>4. \/ UNCHANGED <<said, decided, hook>>
        \/ OperatorTypes \/ ApproverClicks
        \/ \E r \in Requests : /\ Approve(r) \/ ChannelReturns(r) \/ NobodyDecided(r)
                               /\ UNCHANGED said
    BY <1>2 DEF Next, NewWorkflow, NewWorkflowFails, Approve, ContextEnds, CallChannel,
       ChannelReturns, NobodyDecided, TerminalStep, SlackStep, SlackLoop, SlackClose, HangUp,
       vars, approveVars, humanVars
  <2>5. CASE OperatorTypes
    <3>1. /\ UNCHANGED <<decided, hook>>
          /\ \/ UNCHANGED said
             \/ \E r \in prompted, v \in {"approve", "deny"} : said' = said \cup {<<r, v>>}
      BY <2>5 DEF OperatorTypes, approveVars
    <3> QED  BY <1>2, <2>1, <2>3, <3>1 DEF IInv, TypeOK, T!TypeOK
  <2>6. CASE ApproverClicks
    <3>1. /\ UNCHANGED <<decided, hook>>
          /\ \E r \in Requests, v \in {"approve", "deny"} : said' = said \cup {<<r, v>>}
      BY <2>6, CallIs DEF ApproverClicks, approveVars, Meaning
    <3> QED  BY <2>3, <3>1
  <2> QED  BY <2>1, <2>2, <2>4, <2>5, <2>6
<1> QED
  <2>1. Init /\ [][Next]_vars /\ []IInv => Gate!Spec
    BY <1>1, <1>2, PTL DEF Gate!Spec
  <2> QED  BY <2>1, InvariantHolds, PTL DEF Spec, ImplementsGate
=============================================================================
