---------------------------- MODULE SlackChannel ----------------------------
(***************************************************************************)
(* approval.SlackChannel: a prompt with two buttons in a direct message,   *)
(* and a click that comes back through the socket-mode event loop.  One    *)
(* goroutine runs the loop; each Request waits for the click the loop      *)
(* matches to it through the map of pending requests, or for its context.  *)
(* Several sections of the configuration are several channels, each with   *)
(* its own loop and map.                                                   *)
(***************************************************************************)
EXTENDS ApprovalTypes

VARIABLES
  ctx,        \* per request, its context: "none", "live", "done"
  token,      \* per request, its Token field
  slackSecret,\* SlackChannel.secret
  spc,        \* per call: "idle", "start", "starting", "post", "register",
              \* "wait", "approver", "respond", "deregister", "done"
  sres,       \* per call: what Request is about to return, or None
  socket,     \* per section, its loop: "off", "running", "stopped"
  closed,     \* per section, closeOnce: "no", "early" (done left open), "yes"
  message,    \* per call: "none", "prompt" (with its buttons), "confirmed"
  pending,    \* calls in their section's pendingInteractions
  box,        \* per call: the click in its buffered channel, or None
  events,     \* per section: clicks delivered to its loop, not yet dispatched
  sending,    \* per section: the click dispatchInteraction has looked up, or None
  panic       \* "no", or what took the process down: "send", "map"

givenVars == <<ctx, token, slackSecret>>
loopVars  == <<socket, closed, events, sending, panic>>
vars == <<ctx, token, slackSecret, spc, sres, socket, closed, message, pending, box,
          events, sending, panic>>

ActionIDs == {"approve", "deny", "other"}

Click(r, action) == [id |-> r, action |-> action]
ClickType == [id: Requests, action: ActionIDs]

Init ==
  /\ spc = [k \in Calls |-> "idle"] /\ sres = [k \in Calls |-> None]
  /\ socket = [j \in Positions |-> "off"] /\ closed = [j \in Positions |-> "no"]
  /\ message = [k \in Calls |-> "none"]
  /\ pending = {} /\ box = [k \in Calls |-> None]
  /\ events = [j \in Positions |-> <<>>] /\ sending = [j \in Positions |-> None]
  /\ panic = "no"

-----------------------------------------------------------------------------
(* The approver and the Slack service (environment) *)

\* A click on a prompt that still shows its buttons, delivered to one of the
\* connections: sections may be those of one Slack app.  An unknown action_id
\* is "other".
ApproverClicks(k, action) ==
  /\ message[k] = "prompt"
  /\ \E j \in Positions :
       /\ socket[j] # "off"
       /\ events' = [events EXCEPT ![j] = Append(@, Click(k.id, action))]
  /\ UNCHANGED <<givenVars, spc, sres, socket, closed, message, pending, box,
                 sending, panic>>

-----------------------------------------------------------------------------
(* Request *)

Goto(k, label) == spc' = [spc EXCEPT ![k] = label]
Returning(k, d, failed) == sres' = [sres EXCEPT ![k] = Result(d, failed)]

Request(k) ==
  /\ spc[k] = "idle"
  /\ Goto(k, "start")
  /\ UNCHANGED <<givenVars, sres, message, pending, box, loopVars>>

\* ensureSocketRunning: the first caller starts the loop and stays inside
\* startOnce for up to 2 s; callers that arrive meanwhile wait for it.
EnsureSocket(k) ==
  /\ spc[k] = "start" /\ \A q \in Calls : q.at = k.at => spc[q] # "starting"
  /\ socket' = [socket EXCEPT ![k.at] = IF @ = "off" THEN "running" ELSE @]
  /\ Goto(k, IF socket[k.at] = "off" THEN "starting" ELSE "post")
  /\ UNCHANGED <<givenVars, sres, closed, message, pending, box, events,
                 sending, panic>>

\* Slip: a start that failed is not reported, and Request returns no decision.
SocketStartedUnset(k) ==
  /\ spc[k] = "starting"
  /\ \/ Goto(k, "post")
     \/ closed[k.at] = "yes" /\ Goto(k, "done")
  /\ UNCHANGED <<givenVars, sres, message, pending, box, loopVars>>

\* Slip: no timer beside done.
SocketStartedOnlyByClose(k) ==
  /\ spc[k] = "starting" /\ closed[k.at] = "yes"
  /\ Goto(k, "done") /\ Returning(k, "error", TRUE)
  /\ UNCHANGED <<givenVars, message, pending, box, loopVars>>

\* The two seconds are over, or Close closed done first.
SocketStarted(k) ==
  /\ spc[k] = "starting"
  /\ \/ Goto(k, "post") /\ UNCHANGED sres
     \/ closed[k.at] = "yes" /\ Goto(k, "done") /\ Returning(k, "error", TRUE)
  /\ UNCHANGED <<givenVars, message, pending, box, loopVars>>

\* openDM, or the fallback channel, then chat.postMessage.  Either call may
\* fail, and fails when the context is done; a post whose answer is lost has
\* put the prompt up all the same.
Post(k) ==
  /\ spc[k] = "post"
  /\ \/ /\ ctx[k.id] = "live"
        /\ message' = [message EXCEPT ![k] = "prompt"]
        /\ \/ Goto(k, "register") /\ UNCHANGED sres
           \/ Goto(k, "done") /\ Returning(k, "error", TRUE)
     \/ Goto(k, "done") /\ Returning(k, "error", TRUE) /\ UNCHANGED message
  /\ UNCHANGED <<givenVars, pending, box, loopVars>>

Register(k) ==
  /\ spc[k] = "register"
  /\ pending' = pending \cup {k}
  /\ Goto(k, "wait")
  /\ UNCHANGED <<givenVars, sres, message, box, loopVars>>

\* Slip: an unknown action falls through to approve.
handleInteractionFailsOpen(k, action) ==
  IF VerifyToken(k.id, token[k.id], slackSecret) /\ action # "deny"
  THEN "approve" ELSE "deny"

\* It is the request's own token that is verified, with the channel's secret;
\* the click carries none.
handleInteraction(k, action) ==
  IF VerifyToken(k.id, token[k.id], slackSecret) /\ action = "approve"
  THEN "approve" ELSE "deny"

\* select: the click is there.  A token that does not verify ends
\* handleInteraction at once.
TakeClick(k) ==
  /\ spc[k] = "wait" /\ box[k] # None
  /\ Returning(k, handleInteraction(k, box[k]), FALSE)
  /\ box' = [box EXCEPT ![k] = None]
  /\ Goto(k, IF VerifyToken(k.id, token[k.id], slackSecret) THEN "approver" ELSE "respond")
  /\ UNCHANGED <<givenVars, message, pending, loopVars>>

\* The look-up in approverCache, a map no lock guards: two Requests of a
\* channel in it at the same time may make the runtime abort the process.
ResolveApprover(k) ==
  /\ spc[k] = "approver"
  /\ Goto(k, "respond")
  /\ \/ UNCHANGED panic
     \/ /\ \E q \in Calls \ {k} : q.at = k.at /\ spc[q] = "approver"
        /\ panic' = "map"
  /\ UNCHANGED <<givenVars, sres, message, pending, box, socket, closed, events,
                 sending>>

\* updateMessageAfterResponse: best effort, and without effect once the context
\* is done.
Respond(k) ==
  /\ spc[k] = "respond"
  /\ \/ ctx[k.id] = "live" /\ message' = [message EXCEPT ![k] = "confirmed"]
     \/ UNCHANGED message
  /\ Goto(k, "deregister")
  /\ UNCHANGED <<givenVars, sres, pending, box, loopVars>>

\* Slip: an early return instead of the deferred call leaves the map entry.
ContextDoneLeavesPending(k) ==
  /\ spc[k] = "wait" /\ ctx[k.id] = "done"
  /\ Returning(k, "timeout", TRUE)
  /\ Goto(k, "done")
  /\ UNCHANGED <<givenVars, message, pending, box, loopVars>>

\* select: the context is done.  updateMessageExpired is handed that context,
\* so its call fails and the prompt keeps its buttons.
ContextDone(k) ==
  /\ spc[k] = "wait" /\ ctx[k.id] = "done"
  /\ Returning(k, "timeout", TRUE)
  /\ Goto(k, "deregister")
  /\ UNCHANGED <<givenVars, message, pending, box, loopVars>>

\* The deferred deregisterPending closes the channel and drops the entry.
Deregister(k) ==
  /\ spc[k] = "deregister"
  /\ pending' = pending \ {k}
  /\ Goto(k, "done")
  /\ UNCHANGED <<givenVars, sres, message, box, loopVars>>

-----------------------------------------------------------------------------
(* The event loop, and Close *)

\* dispatchInteraction up to the unlock: a click whose request is not pending
\* is dropped.
LookUp(j) ==
  /\ socket[j] = "running" /\ sending[j] = None /\ events[j] # <<>>
  /\ events' = [events EXCEPT ![j] = Tail(@)]
  /\ LET click == Head(events[j]) IN
     sending' = [sending EXCEPT ![j] = IF Call(j, click.id) \in pending THEN click ELSE None]
  /\ UNCHANGED <<givenVars, spc, sres, socket, closed, message, pending, box,
                 panic>>

\* The non-blocking send, without the lock.  The request may have deregistered
\* since: its channel is closed, and a send on a closed channel panics.
Send(j) ==
  /\ sending[j] # None
  /\ sending' = [sending EXCEPT ![j] = None]
  /\ LET k == Call(j, sending[j].id) IN
     IF k \in pending
     THEN /\ box' = [box EXCEPT ![k] = IF @ = None THEN sending[j].action ELSE @]
          /\ UNCHANGED panic
     ELSE panic' = "send" /\ UNCHANGED box
  /\ UNCHANGED <<givenVars, spc, sres, socket, closed, message, pending, events>>

LoopStops(j) ==
  /\ socket[j] = "running" /\ closed[j] = "yes" /\ sending[j] = None
  /\ socket' = [socket EXCEPT ![j] = "stopped"]
  /\ UNCHANGED <<givenVars, spc, sres, closed, message, pending, box, events,
                 sending, panic>>

\* The first Close; later ones do nothing.
Close(j) ==
  /\ closed[j] = "no"
  /\ closed' = [closed EXCEPT ![j] = IF socket[j] = "off" THEN "early" ELSE "yes"]
  /\ UNCHANGED <<givenVars, spc, sres, socket, message, pending, box, events,
                 sending, panic>>

Step(k) ==
  \/ EnsureSocket(k) \/ SocketStarted(k) \/ Post(k) \/ Register(k) \/ TakeClick(k)
  \/ ResolveApprover(k) \/ Respond(k) \/ ContextDone(k) \/ Deregister(k)

Loop(j) == LookUp(j) \/ Send(j) \/ LoopStops(j)

\* Types, and a Request has something to return from its first result on.
TypeOK ==
  /\ spc \in [Calls -> {"idle", "start", "starting", "post", "register", "wait",
                        "approver", "respond", "deregister", "done"}]
  /\ sres \in [Calls -> Results \cup {None}]
  /\ \A k \in Calls :
       sres[k] # None <=> spc[k] \in {"approver", "respond", "deregister", "done"}
  /\ socket \in [Positions -> {"off", "running", "stopped"}]
  /\ closed \in [Positions -> {"no", "early", "yes"}]
  /\ message \in [Calls -> {"none", "prompt", "confirmed"}]
  /\ pending \subseteq Calls /\ box \in [Calls -> ActionIDs \cup {None}]
  /\ events \in [Positions -> Seq(ClickType)]
  /\ sending \in [Positions -> ClickType \cup {None}]
  /\ panic \in {"no", "send", "map"}
=============================================================================
