------------------------------- MODULE Proxy -------------------------------
(***************************************************************************)
(* proxy.Proxy: the stdio wrapper between an agent and an upstream MCP     *)
(* server.  Three goroutines run concurrently: pump A (agent stdin to      *)
(* child stdin, with the policy intercept), pump B (child stdout to agent  *)
(* stdout) and Run, which waits for either pump and tears the child down.  *)
(* Around them: the agent, the child process, os/exec, the signal handler  *)
(* that calls Shutdown, and a loader that may call Engine.Update.          *)
(*                                                                         *)
(* A frame is one Content-Length framed message.  Pipes are sequences;     *)
(* writes to the child are whole frames, writes to the agent are the       *)
(* header and the body separately, as WriteFrame makes them.               *)
(***************************************************************************)
EXTENDS Policy, FiniteSets

CONSTANTS Frames,     \* the frames an agent may send, each at most once
          Sessions,   \* sets of frames one agent may send before it closes
          AgentStates,\* what the agent may turn to: see agentReads
          Catalog,    \* tools registered in the action catalog
          Policies,   \* policies a loader may install
          None,       \* no frame, no policy
          PipeCap,    \* bound: frames a pipe to or from the child holds
          MaxUpdates  \* bound: Engine.Update calls

\* A frame: kind "bad" is a header ReadFrame rejects, "opaque" a body that is
\* no JSON-RPC message, "other" any message that is not a tools/call request,
\* "call" a tools/call.  The remaining fields describe a call: decodable
\* params, tool, arguments accepted by the action's schema, primary argument.
FrameType ==
  [ id: Nat, kind: {"bad", "opaque", "other", "call"}, params: BOOLEAN,
    tool: Tools, valid: BOOLEAN, target: Targets \cup {NoTarget} ]

ASSUME ProxyAssumption ==
  /\ Frames \subseteq FrameType
  /\ Catalog \subseteq Tools
  /\ Policies \subseteq CompiledPolicy
  /\ None \notin Frames /\ None \notin Policies \cup {DenyByDefault}
  /\ PipeCap \in Nat \ {0}
  /\ MaxUpdates \in Nat /\ Sessions \subseteq SUBSET Frames
  /\ AgentStates \subseteq {"reading", "stalled", "gone"}

VARIABLES
  policy,      \* Engine.current
  updates,     \* Engine.Update calls so far
  unread,      \* frames the agent sends, pump A has yet to read
  agentEOF,    \* the agent closed its end of the proxy's stdin
  agentReads,  \* the agent's end of stdout: "reading", "stalled" or "gone"
  pcA, frameA, \* pump A: where it is, the frame in hand
  decisionA,   \* the decision Evaluate returned for it
  replyA,      \* the synthetic response built for it
  pcB, msgB,   \* pump B
  stdoutMu,    \* "free", "A" or "B"
  stdout,      \* every chunk written to the agent's stdout
  toChild,     \* every frame written to the child's stdin
  childGot,    \* how many of them the child has read
  stdinOpen,   \* the proxy's end of the child's stdin
  child,       \* "none", "running", or how it ended: see Ended
  childSent,   \* every message the child wrote to its stdout
  childOut,    \* those pump B has not read
  stdoutPipe,  \* proxy's end of the child's stdout: "open" or "closed"
  finished,    \* the buffered channel both pumps report to
  pcRun,       \* Run, and main once Run has returned
  firstErr,    \* what Run received from finished
  cancelled,   \* shutdownCtx: "no", or who cancelled it first
  audit,       \* the events handed to Emitter.Emit, in order
  decidedBy,   \* history: the snapshot each call was evaluated against
  window       \* history: policies current since pump A read frameA

agentVars == <<unread, agentEOF, agentReads>>
pumpAVars == <<pcA, frameA, decisionA, replyA, decidedBy, window>>
pumpBVars == <<pcB, msgB>>
outVars   == <<stdoutMu, stdout>>
childVars == <<toChild, childGot, stdinOpen, child, childSent, childOut, stdoutPipe>>
runVars   == <<pcRun, firstErr, cancelled>>
engineVars == <<policy, updates>>
vars == <<policy, updates, unread, agentEOF, agentReads, pcA, frameA, decisionA,
          replyA, pcB, msgB, stdoutMu, stdout, toChild, childGot, stdinOpen,
          child, childSent, childOut, stdoutPipe, finished,
          pcRun, firstErr, cancelled, audit, decidedBy, window>>

CallOf(f) == [tool |-> f.tool, target |-> f.target]

\* A message on the agent's stdout: a relayed response, or a synthetic one
\* with its JSON-RPC code and the policy version it quotes.
Relayed(f) == [from |-> "child", frame |-> f]
Synthetic(f, code, version) ==
  [from |-> "proxy", frame |-> f, code |-> code, version |-> version]
Torn == [from |-> "torn", frame |-> None]  \* what a dying writer leaves

Event(what, f, detail) == [what |-> what, frame |-> f, detail |-> detail]

Chunk(part, m) == [part |-> part, msg |-> m]

Ended == {"exited", "failed", "killed"}  \* status 0, another status, SIGKILL

\* The process exists; the model ends with it.
Running == pcRun \notin {"exited", "died"}

Init ==
  /\ policy \in Policies
  /\ updates = 0
  /\ unread \in Sessions
  /\ agentEOF = FALSE /\ agentReads = "reading"
  /\ pcA = "off" /\ frameA = None /\ decisionA = "unset" /\ replyA = None
  /\ pcB = "off" /\ msgB = None
  /\ stdoutMu = "free" /\ stdout = <<>>
  /\ toChild = <<>> /\ childGot = 0 /\ stdinOpen = FALSE
  /\ child = "none" /\ childSent = <<>> /\ childOut = <<>>
  /\ stdoutPipe = "closed"
  /\ finished = <<>>
  /\ pcRun = "start" /\ firstErr = "none" /\ cancelled = "no"
  /\ audit = <<>>
  /\ decidedBy = [f \in Frames |-> None] /\ window = {}

-----------------------------------------------------------------------------
(* The agent (environment) *)

\* Frames arrive on stdin in any order, each when pump A reads it.  Closing
\* stdin drops those the agent has not sent.
AgentClose ==
  /\ ~agentEOF /\ Running
  /\ agentEOF' = TRUE
  /\ unread' \in SUBSET unread
  /\ UNCHANGED <<agentReads, pumpAVars, pumpBVars, outVars, childVars, runVars,
                 finished, audit, engineVars>>

\* The agent stops or resumes draining the proxy's stdout, or closes it.
AgentTurns(state) ==
  /\ agentReads \notin {"gone", state} /\ Running
  /\ agentReads' = state
  /\ UNCHANGED <<unread, agentEOF, pumpAVars, pumpBVars, outVars, childVars,
                 runVars, finished, audit, engineVars>>

-----------------------------------------------------------------------------
(* The upstream server and os/exec (environment) *)

\* The child takes the next frame off its stdin and answers it, or not (a
\* notification, or a request it ignores).
ChildHandle ==
  /\ child = "running" /\ childGot < Len(toChild) /\ Running
  /\ childGot' = childGot + 1
  /\ \/ UNCHANGED <<childSent, childOut>>
     \/ LET m == Relayed(toChild[childGot + 1]) IN
        /\ Len(childOut) < PipeCap /\ stdoutPipe = "open"
        /\ childSent' = Append(childSent, m)
        /\ childOut' = Append(childOut, m)
  /\ UNCHANGED <<toChild, stdinOpen, child, stdoutPipe, agentVars, pumpAVars,
                 pumpBVars, outVars, runVars, finished, audit, engineVars>>

\* The child ends, perhaps half-way through a write.
ChildEnds(how) ==
  /\ child = "running" /\ Running
  /\ child' = how
  /\ childOut' \in {childOut, Append(childOut, Torn)}
  /\ UNCHANGED <<toChild, childGot, stdinOpen, childSent, stdoutPipe, agentVars,
                 pumpAVars, pumpBVars, outVars, runVars, finished, audit,
                 engineVars>>

\* It exits of its own accord, with status 0 or another.
ChildExits == \E how \in {"exited", "failed"} : ChildEnds(how)

\* The goroutine exec.CommandContext started kills it once the context is done.
ChildKilled == cancelled # "no" /\ ChildEnds("killed")

-----------------------------------------------------------------------------
(* Run *)

\* Run up to `go p.pumpChildToAgent`.  exec.Cmd.Start fails when the context
\* is already cancelled, or the command cannot be started.
RunStart ==
  /\ pcRun = "start"
  /\ audit' = Append(audit, Event("startup", None, ""))
  /\ \/ /\ pcRun' = "returned" /\ firstErr' = "err"
        /\ UNCHANGED <<childVars, pcA, pcB>>
     \/ /\ cancelled = "no"
        /\ pcRun' = "wait" /\ pcA' = "read" /\ pcB' = "read"
        /\ child' = "running" /\ stdinOpen' = TRUE /\ stdoutPipe' = "open"
        /\ UNCHANGED <<firstErr, toChild, childGot, childSent, childOut>>
  /\ UNCHANGED <<cancelled, frameA, decisionA, replyA, decidedBy, window, msgB,
                 agentVars, outVars, finished, engineVars>>

shutdownReason(err) == IF err = "nil" THEN "clean" ELSE "child_exit"

\* Slip: the shutdown event only when there is an error to report.
RunReceiveSilentWhenClean ==
  /\ pcRun = "wait" /\ finished # <<>>
  /\ firstErr' = Head(finished)
  /\ finished' = Tail(finished)
  /\ audit' = IF firstErr' = "nil" THEN audit
              ELSE Append(audit, Event("shutdown", None, "child_exit"))
  /\ pcRun' = "cancel"
  /\ UNCHANGED <<cancelled, agentVars, pumpAVars, pumpBVars, outVars, childVars,
                 engineVars>>

\* Slip: Run waits for both pumps instead of the first.
RunReceiveBoth ==
  /\ pcRun = "wait" /\ pcA = "done" /\ pcB = "done"
  /\ firstErr' = Head(finished)
  /\ finished' = <<>>
  /\ audit' = Append(audit, Event("shutdown", None, shutdownReason(Head(finished))))
  /\ pcRun' = "cancel"
  /\ UNCHANGED <<cancelled, agentVars, pumpAVars, pumpBVars, outVars, childVars,
                 engineVars>>

RunReceive ==
  /\ pcRun = "wait" /\ finished # <<>>
  /\ firstErr' = Head(finished)
  /\ finished' = Tail(finished)
  /\ audit' = Append(audit, Event("shutdown", None, shutdownReason(Head(finished))))
  /\ pcRun' = "cancel"
  /\ UNCHANGED <<cancelled, agentVars, pumpAVars, pumpBVars, outVars, childVars,
                 engineVars>>

\* p.shutdownCancel(); then child.Shutdown closes the child's stdin.
RunCancel ==
  /\ pcRun = "cancel"
  /\ cancelled' = IF cancelled = "no" THEN "Run" ELSE cancelled
  /\ stdinOpen' = FALSE
  /\ pcRun' = "reap"
  /\ UNCHANGED <<firstErr, toChild, childGot, child, childSent, childOut,
                 stdoutPipe, agentVars, pumpAVars, pumpBVars, outVars, finished,
                 audit, engineVars>>

\* Slip: Shutdown closes the pipes without cmd.Wait.
RunReapWithoutWait ==
  /\ pcRun = "reap"
  /\ stdoutPipe' = "closed" /\ childOut' = <<>>
  /\ pcRun' = "returned"
  /\ UNCHANGED <<cancelled, firstErr, toChild, childGot, stdinOpen, child,
                 childSent, agentVars, pumpAVars, pumpBVars, outVars, finished,
                 audit, engineVars>>

\* cmd.Wait returns once the child is gone, and closes the stdout pipe under
\* pump B: what the pump's bufio.Reader does not hold yet is lost.
RunReap ==
  /\ pcRun = "reap" /\ child \in Ended
  /\ stdoutPipe' = "closed"
  /\ \E k \in 0..Len(childOut) : childOut' = SubSeq(childOut, 1, k)
  /\ firstErr' = IF child = "exited" THEN firstErr ELSE "err"
  /\ pcRun' = "returned"
  /\ UNCHANGED <<cancelled, toChild, childGot, stdinOpen, child, childSent,
                 agentVars, pumpAVars, pumpBVars, outVars, finished, audit,
                 engineVars>>

\* runRoot returns after <-runDone: the pumps end wherever they are.
ProcessExit ==
  /\ pcRun = "returned"
  /\ pcRun' = "exited"
  /\ UNCHANGED <<firstErr, cancelled, agentVars, pumpAVars, pumpBVars, outVars,
                 childVars, finished, audit, engineVars>>

\* SIGTERM, SIGINT or SIGHUP: the handler calls Proxy.Shutdown.
Shutdown ==
  /\ cancelled = "no" /\ Running
  /\ cancelled' = "Shutdown"
  /\ UNCHANGED <<pcRun, firstErr, agentVars, pumpAVars, pumpBVars, outVars,
                 childVars, finished, audit, engineVars>>

\* Engine.Update from a loader goroutine (nil stores deny-by-default).
EngineUpdate ==
  /\ updates < MaxUpdates /\ Running
  /\ policy' \in (Policies \cup {DenyByDefault}) \ {policy}
  /\ updates' = updates + 1
  /\ window' = IF frameA = None THEN window ELSE window \cup {policy'}
  /\ UNCHANGED <<pcA, frameA, decisionA, replyA, decidedBy, agentVars, pumpBVars,
                 outVars, childVars, runVars, finished, audit>>

-----------------------------------------------------------------------------
(* Pump A: agent stdin -> intercept -> child stdin or synthetic response *)

\* Slip: the pump returns without telling Run.
FinishASilent(err) ==
  /\ pcA' = "done" /\ frameA' = None
  /\ UNCHANGED finished

\* `finished <- err; return`
FinishA(err) ==
  /\ finished' = Append(finished, err)
  /\ pcA' = "done" /\ frameA' = None

\* Slip: a tools/call whose params do not decode is passed through.
PumpAReadTrustsBadParams ==
  /\ Running /\ pcA = "read"
  /\ \E f \in unread :
       /\ unread' = unread \ {f}
       /\ pcA' = IF f.kind = "call" /\ f.params THEN "intercept" ELSE "forward"
       /\ frameA' = f
       /\ window' = {policy}
  /\ UNCHANGED <<agentEOF, agentReads, decisionA, replyA, decidedBy, finished,
                 pumpBVars, outVars, childVars, runVars, audit, engineVars>>

PumpARead ==
  /\ Running /\ pcA = "read"
  /\ \/ /\ unread = {} /\ agentEOF
        /\ FinishA("nil")
        /\ UNCHANGED <<unread, window>>
     \/ \E f \in unread :
        /\ unread' = unread \ {f}
        /\ \/ f.kind = "bad" /\ FinishA("err") /\ UNCHANGED window
           \/ /\ f.kind # "bad"
              /\ pcA' = IF f.kind = "call" THEN "intercept" ELSE "forward"
              /\ frameA' = f
              /\ window' = {policy}
              /\ UNCHANGED finished
  /\ UNCHANGED <<agentEOF, agentReads, decisionA, replyA, decidedBy, pumpBVars,
                 outVars, childVars, runVars, audit, engineVars>>

\* Why interceptCall answers a call before any policy is consulted, "" if it
\* does not; the catalog decides which JSON-RPC code the agent sees.
Rejection(f) ==
  IF ~f.params THEN "invalid_params"
  ELSE IF f.tool \notin Catalog THEN "method_not_found"
  ELSE IF ~f.valid THEN "invalid_params"
  ELSE ""

\* Slip: one of the early returns of interceptCall emits nothing.
PumpAValidateSilent ==
  /\ Running /\ pcA = "intercept"
  /\ LET code == Rejection(frameA) IN
     IF code # ""
     THEN replyA' = Synthetic(frameA, code, None) /\ pcA' = "reply"
     ELSE pcA' = "evaluate" /\ UNCHANGED replyA
  /\ UNCHANGED <<frameA, decisionA, decidedBy, window, agentVars, pumpBVars,
                 outVars, childVars, runVars, finished, audit, engineVars>>

PumpAValidate ==
  /\ Running /\ pcA = "intercept"
  /\ LET code == Rejection(frameA) IN
     IF code # ""
     THEN /\ audit' = Append(audit, Event("call", frameA, "error"))
          /\ replyA' = Synthetic(frameA, code, None)
          /\ pcA' = "reply"
     ELSE /\ pcA' = "evaluate"
          /\ UNCHANGED <<audit, replyA>>
  /\ UNCHANGED <<frameA, decisionA, decidedBy, window, agentVars, pumpBVars,
                 outVars, childVars, runVars, finished, engineVars>>

\* Slip: the snapshot of an earlier call is kept and used again.
PumpAEvaluateCached ==
  /\ Running /\ pcA = "evaluate"
  /\ LET kept == {decidedBy[f] : f \in Frames} \ {None}
         used == IF kept = {} THEN policy ELSE CHOOSE p \in kept : TRUE
     IN  /\ decisionA' = EvaluatePolicy(used, CallOf(frameA))
         /\ decidedBy' = [decidedBy EXCEPT ![frameA] = used]
  /\ pcA' = "emit"
  /\ UNCHANGED <<frameA, replyA, window, agentVars, pumpBVars, outVars,
                 childVars, runVars, finished, audit, engineVars>>

PumpAEvaluate ==
  /\ Running /\ pcA = "evaluate"
  /\ decisionA' = EvaluatePolicy(policy, CallOf(frameA))
  /\ decidedBy' = [decidedBy EXCEPT ![frameA] = policy]
  /\ pcA' = "emit"
  /\ UNCHANGED <<frameA, replyA, window, agentVars, pumpBVars, outVars,
                 childVars, runVars, finished, audit, engineVars>>

\* Slip: forward whatever is not denied.
PumpAEmitForwardsUnlessDenied ==
  /\ Running /\ pcA = "emit"
  /\ audit' = Append(audit, Event("call", frameA, decisionA))
  /\ pcA' = IF decisionA # "deny" THEN "forward" ELSE "version"
  /\ UNCHANGED <<frameA, decisionA, replyA, decidedBy, window, agentVars,
                 pumpBVars, outVars, childVars, runVars, finished, engineVars>>

PumpAEmit ==
  /\ Running /\ pcA = "emit"
  /\ audit' = Append(audit, Event("call", frameA, decisionA))
  /\ pcA' = IF decisionA = "allow" THEN "forward" ELSE "version"
  /\ UNCHANGED <<frameA, decisionA, replyA, decidedBy, window, agentVars,
                 pumpBVars, outVars, childVars, runVars, finished, engineVars>>

\* The deny, approval and default branches build the same kind of response;
\* each loads engine.Current() again for the version it quotes.
PumpARefuse ==
  /\ Running /\ pcA = "version"
  /\ replyA' = Synthetic(frameA, "policy_denied", policy.version)
  /\ pcA' = "reply"
  /\ UNCHANGED <<frameA, decisionA, decidedBy, window, agentVars, pumpBVars,
                 outVars, childVars, runVars, finished, audit, engineVars>>

\* Slip: a write that fails is skipped and the pump reads on.
PumpAForwardSkips ==
  /\ Running /\ pcA = "forward"
  /\ \/ /\ child = "running" /\ stdinOpen /\ Len(toChild) - childGot < PipeCap
        /\ toChild' = Append(toChild, frameA)
     \/ /\ child # "running" \/ ~stdinOpen
        /\ UNCHANGED toChild
  /\ pcA' = "read" /\ frameA' = None
  /\ UNCHANGED <<finished, decisionA, replyA, decidedBy, window, agentVars,
                 pumpBVars, outVars, childGot, stdinOpen, child, childSent,
                 childOut, stdoutPipe, runVars, audit, engineVars>>

\* WriteFrame to the child: it blocks while the pipe is full and fails once
\* the child or the proxy's end of its stdin is gone.
PumpAForward ==
  /\ Running /\ pcA = "forward"
  /\ \/ /\ child = "running" /\ stdinOpen /\ Len(toChild) - childGot < PipeCap
        /\ toChild' = Append(toChild, frameA)
        /\ pcA' = "read" /\ frameA' = None
        /\ UNCHANGED finished
     \/ /\ child # "running" \/ ~stdinOpen
        /\ FinishA("err")
        /\ UNCHANGED toChild
  /\ UNCHANGED <<decisionA, replyA, decidedBy, window, agentVars, pumpBVars,
                 outVars, childGot, stdinOpen, child, childSent, childOut,
                 stdoutPipe, runVars, audit, engineVars>>

-----------------------------------------------------------------------------
(* writeToAgent: lock, header, body, unlock.  A write blocks while the agent *)
(* does not drain the pipe.                                                  *)

\* Slip: the mutex is not taken.
LockWithoutWaiting(g) == stdoutMu' = g

Lock(g) == stdoutMu = "free" /\ stdoutMu' = g
Unlock == stdoutMu' = "free"

Write(part, m) ==
  /\ agentReads = "reading"
  /\ stdout' = Append(stdout, Chunk(part, m))

\* Slip: TryLock, and the reply is dropped when pump B holds the mutex.
PumpATryLock ==
  /\ Running /\ pcA = "reply"
  /\ IF stdoutMu = "free"
     THEN stdoutMu' = "A" /\ pcA' = "replyHdr" /\ UNCHANGED <<frameA, replyA>>
     ELSE /\ pcA' = "read" /\ frameA' = None /\ replyA' = None
          /\ UNCHANGED stdoutMu
  /\ UNCHANGED <<decisionA, decidedBy, window, stdout, agentVars, pumpBVars,
                 childVars, runVars, finished, audit, engineVars>>

PumpALock ==
  /\ Running /\ pcA = "reply"
  /\ Lock("A")
  /\ pcA' = "replyHdr"
  /\ UNCHANGED <<frameA, decisionA, replyA, decidedBy, window, stdout, agentVars,
                 pumpBVars, childVars, runVars, finished, audit, engineVars>>

PumpAHeader ==
  /\ Running /\ pcA = "replyHdr"
  /\ Write("hdr", replyA)
  /\ pcA' = "replyBody"
  /\ UNCHANGED <<frameA, decisionA, replyA, decidedBy, window, stdoutMu, agentVars,
                 pumpBVars, childVars, runVars, finished, audit, engineVars>>

\* Slip: no else, so an answered call is forwarded as well.
PumpABodyFallsThrough ==
  /\ Running /\ pcA = "replyBody"
  /\ Write("body", replyA)
  /\ Unlock
  /\ pcA' = "forward" /\ replyA' = None
  /\ UNCHANGED <<frameA, decisionA, decidedBy, window, agentVars, pumpBVars,
                 childVars, runVars, finished, audit, engineVars>>

PumpABody ==
  /\ Running /\ pcA = "replyBody"
  /\ Write("body", replyA)
  /\ Unlock
  /\ pcA' = "read" /\ frameA' = None /\ replyA' = None
  /\ UNCHANGED <<decisionA, decidedBy, window, agentVars, pumpBVars, childVars,
                 runVars, finished, audit, engineVars>>

PumpAWriteFails ==
  /\ Running /\ pcA \in {"replyHdr", "replyBody"} /\ agentReads = "gone"
  /\ Unlock
  /\ FinishA("err")
  /\ UNCHANGED <<decisionA, replyA, decidedBy, window, stdout, agentVars, pumpBVars,
                 childVars, runVars, audit, engineVars>>

-----------------------------------------------------------------------------
(* Pump B: child stdout -> agent stdout *)

\* Slip: pump B returns at end of file without telling Run.
FinishBSilent(err) ==
  /\ pcB' = "done" /\ msgB' = None
  /\ UNCHANGED finished

FinishB(err) ==
  /\ finished' = Append(finished, err)
  /\ pcB' = "done" /\ msgB' = None

\* Slip: a new bufio.Reader for every frame, dropping what the last one held.
PumpBReadRebuffers ==
  /\ Running /\ pcB = "read"
  /\ childOut # <<>> /\ Head(childOut) # Torn
  /\ childOut' = <<>>
  /\ msgB' = Head(childOut) /\ pcB' = "relay"
  /\ UNCHANGED <<finished, toChild, childGot, stdinOpen, child, childSent,
                 stdoutPipe, agentVars, pumpAVars, outVars, runVars, audit,
                 engineVars>>

\* End of file on a frame boundary, or inside a header, is io.EOF; inside a
\* body it is an error, and so is a pipe cmd.Wait closed under the read.
PumpBRead ==
  /\ Running /\ pcB = "read"
  /\ \/ /\ childOut # <<>>
        /\ childOut' = Tail(childOut)
        /\ \/ Head(childOut) = Torn /\ \E e \in {"nil", "err"} : FinishB(e)
           \/ /\ Head(childOut) # Torn
              /\ msgB' = Head(childOut) /\ pcB' = "relay"
              /\ UNCHANGED finished
     \/ /\ childOut = <<>>
        /\ \/ stdoutPipe = "closed" /\ FinishB("err")
           \/ stdoutPipe = "open" /\ child \in Ended /\ FinishB("nil")
        /\ UNCHANGED childOut
  /\ UNCHANGED <<toChild, childGot, stdinOpen, child, childSent, stdoutPipe,
                 agentVars, pumpAVars, outVars, runVars, audit, engineVars>>

\* Slip: TryLock, and the frame is dropped when pump A holds the mutex.
PumpBTryLock ==
  /\ Running /\ pcB = "relay"
  /\ IF stdoutMu = "free" THEN stdoutMu' = "B" /\ pcB' = "relayHdr"
                          ELSE pcB' = "read" /\ UNCHANGED stdoutMu
  /\ UNCHANGED <<msgB, stdout, agentVars, pumpAVars, childVars, runVars, finished,
                 audit, engineVars>>

PumpBLock ==
  /\ Running /\ pcB = "relay"
  /\ Lock("B")
  /\ pcB' = "relayHdr"
  /\ UNCHANGED <<msgB, stdout, agentVars, pumpAVars, childVars, runVars, finished,
                 audit, engineVars>>

\* Slip: the message's buffer is released once its header is out.
PumpBHeaderReleases ==
  /\ Running /\ pcB = "relayHdr"
  /\ Write("hdr", msgB)
  /\ pcB' = "relayBody" /\ msgB' = None
  /\ UNCHANGED <<stdoutMu, agentVars, pumpAVars, childVars, runVars, finished,
                 audit, engineVars>>

PumpBHeader ==
  /\ Running /\ pcB = "relayHdr"
  /\ Write("hdr", msgB)
  /\ pcB' = "relayBody"
  /\ UNCHANGED <<msgB, stdoutMu, agentVars, pumpAVars, childVars, runVars,
                 finished, audit, engineVars>>

PumpBBody ==
  /\ Running /\ pcB = "relayBody"
  /\ Write("body", msgB)
  /\ Unlock
  /\ pcB' = "read" /\ msgB' = None
  /\ UNCHANGED <<agentVars, pumpAVars, childVars, runVars, finished, audit,
                 engineVars>>

\* Slip: the error return of writeToAgent leaves the mutex locked.
PumpBWriteFailsKeepsLock ==
  /\ Running /\ pcB \in {"relayHdr", "relayBody"} /\ agentReads = "gone"
  /\ FinishB("err")
  /\ UNCHANGED <<stdoutMu, stdout, agentVars, pumpAVars, childVars, runVars, audit,
                 engineVars>>

PumpBWriteFails ==
  /\ Running /\ pcB \in {"relayHdr", "relayBody"} /\ agentReads = "gone"
  /\ Unlock
  /\ FinishB("err")
  /\ UNCHANGED <<stdout, agentVars, pumpAVars, childVars, runVars, audit,
                 engineVars>>

\* stdout is fd 1: the Go runtime ends the program on its broken pipe.
BrokenPipe ==
  /\ Running /\ agentReads = "gone"
  /\ pcA \in {"replyHdr", "replyBody"} \/ pcB \in {"relayHdr", "relayBody"}
  /\ pcRun' = "died"
  /\ UNCHANGED <<firstErr, cancelled, agentVars, pumpAVars, pumpBVars, outVars,
                 childVars, finished, audit, engineVars>>

-----------------------------------------------------------------------------
PumpA == PumpARead \/ PumpAValidate \/ PumpAEvaluate \/ PumpAEmit
         \/ PumpARefuse \/ PumpAForward \/ PumpALock \/ PumpAHeader
         \/ PumpABody \/ PumpAWriteFails

PumpB == PumpBRead \/ PumpBLock \/ PumpBHeader \/ PumpBBody \/ PumpBWriteFails

Run == RunStart \/ RunReceive \/ RunCancel \/ RunReap \/ ProcessExit

Next ==
  \/ PumpA \/ PumpB \/ Run
  \/ Shutdown \/ EngineUpdate \/ BrokenPipe
  \/ ChildHandle \/ ChildExits \/ ChildKilled
  \/ AgentClose
  \/ \E state \in AgentStates : AgentTurns(state)

Spec == Init /\ [][Next]_vars

\* Every goroutine the proxy starts keeps running, os/exec kills the child of a
\* cancelled context, and the upstream server keeps reading its stdin.
Fairness == /\ WF_vars(PumpA) /\ WF_vars(PumpB) /\ WF_vars(Run)
            /\ WF_vars(ChildKilled) /\ WF_vars(ChildHandle)

FairSpec == Spec /\ Fairness

-----------------------------------------------------------------------------
(* Properties *)

CallFrames == {f \in Frames : f.kind = "call"}
AllPolicies == Policies \cup {DenyByDefault}

Messages ==
  {Torn} \cup {Relayed(f) : f \in Frames}
  \cup {Synthetic(f, c, v) : f \in Frames,
         c \in {"invalid_params", "method_not_found", "policy_denied"},
         v \in {p.version : p \in AllPolicies} \cup {None}}

EngineType == policy \in AllPolicies /\ updates \in Nat

AgentType ==
  /\ unread \subseteq Frames /\ agentEOF \in BOOLEAN
  /\ agentReads \in {"reading", "stalled", "gone"}

\* Where a pump stands, and with what in hand.
AWritesReply  == {"reply", "replyHdr", "replyBody"}
AHoldsFrame   == {"intercept", "evaluate", "emit", "version", "forward"}
                 \cup AWritesReply
BHoldsMessage == {"relay", "relayHdr", "relayBody"}

PumpAType ==
  /\ pcA \in {"off", "read", "done"} \cup AHoldsFrame
  /\ frameA \in Frames \cup {None} /\ (pcA \in AHoldsFrame => frameA \in Frames)
  /\ replyA \in Messages \cup {None}
    /\ (pcA \in AWritesReply => replyA \in Messages)
  /\ decisionA \in Decisions
  /\ decidedBy \in [Frames -> AllPolicies \cup {None}]
  /\ window \subseteq AllPolicies

PumpBType ==
  /\ pcB \in {"off", "read", "done"} \cup BHoldsMessage
  /\ msgB \in Messages \cup {None} /\ (pcB \in BHoldsMessage => msgB \in Messages)

OutType ==
  /\ stdoutMu \in {"free", "A", "B"}
  /\ stdout \in Seq([part: {"hdr", "body"}, msg: Messages])

ChildType ==
  /\ toChild \in Seq(Frames) /\ childGot \in 0..Len(toChild)
  /\ stdinOpen \in BOOLEAN /\ child \in {"none", "running"} \cup Ended
  /\ childSent \in Seq(Messages) /\ childOut \in Seq(Messages)
  /\ stdoutPipe \in {"open", "closed"}

RunType ==
  /\ pcRun \in {"start", "wait", "cancel", "reap", "returned", "exited", "died"}
  /\ firstErr \in {"none", "nil", "err"} /\ cancelled \in {"no", "Run", "Shutdown"}

FinishedType == finished \in Seq({"nil", "err"})

AuditEvents == [ what: {"startup", "shutdown", "call"},
                 frame: Frames \cup {None},
                 detail: {"", "clean", "child_exit", "error"} \cup Decisions ]
AuditType == audit \in Seq(AuditEvents)

TypeOK ==
  /\ EngineType /\ AgentType /\ PumpAType /\ PumpBType /\ OutType /\ ChildType
  /\ RunType /\ FinishedType /\ AuditType

\* Frames forwarded, and frames the proxy has begun to answer itself.
Forwarded == {toChild[i] : i \in DOMAIN toChild}
Answered == {stdout[i].msg.frame :
               i \in {j \in DOMAIN stdout : stdout[j].msg.from = "proxy"}}

CallEvents(f) == {i \in DOMAIN audit : audit[i].what = "call" /\ audit[i].frame = f}

PermittedBy == [p \in AllPolicies |->
  {f \in CallFrames : /\ Rejection(f) = ""
                      /\ EvaluatePolicy(p, CallOf(f)) = "allow"}]

\* The verdict on a call: the one the snapshot of the single Evaluate gave, or
\* refuse once the catalog rejected the call.
Verdict == [f \in CallFrames |->
  IF decidedBy[f] # None
  THEN IF f \in PermittedBy[decidedBy[f]] THEN "allow" ELSE "refuse"
  ELSE IF CallEvents(f) # {} THEN "refuse" ELSE "open"]

\* The two pumps, the intercept pipeline, concurrent Update and every way of
\* going down implement CallGate.
Gate == INSTANCE CallGate WITH
  Requests <- CallFrames, Policies <- AllPolicies, Permitted <- PermittedBy,
  verdict <- Verdict, upstream <- Forwarded \cap CallFrames, refused <- Answered

ImplementsGate == Gate!Spec

\* No tools/call reaches the upstream server unless the catalog accepted it and
\* the snapshot it was evaluated against allows it (proxy.go: forward only on
\* result.Forward; intercept.go: everything but allow is answered).
UpstreamSeesOnlyAllowedCalls ==
  \A i \in DOMAIN toChild : toChild[i].kind = "call" =>
    /\ decidedBy[toChild[i]] # None
    /\ toChild[i] \in PermittedBy[decidedBy[toChild[i]]]

\* A frame is forwarded at most once, answered at most once, never both.
OneOutcomePerFrame ==
  /\ \A i, j \in DOMAIN toChild : toChild[i] = toChild[j] => i = j
  /\ \A i, j \in DOMAIN stdout :
       /\ stdout[i].msg.from = "proxy" /\ stdout[j].msg.from = "proxy"
       /\ stdout[i].part = stdout[j].part
       /\ stdout[i].msg.frame = stdout[j].msg.frame
       => i = j
  /\ Forwarded \cap Answered = {}

\* The audit trail runs ahead of the effect: a call the upstream or the agent
\* has seen the outcome of has exactly one event, and it states that outcome.
AuditPrecedesEffect ==
  \A f \in CallFrames :
    /\ f \in Forwarded => \E i \in CallEvents(f) :
         CallEvents(f) = {i} /\ audit[i].detail = "allow"
    /\ f \in Answered => \E i \in CallEvents(f) :
         CallEvents(f) = {i} /\ audit[i].detail # "allow"

\* stdoutMu: the agent's stdout is whole frames, and a header without its body
\* only at the very end.
StdoutFramed ==
  \A i \in DOMAIN stdout :
    IF i % 2 = 1 THEN stdout[i].part = "hdr"
    ELSE stdout[i] = Chunk("body", stdout[i-1].msg)

\* Where the child's messages begin on the agent's stdout, and the how manieth
\* of them begins at i.
RelayedAt == {i \in DOMAIN stdout :
                stdout[i].part = "hdr" /\ stdout[i].msg.from # "proxy"}
Nth(i) == Cardinality({j \in RelayedAt : j <= i})

\* The messages pump B has taken from the child, and those that wait for it,
\* what a dying child left torn at the end not counted.
Taken == Cardinality(RelayedAt) + IF pcB \in {"relay", "relayHdr"} THEN 1 ELSE 0
Waiting == IF childOut # <<>> /\ childOut[Len(childOut)] = Torn
           THEN Len(childOut) - 1 ELSE Len(childOut)

Sent(n, m) == n \in DOMAIN childSent /\ childSent[n] = m

\* Pump B neither loses, repeats nor reorders what the child wrote: the n-th
\* message that goes to the agent is the n-th the child sent, the one in hand
\* is next, and behind it wait all the others, until cmd.Wait closes the pipe
\* or the pump gives up.
RelayedInOrder ==
  /\ \A i \in RelayedAt : Sent(Nth(i), stdout[i].msg)
  /\ pcB \in {"relay", "relayHdr"} => Sent(Taken, msgB)
  /\ stdoutPipe = "open" /\ pcB # "done" =>
       /\ \A k \in 1..Waiting : Sent(Taken + k, childOut[k])
       /\ Taken + Waiting = Len(childSent)

\* Hot reload: the policy a call is decided by was in force at some moment
\* since its frame was read (the proxy keeps no snapshot between calls), and so
\* was the one whose version a refusal quotes, which is another load's.
DecisionIsFresh ==
  frameA # None =>
    /\ decidedBy[frameA] # None => decidedBy[frameA] \in window
    /\ replyA # None =>
         (replyA.code = "policy_denied" =>
            \E p \in window : p.version = replyA.version)

\* The allow event is written before the frame is (proxy.go:274-280), so the
\* trail may say allow of a call the upstream never saw: only of the one pump A
\* is about to forward, or of the very last, whose failed write ended the pump.
AllowedIsForwardedOrLast ==
  LET unsent == {f \in CallFrames \ Forwarded :
                   \E i \in CallEvents(f) : audit[i].detail = "allow"}
  IN  /\ unsent # {} => \/ pcA = "forward" /\ unsent = {frameA}
                        \/ pcA = "done"
      /\ \A f, g \in unsent : f = g

\* Run never returns, nor the process exits after it, while a child it spawned
\* is still running.  (A runtime killed by a broken pipe does not return.)
RunReapsChild == pcRun \in {"returned", "exited"} => child # "running"

\* Startup is the first event and never recurs.  There is no shutdown event while
\* Run waits for the pumps, never a second one, and one before a Run that spawned
\* the child returns.  It need not be the last event: pump A goes on to handle,
\* and to log, what the agent sends until the process exits.
AuditMarksRun ==
  LET shutdowns == {i \in DOMAIN audit : audit[i].what = "shutdown"}
  IN  /\ \A i \in DOMAIN audit : audit[i].what = "startup" <=> i = 1
      /\ \A i, j \in shutdowns : i = j
      /\ pcRun \in {"start", "wait"} => shutdowns = {}
      /\ pcRun \in {"returned", "exited"} /\ child # "none" => shutdowns # {}

-----------------------------------------------------------------------------
(* Statements of the documentation the code does not keep *)

\* proxy.go:22-24: "Shutdown drains in-flight writes", so a process that ends
\* after Shutdown leaves no frame half-written on the agent's stdout.
InFlightWritesDrained ==
  pcRun = "exited" /\ cancelled = "Shutdown" => Len(stdout) % 2 = 0

\* proxy.go:151-152: a clean exit after either side closes its pipe returns nil,
\* unless the upstream itself failed.
CleanExitReturnsNil ==
  pcRun = "returned" /\ child # "failed" /\ cancelled = "Run" =>
    \A i \in DOMAIN audit :
      audit[i].what = "shutdown" /\ audit[i].detail = "clean" => firstErr = "nil"

-----------------------------------------------------------------------------
(* Liveness, under FairSpec.  An agent that leaves the proxy's stdout        *)
(* undrained blocks the pump that writes to it, whatever the proxy does, so  *)
(* every property is about an agent that stalls for a finite time only.      *)

Down == pcRun \in {"exited", "died"}
TearingDown == pcRun \in {"cancel", "reap", "returned"}
AgentDrains == <>[](agentReads # "stalled")

\* A signal brings the process down even while a pump is blocked on the child:
\* the kill ends the child, its end of file ends pump B, and Run wakes.
ShutdownTerminates == AgentDrains => ((cancelled # "no") ~> Down)

\* The agent closing stdin brings the process down.
AgentCloseTerminates == AgentDrains => (agentEOF ~> Down)

\* The upstream server dying brings the process down.
ChildDeathTerminates == AgentDrains => ((child \in Ended) ~> Down)

\* A call pump A read is forwarded, or answered in full, unless Run is already
\* tearing the proxy down.
EveryCallHandled ==
  AgentDrains => \A f \in CallFrames :
    (frameA = f) ~> \/ f \in Forwarded \/ TearingDown \/ Down
                    \/ \E i \in DOMAIN stdout :
                         stdout[i].part = "body" /\ stdout[i].msg.from = "proxy"
                           /\ stdout[i].msg.frame = f

\* A response the upstream wrote reaches the agent, unless Run is already
\* tearing the proxy down.
EveryResponseRelayed ==
  AgentDrains => \A f \in Frames :
    (Relayed(f) \in {childSent[i] : i \in DOMAIN childSent}) ~>
      \/ \E i \in DOMAIN stdout : stdout[i] = Chunk("body", Relayed(f))
      \/ TearingDown \/ Down
=============================================================================
