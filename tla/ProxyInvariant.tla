--------------------------- MODULE ProxyInvariant ---------------------------
(***************************************************************************)
(* Why the safety properties of Proxy hold: where each frame is, what the  *)
(* audit trail says of it, and who holds the agent's stdout.  Together     *)
(* with TypeOK and the properties themselves the invariants below are      *)
(* inductive.                                                              *)
(***************************************************************************)
EXTENDS Proxy

\* Until Run has spawned the child neither pump exists.
NotStarted == pcRun = "start" => pcA = "off" /\ pcB = "off" /\ child = "none"

\* The mutex belongs to the pump that stands inside writeToAgent.
MutexHeld ==
  /\ stdoutMu = "A" <=> pcA \in {"replyHdr", "replyBody"}
  /\ stdoutMu = "B" <=> pcB \in {"relayHdr", "relayBody"}

\* An odd chunk is the header of the message a pump is about to complete,
\* unless the agent is gone, and then nothing more is written.
HalfWritten ==
  LET last(m) == Len(stdout) % 2 = 1 /\ stdout[Len(stdout)] = Chunk("hdr", m)
  IN  /\ pcA = "replyBody" => last(replyA)
      /\ pcB = "relayBody" => last(msgB)
      /\ Len(stdout) % 2 = 0
           \/ agentReads = "gone" \/ pcA = "replyBody" \/ pcB = "relayBody"

\* The child's side of stdout never carries a message of the proxy's own.
ChildMessages ==
  /\ \A i \in DOMAIN childOut : childOut[i].from # "proxy"
  /\ pcB \in BHoldsMessage => msgB.from # "proxy"

Untouched(f) == f \notin Forwarded /\ f \notin Answered

\* Of the proxy's answer to f, at most the header is out.
HeaderOnly(f) ==
  \A i \in DOMAIN stdout :
    stdout[i].msg.from = "proxy" /\ stdout[i].msg.frame = f
      => stdout[i].part = "hdr"

\* The trail holds one event of frame f, and its decision is d or is not d.
OneEvent(f) == \E i \in DOMAIN audit : CallEvents(f) = {i}
AllowEvent(f) == OneEvent(f) /\ \A i \in CallEvents(f) : audit[i].detail = "allow"
RefusalEvent(f) == OneEvent(f) /\ \A i \in CallEvents(f) : audit[i].detail # "allow"

Permitted(f) ==
  /\ decidedBy[f] # None
  /\ Rejection(f) = "" /\ EvaluatePolicy(decidedBy[f], CallOf(f)) = "allow"

\* A frame the agent has not sent yet has left no trace.
UnreadFresh ==
  \A f \in unread :
    f # frameA /\ Untouched(f) /\ CallEvents(f) = {} /\ decidedBy[f] = None

\* What pump A has done so far with the frame in its hands.
FrameProgress ==
  LET f == frameA IN
  /\ pcA \in AHoldsFrame \ {"replyBody"} => Untouched(f)
  /\ pcA \in AHoldsFrame \ {"forward"} => f.kind = "call"
  /\ pcA \in {"intercept", "evaluate"} => CallEvents(f) = {} /\ decidedBy[f] = None
  /\ pcA = "emit" => CallEvents(f) = {}
  /\ pcA \in {"evaluate", "emit"} => Rejection(f) = ""
  /\ pcA = "emit" => /\ decidedBy[f] # None
                     /\ decisionA = EvaluatePolicy(decidedBy[f], CallOf(f))
  /\ pcA \in AWritesReply \cup {"version"} => RefusalEvent(f)
  /\ pcA \in AWritesReply => replyA.from = "proxy" /\ replyA.frame = f
  /\ pcA = "replyBody" => f \notin Forwarded /\ HeaderOnly(f)
  /\ pcA = "forward" /\ f.kind = "call" => AllowEvent(f) /\ Permitted(f)

\* Who holds the mutex and what is half-written, and the fate of every frame so
\* far: inductive with TypeOK (ProxySafetyProofs).
FateInv ==
  /\ NotStarted /\ MutexHeld /\ HalfWritten /\ StdoutFramed /\ ChildMessages
  /\ UnreadFresh /\ FrameProgress
  /\ OneOutcomePerFrame /\ AuditPrecedesEffect /\ UpstreamSeesOnlyAllowedCalls

\* Run writes the first event, and the shutdown event as it leaves its wait.
RunTrail ==
  LET told == \E i \in DOMAIN audit : audit[i].what = "shutdown"
  IN  /\ Len(audit) = 0 <=> pcRun = "start"
      /\ pcRun \in {"start", "wait"} => ~told
      /\ pcRun \in {"cancel", "reap"} => told

\* Pump A lets go of a frame before it takes the next, and a policy that is
\* installed meanwhile is in the window; the frame it answers is one the
\* snapshot, or the catalog, did not let through.
PumpAHands ==
  /\ pcA \notin AHoldsFrame => frameA = None
  /\ pcA \notin AWritesReply \cup {"done"} => replyA = None
  /\ frameA # None => policy \in window
  /\ pcA \in AWritesReply \cup {"version"} => ~Permitted(frameA)

\* What pump B has yet to read is the rest of what the child sent, or the front
\* of it once cmd.Wait has closed the pipe; only a child that died tore a write.
ChildRest ==
  /\ pcRun = "start" => stdout = <<>> /\ childOut = <<>> /\ childSent = <<>>
  /\ pcB # "done" => \A k \in 1..Waiting : Sent(Taken + k, childOut[k])
  /\ \A k \in DOMAIN childOut : childOut[k] = Torn => child \in Ended

\* The part of the inductive invariant that is no property of its own.
IInv == FateInv /\ RunTrail /\ PumpAHands /\ ChildRest
=============================================================================
