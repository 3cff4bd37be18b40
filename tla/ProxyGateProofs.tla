-------------------------- MODULE ProxyGateProofs --------------------------
(***************************************************************************)
(* What the proxy promises as a whole: Run leaves no child behind and      *)
(* marks its start and its end in the audit trail, a decision is never     *)
(* older than its frame, and the proxy implements CallGate.                *)
(***************************************************************************)
EXTENDS ProxySafetyProofs

-----------------------------------------------------------------------------
(* Run: the child, and the events that mark its start and its end *)

RunInv == RunTrail /\ AuditMarksRun /\ RunReapsChild

\* One more event at the end of the trail.
LEMMA OneMoreTold ==
  ASSUME TypeOK, NEW e \in AuditEvents, audit' = Append(audit, e)
  PROVE  /\ Len(audit) \in Nat /\ Len(audit') = Len(audit) + 1
         /\ DOMAIN audit = 1..Len(audit) /\ DOMAIN audit' = 1..(Len(audit) + 1)
         /\ \A i \in 1..Len(audit) : audit'[i] = audit[i]
         /\ audit'[Len(audit) + 1] = e
<1>1. audit \in Seq(AuditEvents)
  BY DEF TypeOK, AuditType
<1> QED  BY <1>1, AppendProperties

\* Every event but those of RunStart and RunReceive is the event of the call in
\* pump A's hands.
LEMMA TrailStep ==
  ASSUME TypeOK, [Next]_vars
  PROVE  \/ UNCHANGED audit
         \/ RunStart /\ audit' = Append(audit, Event("startup", None, ""))
         \/ RunReceive /\ \E d \in {"clean", "child_exit"} :
                            audit' = Append(audit, Event("shutdown", None, d))
         \/ /\ PumpAValidate /\ Rejection(frameA) # "" /\ frameA \in Frames
            /\ audit' = Append(audit, Event("call", frameA, "error"))
         \/ /\ PumpAEmit /\ frameA \in Frames /\ decisionA \in Decisions
            /\ audit' = Append(audit, Event("call", frameA, decisionA))
<1>1. CASE RunStart
  BY <1>1 DEF RunStart
<1>2. CASE RunReceive
  BY <1>2 DEF RunReceive, shutdownReason
<1>3. CASE PumpAValidate
  BY <1>3 DEF PumpAValidate, TypeOK, PumpAType, AHoldsFrame
<1>4. CASE PumpAEmit
  BY <1>4 DEF PumpAEmit, TypeOK, PumpAType, AHoldsFrame
<1>5. CASE PumpARead \/ PumpAEvaluate \/ PumpARefuse \/ PumpAForward \/ PumpALock
           \/ PumpAHeader \/ PumpABody \/ PumpAWriteFails
  BY <1>5 DEF PumpARead, PumpAEvaluate, PumpARefuse, PumpAForward, PumpALock,
     PumpAHeader, PumpABody, PumpAWriteFails
<1>6. CASE PumpB
  BY <1>6 DEF PumpB, PumpBRead, PumpBLock, PumpBHeader, PumpBBody, PumpBWriteFails
<1>7. CASE RunCancel \/ RunReap \/ ProcessExit \/ Shutdown \/ EngineUpdate \/ BrokenPipe
  BY <1>7 DEF RunCancel, RunReap, ProcessExit, Shutdown, EngineUpdate, BrokenPipe
<1>8. CASE ChildHandle \/ ChildExits \/ ChildKilled
  BY <1>8 DEF ChildHandle, ChildExits, ChildKilled, ChildEnds
<1>9. CASE AgentClose \/ (\E state \in AgentStates : AgentTurns(state)) \/ UNCHANGED vars
  BY <1>9 DEF AgentClose, AgentTurns, vars
<1> QED
  BY <1>1, <1>2, <1>3, <1>4, <1>5, <1>6, <1>7, <1>8, <1>9 DEF Next, PumpA, Run

\* Run and the child, in the steps that are not RunStart or RunReceive.
LEMMA RunStep ==
  ASSUME TypeOK, [Next]_vars
  PROVE  \/ RunStart \/ RunReceive
         \/ UNCHANGED <<pcRun, child>>
         \/ UNCHANGED <<pcRun, audit>> /\ child = "running" /\ child' \in Ended
         \/ UNCHANGED <<child, audit>> /\ pcRun = "cancel" /\ pcRun' = "reap"
         \/ UNCHANGED <<child, audit>> /\ pcRun = "reap" /\ pcRun' = "returned"
              /\ child \in Ended
         \/ UNCHANGED <<child, audit>> /\ pcRun = "returned" /\ pcRun' = "exited"
         \/ UNCHANGED <<child, audit>> /\ pcRun' = "died"
              /\ (pcA \in InsideWrite \/ pcB \in InsideWrite)
<1>1. CASE RunCancel \/ RunReap \/ ProcessExit \/ BrokenPipe
  BY <1>1 DEF RunCancel, RunReap, ProcessExit, BrokenPipe, childVars, InsideWrite
<1>2. CASE ChildExits \/ ChildKilled
  BY <1>2 DEF ChildExits, ChildKilled, ChildEnds, Ended, runVars
<1>3. CASE PumpA
  BY <1>3 DEF PumpA, PumpARead, PumpAValidate, PumpAEvaluate, PumpAEmit, PumpARefuse,
     PumpAForward, PumpALock, PumpAHeader, PumpABody, PumpAWriteFails, runVars, childVars
<1>4. CASE PumpB
  BY <1>4 DEF PumpB, PumpBRead, PumpBLock, PumpBHeader, PumpBBody, PumpBWriteFails,
     runVars, childVars
<1>5. CASE Shutdown \/ EngineUpdate \/ ChildHandle \/ AgentClose
           \/ (\E state \in AgentStates : AgentTurns(state)) \/ UNCHANGED vars
  BY <1>5 DEF Shutdown, EngineUpdate, ChildHandle, AgentClose, AgentTurns, vars,
     runVars, childVars
<1> QED  BY <1>1, <1>2, <1>3, <1>4, <1>5 DEF Next, Run

LEMMA RunInvStep ==
  ASSUME TypeOK, NotStarted, RunInv, [Next]_vars
  PROVE  RunInv'
<1> USE DEF RunInv
<1>0. /\ audit \in Seq(AuditEvents) /\ Len(audit) \in Nat
      /\ DOMAIN audit = 1..Len(audit)
  BY DEF TypeOK, AuditType
<1>1. CASE RunStart
  <2>1. PICK e \in AuditEvents : audit' = Append(audit, e) /\ e.what = "startup"
    <3>1. /\ Event("startup", None, "") \in AuditEvents
          /\ Event("startup", None, "").what = "startup"
      BY EventType DEF Event
    <3> QED  BY <1>1, <3>1 DEF RunStart
  <2>2. pcRun = "start" /\ Len(audit) = 0 /\ child = "none"
    BY <1>1 DEF RunStart, RunTrail, NotStarted
  <2>3. Len(audit') = 1 /\ DOMAIN audit' = {1} /\ audit'[1] = e
    BY <1>0, <2>1, <2>2, OneMoreTold
  <2>4. pcRun' = "wait" \/ (pcRun' = "returned" /\ child' = "none")
    BY <1>1, <2>2 DEF RunStart, childVars
  <2> QED  BY <2>1, <2>3, <2>4 DEF RunTrail, AuditMarksRun, RunReapsChild
<1>2. CASE RunReceive
  <2>1. PICK e \in AuditEvents : audit' = Append(audit, e) /\ e.what = "shutdown"
    <3>1. ASSUME NEW d \in {"clean", "child_exit"}
          PROVE  /\ Event("shutdown", None, d) \in AuditEvents
                 /\ Event("shutdown", None, d).what = "shutdown"
      BY EventType DEF Event
    <3> QED  BY <1>2, <3>1 DEF RunReceive, shutdownReason
  <2>2. /\ pcRun = "wait" /\ pcRun' = "cancel" /\ Len(audit) # 0
        /\ \A i \in DOMAIN audit : audit[i].what # "shutdown"
    BY <1>2 DEF RunReceive, RunTrail
  <2>3. /\ Len(audit') = Len(audit) + 1 /\ DOMAIN audit' = 1..(Len(audit) + 1)
        /\ \A i \in DOMAIN audit : audit'[i] = audit[i]
        /\ audit'[Len(audit) + 1] = e
    BY <1>0, <2>1, OneMoreTold
  <2>4. \A i \in DOMAIN audit' : i \in DOMAIN audit \/ i = Len(audit) + 1
    BY <1>0, <2>3
  <2>5. RunTrail'
    BY <1>0, <2>1, <2>2, <2>3 DEF RunTrail
  <2>6. AuditMarksRun'
    BY <1>0, <2>1, <2>2, <2>3, <2>4 DEF AuditMarksRun
  <2> QED  BY <2>2, <2>5, <2>6 DEF RunReapsChild
<1>3. CASE PumpAValidate \/ PumpAEmit
  <2>1. UNCHANGED <<pcRun, child>> /\ pcRun # "start"
    BY <1>3 DEF PumpAValidate, PumpAEmit, runVars, childVars, NotStarted
  <2>2. CASE UNCHANGED audit
    BY <2>1, <2>2 DEF RunTrail, AuditMarksRun, RunReapsChild
  <2>3. ASSUME NEW e \in AuditEvents, e.what = "call", audit' = Append(audit, e)
        PROVE  RunInv'
    <3>1. /\ Len(audit') = Len(audit) + 1 /\ DOMAIN audit' = 1..(Len(audit) + 1)
          /\ \A i \in DOMAIN audit : i \in DOMAIN audit' /\ audit'[i] = audit[i]
          /\ audit'[Len(audit) + 1] = e /\ Len(audit) # 0
      BY <1>0, <2>1, <2>3, OneMoreTold DEF RunTrail
    <3>2. \A i \in DOMAIN audit' : i \in DOMAIN audit \/ i = Len(audit) + 1
      BY <1>0, <3>1
    <3>3. \A i \in DOMAIN audit' : audit'[i].what = "shutdown" =>
             i \in DOMAIN audit /\ audit[i].what = "shutdown"
      BY <2>3, <3>1, <3>2
    <3>4. \A i \in DOMAIN audit' : audit'[i].what = "startup" <=> i = 1
      BY <1>0, <2>3, <3>1, <3>2 DEF AuditMarksRun
    <3>5. RunTrail' /\ RunReapsChild'
      BY <1>0, <2>1, <3>1, <3>3 DEF RunTrail, RunReapsChild
    <3>6. AuditMarksRun'
      BY <2>1, <3>1, <3>3, <3>4 DEF AuditMarksRun
    <3> QED  BY <3>5, <3>6
  <2>4. UNCHANGED audit \/ \E e \in AuditEvents : e.what = "call" /\ audit' = Append(audit, e)
    <3>1. frameA \in Frames /\ decisionA \in Decisions
      BY <1>3 DEF PumpAValidate, PumpAEmit, TypeOK, PumpAType, AHoldsFrame
    <3>2. /\ \A d \in {"error"} \cup Decisions :
               Event("call", frameA, d) \in AuditEvents
          /\ \A d : Event("call", frameA, d).what = "call"
      BY <3>1, EventType DEF Event
    <3> QED  BY <1>3, <3>1, <3>2 DEF PumpAValidate, PumpAEmit
  <2> QED  BY <2>2, <2>3, <2>4
<1>4. CASE UNCHANGED audit /\ ~RunStart /\ ~RunReceive
  <2>1. pcRun' = "died" /\ pcRun' # pcRun => pcRun # "start"
    BY <1>4, RunStep DEF NotStarted, InsideWrite
  <2>2. CASE UNCHANGED pcRun
    BY <1>4, <2>2, RunStep DEF RunTrail, AuditMarksRun, RunReapsChild, Ended
  <2>3. CASE pcRun' # pcRun
    BY <1>4, <2>1, <2>3, RunStep DEF RunTrail, AuditMarksRun, RunReapsChild, Ended
  <2> QED  BY <2>2, <2>3
<1> QED  BY <1>1, <1>2, <1>3, <1>4, TrailStep

-----------------------------------------------------------------------------
(* Pump A: the policy of a decision, and what an allow leaves to be done *)

LEMMA PermittedMeans ==
  ASSUME TypeOK, NEW f \in Frames, f.kind = "call", decidedBy[f] # None
  PROVE  Permitted(f) <=> f \in PermittedBy[decidedBy[f]]
<1>1. decidedBy[f] \in AllPolicies
  BY DEF TypeOK, PumpAType
<1> QED  BY <1>1 DEF Permitted, PermittedBy, CallFrames

\* The steps of the others keep what pump A has in hand; a new policy enters
\* the window.
LEMMA OthersKeepHands ==
  ASSUME [Next]_vars, ~PumpA
  PROVE  /\ UNCHANGED <<frameA, replyA, decidedBy>>
         /\ UNCHANGED pcA \/ (RunStart /\ pcA' \in {pcA, "read"})
         /\ \/ UNCHANGED <<policy, window>>
            \/ policy' \in AllPolicies /\
                 window' = IF frameA = None THEN window ELSE window \cup {policy'}
<1>1. CASE RunStart
  BY <1>1 DEF RunStart, engineVars
<1>2. CASE EngineUpdate
  BY <1>2 DEF EngineUpdate, AllPolicies
<1>3. CASE RunReceive \/ RunCancel \/ RunReap \/ ProcessExit \/ Shutdown \/ BrokenPipe
  BY <1>3 DEF RunReceive, RunCancel, RunReap, ProcessExit, Shutdown, BrokenPipe,
     pumpAVars, engineVars
<1>4. CASE PumpB
  BY <1>4 DEF PumpB, PumpBRead, PumpBLock, PumpBHeader, PumpBBody, PumpBWriteFails,
     pumpAVars, engineVars
<1>5. CASE ChildHandle \/ ChildExits \/ ChildKilled \/ AgentClose
           \/ (\E state \in AgentStates : AgentTurns(state)) \/ UNCHANGED vars
  BY <1>5 DEF ChildHandle, ChildExits, ChildKilled, ChildEnds, AgentClose, AgentTurns,
     vars, pumpAVars, engineVars
<1> QED  BY <1>1, <1>2, <1>3, <1>4, <1>5 DEF Next, Run

\* The version a refusal quotes belongs to a policy of the window.
LEMMA HandsStep ==
  ASSUME TypeOK, NotStarted, UnreadFresh, FrameProgress, PumpAHands, DecisionIsFresh,
         [Next]_vars
  PROVE  PumpAHands' /\ DecisionIsFresh'
<1>0. /\ None \notin Frames /\ None \notin AllPolicies /\ policy \in AllPolicies
      /\ decidedBy \in [Frames -> AllPolicies \cup {None}]
      /\ unread \subseteq Frames
      /\ pcA \in AHoldsFrame => frameA \in Frames
  BY NoneIsNoFrame DEF TypeOK, EngineType, PumpAType, AgentType
<1> USE DEF PumpAHands, DecisionIsFresh, AHoldsFrame, AWritesReply
<1>1. CASE ~PumpA
  <2>1. pcA' # pcA => pcA = "off" /\ pcA' = "read"
    BY <1>1, OthersKeepHands DEF RunStart, NotStarted
  <2>2. Permitted(frameA)' <=> Permitted(frameA)
    BY <1>1, OthersKeepHands DEF Permitted
  <2>3. window \subseteq window' /\ (frameA' # None => policy' \in window')
    BY <1>1, OthersKeepHands
  <2>4. PumpAHands'
    BY <1>1, <2>1, <2>2, <2>3, OthersKeepHands
  <2>5. DecisionIsFresh'
    BY <1>1, <2>3, OthersKeepHands
  <2> QED  BY <2>4, <2>5
<1>2. CASE PumpARead
  <2>1. \/ pcA' = "done" /\ frameA' = None
        \/ \E f \in unread : /\ pcA' \in {"intercept", "forward"} /\ frameA' = f
                           /\ window' = {policy}
    BY <1>2 DEF PumpARead, FinishA
  <2>2. pcA = "read" /\ replyA = None /\ UNCHANGED <<replyA, decidedBy, policy>>
    BY <1>2 DEF PumpARead, engineVars
  <2>3. \A f \in unread : decidedBy[f] = None
    BY DEF UnreadFresh
  <2> QED  BY <1>0, <2>1, <2>2, <2>3
<1>3. CASE PumpAValidate
  <2>1. /\ pcA = "intercept" /\ UNCHANGED <<frameA, decidedBy, policy, window>>
        /\ replyA = None /\ decidedBy[frameA] = None
    BY <1>3 DEF PumpAValidate, FrameProgress, engineVars
  <2>2. \/ pcA' = "evaluate" /\ replyA' = None
        \/ /\ pcA' = "reply"
           /\ replyA' = Synthetic(frameA, Rejection(frameA), None)
    BY <1>3, <2>1 DEF PumpAValidate
  <2>3. Synthetic(frameA, Rejection(frameA), None).code # "policy_denied"
    BY DEF Synthetic, Rejection
  <2>4. ~Permitted(frameA)'
    BY <2>1 DEF Permitted
  <2> QED  BY <2>1, <2>2, <2>3, <2>4
<1>4. CASE PumpAEvaluate
  <2>1. /\ pcA = "evaluate" /\ pcA' = "emit" /\ UNCHANGED <<frameA, replyA, policy, window>>
        /\ decidedBy' = [decidedBy EXCEPT ![frameA] = policy] /\ replyA = None
    BY <1>4 DEF PumpAEvaluate, engineVars
  <2>2. decidedBy'[frameA] = policy /\ policy \in window
    BY <1>0, <2>1
  <2> QED  BY <2>1, <2>2
<1>5. CASE PumpAEmit
  <2>1. /\ pcA = "emit" /\ UNCHANGED <<frameA, replyA, decidedBy, policy, window>>
        /\ replyA = None
        /\ pcA' = IF decisionA = "allow" THEN "forward" ELSE "version"
        /\ decisionA = EvaluatePolicy(decidedBy[frameA], CallOf(frameA))
    BY <1>5 DEF PumpAEmit, FrameProgress, engineVars
  <2>2. pcA' = "version" => ~Permitted(frameA)'
    BY <2>1 DEF Permitted
  <2> QED  BY <2>1, <2>2
<1>6. CASE PumpARefuse
  <2>1. /\ pcA = "version" /\ pcA' = "reply" /\ ~Permitted(frameA)
        /\ UNCHANGED <<frameA, decidedBy, policy, window>>
        /\ replyA' = Synthetic(frameA, "policy_denied", policy.version)
    BY <1>6 DEF PumpARefuse, engineVars
  <2>2. replyA'.version = policy.version /\ ~Permitted(frameA)'
    BY <2>1 DEF Synthetic, Permitted
  <2> QED  BY <1>0, <2>1, <2>2
<1>7. CASE PumpAForward
  BY <1>7 DEF PumpAForward, FinishA, engineVars
<1>8. CASE PumpALock \/ PumpAHeader
  <2>1. /\ pcA \in AWritesReply /\ pcA' \in AWritesReply
        /\ UNCHANGED <<frameA, replyA, decidedBy, policy, window>>
    BY <1>8 DEF PumpALock, PumpAHeader, engineVars
  <2> QED  BY <2>1 DEF Permitted
<1>9. CASE PumpABody \/ PumpAWriteFails
  BY <1>9 DEF PumpABody, PumpAWriteFails, FinishA, engineVars
<1> QED
  BY <1>1, <1>2, <1>3, <1>4, <1>5, <1>6, <1>7, <1>8, <1>9 DEF PumpA

\* An allow event of a call no pump has forwarded: the call pump A is about to
\* forward, or the one its failed write ended with.
Unsent == {f \in CallFrames \ Forwarded :
             \E i \in CallEvents(f) : audit[i].detail = "allow"}

\* The call events after one more event.
LEMMA OneMoreCallEvent ==
  ASSUME TypeOK, NEW e \in AuditEvents, audit' = Append(audit, e), NEW f \in Frames
  PROVE  LET new == Len(audit) + 1
         IN  /\ CallEvents(f)' = CallEvents(f) \cup
                  IF e.what = "call" /\ e.frame = f THEN {new} ELSE {}
             /\ \A i \in CallEvents(f) : audit'[i] = audit[i]
             /\ audit'[new] = e
<1>1. CallEvents(f) \subseteq DOMAIN audit
  BY DEF CallEvents
<1> QED  BY <1>1, OneMoreEvent

LEMMA AllowedStep ==
  ASSUME TypeOK, NotStarted, FrameProgress, AllowedIsForwardedOrLast, [Next]_vars
  PROVE  AllowedIsForwardedOrLast'
<1>0. /\ pcA \in AHoldsFrame => frameA \in Frames
      /\ CallFrames \subseteq Frames
  BY DEF TypeOK, PumpAType, CallFrames
<1>1. /\ Unsent # {} => (pcA = "forward" /\ Unsent = {frameA}) \/ pcA = "done"
      /\ \A f, g \in Unsent : f = g
  BY DEF AllowedIsForwardedOrLast, Unsent
<1> DEFINE Goal ==
      /\ Unsent' # {} => (pcA' = "forward" /\ Unsent' = {frameA'}) \/ pcA' = "done"
      /\ \A f, g \in Unsent' : f = g
<1> SUFFICES Goal
  BY DEF AllowedIsForwardedOrLast, Unsent, CallFrames
<1>2. ASSUME Unsent' \subseteq Unsent,
             \/ UNCHANGED <<pcA, frameA>>
             \/ pcA \notin {"forward", "done"} \/ pcA' = "done"
      PROVE  Goal
  BY <1>1, <1>2
<1>3. ASSUME UNCHANGED <<audit, toChild>> PROVE Unsent' = Unsent
  BY <1>3 DEF Unsent, Forwarded, CallEvents, CallFrames
<1>4. ASSUME NEW e \in AuditEvents, audit' = Append(audit, e),
             UNCHANGED toChild, e.what # "call" \/ e.detail # "allow"
      PROVE  Unsent' \subseteq Unsent
  <2> SUFFICES ASSUME NEW f \in CallFrames \ Forwarded, NEW i \in CallEvents(f)',
                      audit'[i].detail = "allow"
               PROVE  f \in Unsent
    BY <1>4 DEF Unsent, Forwarded, CallFrames
  <2>1. f \in Frames
    BY <1>0
  <2>2. \/ i \in CallEvents(f) /\ audit'[i] = audit[i]
        \/ e.what = "call" /\ audit'[i] = e
    BY <1>4, <2>1, OneMoreCallEvent
  <2>3. i \in CallEvents(f) /\ audit'[i] = audit[i]
    BY <1>4, <2>2
  <2> QED  BY <2>3 DEF Unsent
<1>5. CASE RunStart
  <2>1. pcA = "off" /\ UNCHANGED toChild
    BY <1>5 DEF RunStart, NotStarted, childVars
  <2>2. Event("startup", None, "") \in AuditEvents /\ Event("startup", None, "").what # "call"
    BY EventType DEF Event
  <2>3. Unsent' \subseteq Unsent
    BY <1>4, <1>5, <2>1, <2>2 DEF RunStart
  <2> QED  BY <1>2, <2>1, <2>3
<1>6. CASE RunReceive
  <2>1. UNCHANGED <<pcA, frameA, toChild>>
    BY <1>6 DEF RunReceive, pumpAVars, childVars
  <2>2. \A d \in {"clean", "child_exit"} : /\ Event("shutdown", None, d) \in AuditEvents
                                         /\ Event("shutdown", None, d).what # "call"
    BY EventType DEF Event
  <2>3. Unsent' \subseteq Unsent
    BY <1>4, <1>6, <2>1, <2>2 DEF RunReceive, shutdownReason
  <2> QED  BY <1>2, <2>1, <2>3
<1>7. CASE PumpAValidate
  <2>1. pcA = "intercept" /\ UNCHANGED toChild /\ frameA \in Frames
    BY <1>0, <1>7 DEF PumpAValidate, childVars, AHoldsFrame
  <2>2. /\ Event("call", frameA, "error") \in AuditEvents
        /\ Event("call", frameA, "error").detail # "allow"
    BY <2>1, EventType DEF Event
  <2>3. Unsent' \subseteq Unsent
    BY <1>3, <1>4, <1>7, <2>1, <2>2 DEF PumpAValidate
  <2> QED  BY <1>2, <2>1, <2>3
<1>8. CASE PumpAEmit
  <2> DEFINE e == Event("call", frameA, decisionA)
  <2>1. /\ pcA = "emit" /\ UNCHANGED <<toChild, frameA>> /\ frameA \in Frames
        /\ pcA' = IF decisionA = "allow" THEN "forward" ELSE "version"
        /\ audit' = Append(audit, e) /\ Untouched(frameA) /\ frameA.kind = "call"
    BY <1>0, <1>8 DEF PumpAEmit, childVars, AHoldsFrame, FrameProgress, AWritesReply
  <2>2. e \in AuditEvents /\ e.detail = decisionA /\ e.what = "call" /\ e.frame = frameA
    BY <2>1, EventType DEF Event, TypeOK, PumpAType
  <2> HIDE DEF e
  <2>3. Unsent = {}
    BY <1>1, <2>1
  <2>4. CASE decisionA # "allow"
    BY <1>2, <1>4, <2>1, <2>2, <2>4
  <2>5. CASE decisionA = "allow"
    <3>1. frameA \in Unsent'
      <4>1. frameA \in CallFrames \ Forwarded' /\ frameA \in CallFrames'
        BY <2>1 DEF CallFrames, Untouched, Forwarded
      <4>2. \E i \in CallEvents(frameA)' : audit'[i].detail = "allow"
        <5> PICK f \in Frames : f = frameA
          BY <2>1
        <5>1. \E i \in CallEvents(f)' : audit'[i] = e
          BY <2>1, <2>2, OneMoreCallEvent
        <5> QED  BY <2>1, <2>2, <2>5, <5>1 DEF CallEvents
      <4> QED  BY <2>1, <4>1, <4>2 DEF Unsent, CallEvents
    <3>2. ASSUME NEW f \in Unsent' PROVE f = frameA
      <4>1. f \in CallFrames \ Forwarded
        BY <2>1 DEF Unsent, Forwarded, CallFrames
      <4>2. PICK i \in CallEvents(f)' : audit'[i].detail = "allow"
        BY DEF Unsent
      <4>3. ~(i \in CallEvents(f) /\ audit'[i] = audit[i])
        BY <2>3, <4>1, <4>2 DEF Unsent
      <4>4. f \in Frames
        BY <1>0, <4>1
      <4>5. /\ CallEvents(f)' = CallEvents(f) \cup
                   IF e.what = "call" /\ e.frame = f THEN {Len(audit) + 1} ELSE {}
            /\ \A j \in CallEvents(f) : audit'[j] = audit[j]
        BY <2>1, <2>2, <4>4, OneMoreCallEvent
      <4>6. i \in CallEvents(f)'
        BY <4>2
      <4> QED  BY <2>2, <4>3, <4>5, <4>6
    <3> QED  BY <2>1, <2>5, <3>1, <3>2
  <2> QED  BY <2>4, <2>5
<1>9. CASE PumpAForward
  <2>1. /\ pcA = "forward" /\ frameA \in Frames /\ audit' = audit
        /\ \/ pcA' = "done" /\ UNCHANGED toChild
           \/ toChild' = Append(toChild, frameA)
    BY <1>0, <1>9 DEF PumpAForward, FinishA, AHoldsFrame
  <2>2. CASE pcA' = "done" /\ UNCHANGED toChild
    BY <1>2, <1>3, <2>1, <2>2
  <2>3. CASE toChild' = Append(toChild, frameA)
    <3>1. Forwarded' = Forwarded \cup {frameA}
      BY <2>1, <2>3, OneMoreForwarded
    <3>2. Unsent' \subseteq Unsent \ {frameA}
      BY <2>1, <3>1 DEF Unsent, CallEvents, CallFrames
    <3>3. Unsent' = {}
      BY <1>1, <2>1, <3>2
    <3> QED  BY <3>3
  <2> QED  BY <2>1, <2>2, <2>3
<1>10. CASE PumpARead \/ PumpAEvaluate \/ PumpARefuse \/ PumpALock \/ PumpAHeader
            \/ PumpABody \/ PumpAWriteFails
  <2>1. pcA \notin {"forward", "done"} /\ UNCHANGED <<audit, toChild>>
    BY <1>10 DEF PumpARead, PumpAEvaluate, PumpARefuse, PumpALock, PumpAHeader,
       PumpABody, PumpAWriteFails, childVars
  <2> QED  BY <1>2, <1>3, <2>1
<1>11. CASE ~PumpA /\ ~RunStart /\ ~RunReceive
  <2>1. UNCHANGED <<pcA, frameA>>
    BY <1>11, OthersKeepHands
  <2>2. UNCHANGED audit
    BY <1>11, TrailStep DEF PumpA
  <2>3. UNCHANGED toChild
    BY <1>11 DEF Next, Run, PumpB, PumpBRead, PumpBLock, PumpBHeader, PumpBBody,
       PumpBWriteFails, RunCancel, RunReap, ProcessExit, Shutdown, EngineUpdate,
       BrokenPipe, ChildHandle, ChildExits, ChildKilled, ChildEnds, AgentClose,
       AgentTurns, vars, childVars
  <2> QED  BY <1>2, <1>3, <2>1, <2>2, <2>3
<1> QED
  BY <1>5, <1>6, <1>7, <1>8, <1>9, <1>10, <1>11 DEF PumpA

-----------------------------------------------------------------------------
(* Pump B: what the child sent, in the order in which it was sent *)

LEMMA RelayedFinite ==
  ASSUME TypeOK
  PROVE  /\ Len(stdout) \in Nat /\ RelayedAt \subseteq 1..Len(stdout)
         /\ IsFiniteSet(RelayedAt) /\ Cardinality(RelayedAt) \in Nat
         /\ \A n \in Nat : IsFiniteSet({j \in RelayedAt : j <= n})
<1>1. Len(stdout) \in Nat /\ DOMAIN stdout = 1..Len(stdout)
  BY DEF TypeOK, OutType
<1>2. RelayedAt \subseteq 1..Len(stdout)
  BY <1>1 DEF RelayedAt
<1>3. IsFiniteSet(1..Len(stdout))
  BY <1>1, FS_Interval
<1>4. ASSUME NEW S \in SUBSET (1..Len(stdout)) PROVE IsFiniteSet(S)
  BY <1>3, <1>4, FS_Subset
<1>5. IsFiniteSet(RelayedAt)
  BY <1>2, <1>4
<1>6. \A n \in Nat : IsFiniteSet({j \in RelayedAt : j <= n})
  BY <1>2, <1>4
<1> QED  BY <1>1, <1>2, <1>5, <1>6, FS_CardinalityType

\* A chunk that begins no message of the child's leaves the count as it was.
LEMMA OneMoreOther ==
  ASSUME TypeOK, NEW part \in {"hdr", "body"}, NEW m \in Messages, Write(part, m),
         part = "body" \/ m.from = "proxy"
  PROVE  /\ RelayedAt' = RelayedAt
         /\ \A i \in RelayedAt : Nth(i)' = Nth(i) /\ stdout'[i] = stdout[i]
<1>1. /\ DOMAIN stdout = 1..Len(stdout) /\ DOMAIN stdout' = 1..(Len(stdout) + 1)
      /\ \A i \in 1..Len(stdout) : stdout'[i] = stdout[i]
      /\ stdout'[Len(stdout) + 1] = Chunk(part, m) /\ Len(stdout) \in Nat
  BY OneMoreChunk
<1>2. Chunk(part, m).part = part /\ Chunk(part, m).msg = m
  BY DEF Chunk
<1>3. RelayedAt' = RelayedAt
  BY <1>1, <1>2 DEF RelayedAt
<1> QED  BY <1>1, <1>3 DEF Nth, RelayedAt

\* The header of a message of the child's is the next to be counted.
LEMMA OneMoreRelayed ==
  ASSUME TypeOK, NEW m \in Messages, Write("hdr", m), m.from # "proxy"
  PROVE  /\ Cardinality(RelayedAt)' = Cardinality(RelayedAt) + 1
         /\ \A i \in RelayedAt' :
              \/ i \in RelayedAt /\ Nth(i)' = Nth(i) /\ stdout'[i] = stdout[i]
              \/ Nth(i)' = Cardinality(RelayedAt) + 1 /\ stdout'[i].msg = m
<1> PICK new \in Nat : new = Len(stdout) + 1
  BY RelayedFinite
<1>1. /\ DOMAIN stdout = 1..Len(stdout) /\ DOMAIN stdout' = 1..new
      /\ \A i \in 1..Len(stdout) : stdout'[i] = stdout[i]
      /\ stdout'[new] = Chunk("hdr", m) /\ Len(stdout) \in Nat
  BY OneMoreChunk
<1>2. Chunk("hdr", m).part = "hdr" /\ Chunk("hdr", m).msg = m
  BY DEF Chunk
<1>3. RelayedAt \subseteq 1..Len(stdout) /\ IsFiniteSet(RelayedAt)
  BY RelayedFinite
<1>4. RelayedAt' = RelayedAt \cup {new}
  BY <1>1, <1>2 DEF RelayedAt
<1>5. new \notin RelayedAt
  BY <1>1, <1>3
<1>6. Cardinality(RelayedAt)' = Cardinality(RelayedAt) + 1
  BY <1>3, <1>4, <1>5, FS_AddElement
<1>7. {j \in RelayedAt' : j <= new} = RelayedAt'
  <2>1. \A j \in RelayedAt' : j \in Nat /\ j <= new
    BY <1>1, <1>3, <1>4
  <2> QED  BY <2>1
<1>8. \A i \in RelayedAt :
        {j \in RelayedAt' : j <= i} = {j \in RelayedAt : j <= i}
  BY <1>1, <1>3, <1>4
<1>9. ASSUME NEW i \in RelayedAt
      PROVE  Nth(i)' = Nth(i) /\ stdout'[i] = stdout[i]
  BY <1>1, <1>3, <1>8 DEF Nth
<1>10. Nth(new)' = Cardinality(RelayedAt) + 1 /\ stdout'[new].msg = m
  BY <1>1, <1>2, <1>6, <1>7 DEF Nth
<1> QED  BY <1>4, <1>6, <1>9, <1>10

LEMMA WaitingType ==
  ASSUME TypeOK
  PROVE  /\ Len(childOut) \in Nat /\ DOMAIN childOut = 1..Len(childOut)
         /\ Len(childSent) \in Nat /\ DOMAIN childSent = 1..Len(childSent)
         /\ Waiting \in Nat /\ Waiting <= Len(childOut) /\ Taken \in Nat
<1>1. childOut \in Seq(Messages) /\ childSent \in Seq(Messages)
  BY DEF TypeOK, ChildType
<1>2. childOut # <<>> => Len(childOut) > 0
  BY <1>1
<1>3. Len(childOut) \in Nat /\ DOMAIN childOut = 1..Len(childOut)
  BY <1>1
<1>4. Waiting \in Nat /\ Waiting <= Len(childOut)
  BY <1>2, <1>3 DEF Waiting
<1> QED  BY <1>1, <1>3, <1>4, RelayedFinite DEF Taken

\* A step that touches neither pipe of the child's messages nor pump B.
LEMMA QuietRelay ==
  ASSUME ChildRest, RelayedInOrder, UNCHANGED <<stdout, pcB, msgB, childSent, childOut>>,
         stdoutPipe' = "open" => stdoutPipe = "open",
         child' \notin Ended => child \notin Ended,
         pcRun' = "start" => pcRun = "start"
  PROVE  ChildRest' /\ RelayedInOrder'
<1>1. /\ RelayedAt' = RelayedAt /\ Taken' = Taken /\ Waiting' = Waiting
      /\ \A i : Nth(i)' = Nth(i)
      /\ \A n, m : Sent(n, m)' = Sent(n, m)
  BY DEF RelayedAt, Taken, Waiting, Nth, Sent
<1> QED  BY <1>1 DEF ChildRest, RelayedInOrder

\* Pump B has given up: only what it wrote counts.
LEMMA DoneRelay ==
  ASSUME ChildRest, RelayedInOrder, UNCHANGED <<stdout, childSent, child>>, pcB' = "done",
         pcRun # "start", UNCHANGED pcRun,
         child \notin Ended => childOut' = childOut
  PROVE  ChildRest' /\ RelayedInOrder'
<1>1. RelayedAt' = RelayedAt /\ \A i : Nth(i)' = Nth(i)
  BY DEF RelayedAt, Nth
<1>2. \A n, m : Sent(n, m)' = Sent(n, m)
  BY DEF Sent
<1>3. child \notin Ended => Waiting' = Waiting
  BY DEF Waiting
<1> QED  BY <1>1, <1>2, <1>3 DEF ChildRest, RelayedInOrder

LEMMA PumpBReadRelay ==
  ASSUME TypeOK, NotStarted, ChildRest, RelayedInOrder, PumpBRead
  PROVE  ChildRest' /\ RelayedInOrder'
<1>1. /\ pcB = "read" /\ pcRun # "start"
      /\ UNCHANGED <<stdout, childSent, stdoutPipe, child, pcRun>>
  BY DEF PumpBRead, NotStarted, outVars, runVars
<1>2. /\ Len(childOut) \in Nat /\ DOMAIN childOut = 1..Len(childOut)
      /\ Waiting \in Nat /\ Waiting <= Len(childOut) /\ Taken \in Nat
  BY WaitingType
<1>3. RelayedAt' = RelayedAt /\ \A i : Nth(i)' = Nth(i)
  BY <1>1 DEF RelayedAt, Nth
<1>4. \A n, m : Sent(n, m)' = Sent(n, m)
  BY <1>1 DEF Sent
<1>5. CASE /\ childOut # <<>> /\ Head(childOut) # Torn
           /\ childOut' = Tail(childOut) /\ msgB' = Head(childOut) /\ pcB' = "relay"
  <2>1. /\ Len(childOut) > 0 /\ Len(childOut') = Len(childOut) - 1
        /\ \A k \in 1..Len(childOut') : childOut'[k] = childOut[k + 1]
        /\ Head(childOut) = childOut[1]
        /\ childOut' = <<>> <=> Len(childOut') = 0
        /\ DOMAIN childOut' = 1..Len(childOut')
    <3>1. childOut \in Seq(Messages)
      BY DEF TypeOK, ChildType
    <3>2. /\ Tail(childOut) \in Seq(Messages)
          /\ Len(Tail(childOut)) = Len(childOut) - 1
          /\ \A k \in 1..Len(Tail(childOut)) : Tail(childOut)[k] = childOut[k + 1]
      BY <1>5, <3>1, HeadTailProperties
    <3>3. childOut' \in Seq(Messages) /\ Len(childOut) > 0 /\ Head(childOut) = childOut[1]
      BY <1>5, <3>1, <3>2
    <3>4. (childOut' = <<>> <=> Len(childOut') = 0) /\ DOMAIN childOut' = 1..Len(childOut')
      BY <3>3, EmptySeq
    <3> QED  BY <1>5, <3>2, <3>3, <3>4
  <2>2. Waiting' = Waiting - 1 /\ Waiting >= 1
    <3>1. CASE Len(childOut) = 1
      BY <1>2, <1>5, <2>1, <3>1 DEF Waiting
    <3>2. CASE Len(childOut) > 1
      <4>1. childOut'[Len(childOut')] = childOut[Len(childOut)] /\ childOut' # <<>>
        BY <1>2, <2>1, <3>2
      <4> QED  BY <1>2, <1>5, <2>1, <3>2, <4>1 DEF Waiting
    <3> QED  BY <1>2, <2>1, <3>1, <3>2
  <2>3. Taken' = Taken + 1
    BY <1>1, <1>3, <1>5, RelayedFinite DEF Taken
  <2>4. \A k \in 1..Waiting : Sent(Taken + k, childOut[k])
    BY <1>1 DEF ChildRest
  <2>5. Sent(Taken', msgB')
    BY <1>2, <1>5, <2>1, <2>2, <2>3, <2>4
  <2>6. \A k \in 1..Waiting' : Sent(Taken' + k, childOut'[k])
    <3> SUFFICES ASSUME NEW k \in 1..Waiting' PROVE Sent(Taken' + k, childOut'[k])
      OBVIOUS
    <3>1. k + 1 \in 1..Waiting /\ childOut'[k] = childOut[k + 1]
      BY <1>2, <2>1, <2>2
    <3>2. Taken' + k = Taken + (k + 1)
      BY <1>2, <2>3
    <3> QED  BY <2>4, <3>1, <3>2
  <2>7. ChildRest'
    <3>1. \A k \in DOMAIN childOut' : k + 1 \in DOMAIN childOut
      BY <1>2, <2>1
    <3> QED  BY <1>1, <1>2, <1>4, <2>1, <2>6, <3>1 DEF ChildRest
  <2>8. RelayedInOrder'
    BY <1>1, <1>2, <1>3, <1>4, <1>5, <2>2, <2>3, <2>5, <2>6 DEF RelayedInOrder
  <2> QED  BY <2>7, <2>8
<1>6. CASE pcB' = "done" /\ childOut' = Tail(childOut) /\ childOut # <<>>
           /\ Head(childOut) = Torn
  <2>1. child \in Ended
    <3>1. childOut \in Seq(Messages) /\ Head(childOut) = childOut[1]
      BY <1>6 DEF TypeOK, ChildType
    <3> QED  BY <1>6, <3>1 DEF ChildRest
  <2> QED  BY <1>1, <1>6, <2>1, DoneRelay
<1>7. CASE pcB' = "done" /\ childOut' = childOut
  BY <1>1, <1>7, DoneRelay
<1> QED
  BY <1>5, <1>6, <1>7 DEF PumpBRead, FinishB

LEMMA RelayStep ==
  ASSUME TypeOK, NotStarted, ChildMessages, FrameProgress, ChildRest, RelayedInOrder,
         [Next]_vars
  PROVE  ChildRest' /\ RelayedInOrder'
<1>0. /\ Len(childOut) \in Nat /\ DOMAIN childOut = 1..Len(childOut)
      /\ Len(childSent) \in Nat /\ DOMAIN childSent = 1..Len(childSent)
      /\ Waiting \in Nat /\ Waiting <= Len(childOut) /\ Taken \in Nat
      /\ childOut \in Seq(Messages) /\ childSent \in Seq(Messages)
  BY WaitingType DEF TypeOK, ChildType
<1>1. CASE PumpBRead
  BY <1>1, PumpBReadRelay
<1>2. CASE PumpBLock
  <2>1. /\ pcB = "relay" /\ pcB' = "relayHdr" /\ pcRun # "start"
        /\ UNCHANGED <<stdout, msgB, childSent, childOut, stdoutPipe, child, pcRun>>
    BY <1>2 DEF PumpBLock, Lock, NotStarted, childVars, runVars
  <2>2. /\ RelayedAt' = RelayedAt /\ Taken' = Taken /\ Waiting' = Waiting
        /\ \A i : Nth(i)' = Nth(i)
        /\ \A n, m : Sent(n, m)' = Sent(n, m)
    BY <2>1 DEF RelayedAt, Taken, Waiting, Nth, Sent
  <2> QED  BY <2>1, <2>2 DEF ChildRest, RelayedInOrder
<1>3. CASE PumpBHeader
  <2>1. /\ pcB = "relayHdr" /\ pcB' = "relayBody" /\ pcRun # "start"
        /\ Write("hdr", msgB) /\ msgB \in Messages /\ msgB.from # "proxy"
        /\ UNCHANGED <<childSent, childOut, stdoutPipe, child, pcRun>>
    BY <1>3 DEF PumpBHeader, NotStarted, childVars, runVars, ChildMessages,
       BHoldsMessage, TypeOK, PumpBType
  <2>2. Waiting' = Waiting /\ \A n, m : Sent(n, m)' = Sent(n, m)
    BY <2>1 DEF Waiting, Sent
  <2>3. /\ Cardinality(RelayedAt)' = Cardinality(RelayedAt) + 1
        /\ \A i \in RelayedAt' :
             \/ i \in RelayedAt /\ Nth(i)' = Nth(i) /\ stdout'[i] = stdout[i]
             \/ Nth(i)' = Cardinality(RelayedAt) + 1 /\ stdout'[i].msg = msgB
    BY <2>1, OneMoreRelayed
  <2>4. Taken' = Taken /\ Taken = Cardinality(RelayedAt) + 1
    BY <2>1, <2>3, RelayedFinite DEF Taken
  <2>5. \A i \in RelayedAt' : Sent(Nth(i), stdout[i].msg)'
    BY <2>1, <2>3, <2>4 DEF RelayedInOrder, Sent
  <2>6. ChildRest'
    BY <2>1, <2>2, <2>4 DEF ChildRest
  <2>7. RelayedInOrder'
    BY <2>1, <2>2, <2>4, <2>5 DEF RelayedInOrder
  <2> QED  BY <2>6, <2>7
<1>4. CASE PumpBBody \/ PumpAHeader \/ PumpABody
  <2>1. PICK part \in {"hdr", "body"}, m \in Messages :
          Write(part, m) /\ (part = "body" \/ m.from = "proxy")
    BY <1>4 DEF PumpBBody, PumpAHeader, PumpABody, FrameProgress, AHoldsFrame,
       AWritesReply, BHoldsMessage, TypeOK, PumpAType, PumpBType
  <2>2. /\ RelayedAt' = RelayedAt
        /\ \A i \in RelayedAt : Nth(i)' = Nth(i) /\ stdout'[i] = stdout[i]
    BY <2>1, OneMoreOther
  <2>3. /\ pcRun # "start"
        /\ UNCHANGED <<childSent, childOut, stdoutPipe, child, pcRun>>
    BY <1>4 DEF PumpBBody, PumpAHeader, PumpABody, NotStarted, childVars, runVars
  <2>4. UNCHANGED <<pcB, msgB>> \/ (pcB = "relayBody" /\ pcB' = "read")
    BY <1>4 DEF PumpBBody, PumpAHeader, PumpABody, pumpBVars
  <2>5. Waiting' = Waiting /\ \A n, k : Sent(n, k)' = Sent(n, k)
    BY <2>3 DEF Waiting, Sent
  <2>6. Taken' = Taken
    BY <2>2, <2>4 DEF Taken
  <2>7. ChildRest'
    BY <2>3, <2>4, <2>5, <2>6 DEF ChildRest
  <2>8. RelayedInOrder'
    BY <2>2, <2>3, <2>4, <2>5, <2>6 DEF RelayedInOrder
  <2> QED  BY <2>7, <2>8
<1>5. CASE PumpBWriteFails
  <2>1. /\ pcB' = "done" /\ pcRun # "start"
        /\ UNCHANGED <<stdout, childSent, childOut, child, pcRun>>
    BY <1>5 DEF PumpBWriteFails, FinishB, NotStarted, childVars, runVars
  <2> QED  BY <2>1, DoneRelay
<1>6. CASE RunStart
  <2>1. /\ UNCHANGED <<stdout, msgB, childSent, childOut>>
        /\ stdout = <<>> /\ childOut = <<>> /\ childSent = <<>>
        /\ pcB' \in {"off", "read"} /\ pcRun' # "start"
    BY <1>6 DEF RunStart, outVars, childVars, NotStarted, ChildRest
  <2>2. RelayedAt' = {} /\ Waiting' = 0 /\ Len(childSent') = 0 /\ childOut' = <<>>
    BY <2>1 DEF RelayedAt, Waiting
  <2>3. Taken' = 0
    BY <2>1, <2>2, FS_EmptySet DEF Taken
  <2> QED  BY <2>1, <2>2, <2>3 DEF ChildRest, RelayedInOrder
<1>7. CASE RunReap
  <2>1. PICK k \in 0..Len(childOut) : childOut' = SubSeq(childOut, 1, k)
    BY <1>7 DEF RunReap
  <2>2. /\ UNCHANGED <<stdout, pcB, msgB, childSent, child>> /\ stdoutPipe' = "closed"
        /\ pcRun' = "returned" /\ child \in Ended
    BY <1>7 DEF RunReap, outVars, pumpBVars
  <2>3. /\ Len(childOut') = k /\ DOMAIN childOut' = 1..k
        /\ \A j \in 1..k : childOut'[j] = childOut[j]
    BY <1>0, <2>1, SubSeqProperties
  <2>4. Waiting' \in Nat /\ Waiting' <= Waiting
    <3>1. Waiting' \in Nat /\ Waiting' <= k
      BY <1>0, <2>3 DEF Waiting
    <3>2. CASE k = Len(childOut)
      BY <1>0, <2>1, <2>3, <3>2 DEF Waiting
    <3>3. CASE k < Len(childOut)
      BY <1>0, <3>1, <3>3 DEF Waiting
    <3>4. k = Len(childOut) \/ k < Len(childOut)
      <4>1. k \in 0..Len(childOut)
        BY <2>1
      <4>2. Len(childOut) \in Nat
        BY <1>0
      <4> QED  BY <4>1, <4>2
    <3> QED  BY <3>2, <3>3, <3>4
  <2>5. /\ RelayedAt' = RelayedAt /\ Taken' = Taken
        /\ \A i : Nth(i)' = Nth(i)
        /\ \A n, m : Sent(n, m)' = Sent(n, m)
    BY <2>2 DEF RelayedAt, Taken, Nth, Sent
  <2>6. ChildRest'
    <3>1. Waiting' <= k
      BY <1>0, <2>3 DEF Waiting
    <3>2. \A j \in 1..Waiting' : j \in 1..Waiting /\ childOut'[j] = childOut[j]
      BY <1>0, <2>3, <2>4, <3>1
    <3> QED  BY <2>2, <2>5, <3>2 DEF ChildRest
  <2>7. RelayedInOrder'
    BY <2>2, <2>5 DEF RelayedInOrder
  <2> QED  BY <2>6, <2>7
<1>8. CASE ChildHandle
  <2>1. /\ child = "running" /\ pcRun # "start"
        /\ UNCHANGED <<stdout, pcB, msgB, stdoutPipe, child, pcRun>>
    BY <1>8 DEF ChildHandle, NotStarted, outVars, pumpBVars, runVars
  <2>2. CASE UNCHANGED <<childSent, childOut>>
    BY <2>1, <2>2, QuietRelay
  <2>3. CASE ~UNCHANGED <<childSent, childOut>>
    <3>1. PICK m \in Messages : /\ m # Torn /\ stdoutPipe = "open"
                                /\ childSent' = Append(childSent, m)
                                /\ childOut' = Append(childOut, m)
      <4>1. toChild[childGot + 1] \in Frames
        BY <1>8 DEF ChildHandle, TypeOK, ChildType
      <4>2. Relayed(toChild[childGot + 1]) \in Messages
        BY <4>1, RelayedType
      <4>3. Relayed(toChild[childGot + 1]) # Torn
        BY DEF Relayed, Torn
      <4> QED  BY <1>8, <2>3, <4>2, <4>3 DEF ChildHandle
    <3>2. /\ Len(childOut') = Len(childOut) + 1 /\ DOMAIN childOut' = 1..(Len(childOut) + 1)
          /\ \A k \in 1..Len(childOut) : childOut'[k] = childOut[k]
          /\ childOut'[Len(childOut) + 1] = m
          /\ Len(childSent') = Len(childSent) + 1
          /\ DOMAIN childSent' = 1..(Len(childSent) + 1)
          /\ \A k \in 1..Len(childSent) : childSent'[k] = childSent[k]
          /\ childSent'[Len(childSent) + 1] = m
      BY <1>0, <3>1
    <3>3. Waiting = Len(childOut)
      <4>1. childOut # <<>> => Len(childOut) \in DOMAIN childOut
        BY <1>0
      <4> QED  BY <2>1, <4>1 DEF Waiting, ChildRest, Ended
    <3>4. Waiting' = Waiting + 1
      BY <1>0, <3>1, <3>2, <3>3 DEF Waiting
    <3>5. RelayedAt' = RelayedAt /\ Taken' = Taken /\ \A i : Nth(i)' = Nth(i)
      BY <2>1 DEF RelayedAt, Taken, Nth
    <3>6. \A n, x : Sent(n, x) => Sent(n, x)'
      BY <1>0, <3>2 DEF Sent
    <3>7. pcB # "done" => \A k \in 1..Waiting' : Sent(Taken + k, childOut[k])'
      <4> SUFFICES ASSUME pcB # "done", NEW k \in 1..Waiting'
                   PROVE  Sent(Taken + k, childOut[k])'
        OBVIOUS
      <4>1. CASE k \in 1..Waiting
        BY <3>2, <3>3, <3>5, <3>6, <4>1 DEF ChildRest
      <4>2. CASE k = Waiting + 1
        <5>1. Taken + Waiting = Len(childSent)
          BY <3>1 DEF RelayedInOrder
        <5>2. Taken' + k = Len(childSent) + 1 /\ childOut'[k] = m
          BY <1>0, <3>2, <3>3, <3>5, <4>2, <5>1
        <5> QED  BY <1>0, <3>2, <5>2 DEF Sent
      <4> QED  BY <1>0, <3>4, <4>1, <4>2
    <3>8. ChildRest'
      <4>1. \A k \in DOMAIN childOut' : childOut'[k] = Torn => child \in Ended
        <5> SUFFICES ASSUME NEW k \in 1..(Len(childOut) + 1), childOut'[k] = Torn
                     PROVE  child \in Ended
          BY <3>2
        <5>1. k \in 1..Len(childOut)
          BY <1>0, <3>1, <3>2
        <5> QED  BY <1>0, <3>2, <5>1 DEF ChildRest
      <4> QED  BY <2>1, <3>7, <4>1 DEF ChildRest
    <3>9. RelayedInOrder'
      <4>1. (\A i \in RelayedAt : Sent(Nth(i), stdout[i].msg))'
        <5> SUFFICES ASSUME NEW i \in RelayedAt PROVE Sent(Nth(i), stdout[i].msg)'
          BY <3>5
        <5>1. Sent(Nth(i), stdout[i].msg)
          BY DEF RelayedInOrder
        <5> QED  BY <2>1, <3>5, <3>6, <5>1
      <4>2. (pcB \in {"relay", "relayHdr"} => Sent(Taken, msgB))'
        <5>1. pcB \in {"relay", "relayHdr"} => Sent(Taken, msgB)
          BY DEF RelayedInOrder
        <5> QED  BY <2>1, <3>5, <3>6, <5>1
      <4>3. (stdoutPipe = "open" /\ pcB # "done" => Taken + Waiting = Len(childSent))'
        <5>1. pcB # "done" => Taken + Waiting = Len(childSent)
          BY <3>1 DEF RelayedInOrder
        <5>2. Taken \in Int /\ Waiting \in Int /\ Len(childSent) \in Int
          BY <1>0
        <5> QED  BY <2>1, <3>2, <3>4, <3>5, <5>1, <5>2
      <4> QED  BY <2>1, <3>7, <4>1, <4>2, <4>3 DEF RelayedInOrder
    <3> QED  BY <3>8, <3>9
  <2> QED  BY <2>2, <2>3
<1>9. CASE ChildExits \/ ChildKilled
  <2>1. /\ child = "running" /\ child' \in Ended /\ pcRun # "start"
        /\ childOut' \in {childOut, Append(childOut, Torn)}
        /\ UNCHANGED <<stdout, pcB, msgB, childSent, stdoutPipe, pcRun>>
    BY <1>9 DEF ChildExits, ChildKilled, ChildEnds, Ended, NotStarted, outVars,
       pumpBVars, runVars
  <2>2. CASE childOut' = childOut
    BY <2>1, <2>2, QuietRelay
  <2>3. CASE childOut' = Append(childOut, Torn)
    <3>1. /\ Len(childOut') = Len(childOut) + 1 /\ childOut' # <<>>
          /\ \A k \in 1..Len(childOut) : childOut'[k] = childOut[k]
          /\ childOut'[Len(childOut) + 1] = Torn
      BY <1>0, <2>3, TornType
    <3>2. Waiting = Len(childOut)
      <4>1. childOut # <<>> => Len(childOut) \in DOMAIN childOut
        BY <1>0
      <4> QED  BY <2>1, <4>1 DEF Waiting, ChildRest, Ended
    <3>3. Waiting' = Waiting
      <4>1. Waiting' = Len(childOut') - 1
        BY <1>0, <3>1 DEF Waiting
      <4> QED  BY <1>0, <3>1, <3>2, <4>1
    <3>4. /\ RelayedAt' = RelayedAt /\ Taken' = Taken
          /\ \A i : Nth(i)' = Nth(i)
          /\ \A n, m : Sent(n, m)' = Sent(n, m)
      BY <2>1 DEF RelayedAt, Taken, Nth, Sent
    <3> QED
      BY <1>0, <2>1, <3>1, <3>2, <3>3, <3>4 DEF ChildRest, RelayedInOrder
  <2> QED  BY <2>1, <2>2, <2>3
<1>10. CASE PumpA /\ ~PumpAHeader /\ ~PumpABody
  <2>1. UNCHANGED <<stdout, pcB, msgB, childSent, childOut, stdoutPipe, child, pcRun>>
    BY <1>10 DEF PumpA, PumpARead, PumpAValidate, PumpAEvaluate, PumpAEmit, PumpARefuse,
       PumpAForward, PumpALock, PumpAWriteFails, Lock, Unlock, outVars, pumpBVars,
       childVars, runVars
  <2> QED  BY <2>1, QuietRelay
<1>11. CASE RunReceive \/ RunCancel \/ ProcessExit \/ Shutdown \/ EngineUpdate \/ BrokenPipe
            \/ AgentClose \/ (\E state \in AgentStates : AgentTurns(state))
            \/ UNCHANGED vars
  <2>1. /\ UNCHANGED <<stdout, pcB, msgB, childSent, childOut, stdoutPipe, child>>
        /\ pcRun' = "start" => pcRun = "start"
    BY <1>11 DEF RunReceive, RunCancel, ProcessExit, Shutdown, EngineUpdate, BrokenPipe,
       AgentClose, AgentTurns, vars, outVars, pumpBVars, childVars, runVars
  <2> QED  BY <2>1, QuietRelay
<1> QED
  BY <1>1, <1>2, <1>3, <1>4, <1>5, <1>6, <1>7, <1>8, <1>9, <1>10, <1>11
     DEF Next, PumpB, Run

-----------------------------------------------------------------------------
(* The inductive invariant, and the properties it carries *)

\* Inductive together with TypeOK.
ProxyInv ==
  IInv /\ RunReapsChild /\ AuditMarksRun /\ DecisionIsFresh /\ AllowedIsForwardedOrLast
    /\ RelayedInOrder

LEMMA InvInit == Init => ProxyInv
<1> SUFFICES ASSUME Init PROVE ProxyInv
  OBVIOUS
<1>1. /\ pcA = "off" /\ frameA = None /\ replyA = None /\ pcRun = "start"
      /\ audit = <<>> /\ Len(audit) = 0 /\ DOMAIN audit = {}
  BY DEF Init
<1>2. FateInv
  BY FateInvInit
<1>3. RunTrail /\ RunReapsChild /\ AuditMarksRun
  BY <1>1 DEF RunTrail, RunReapsChild, AuditMarksRun
<1>4. PumpAHands /\ DecisionIsFresh
  BY <1>1 DEF PumpAHands, DecisionIsFresh, AHoldsFrame, AWritesReply
<1>5. AllowedIsForwardedOrLast
  BY <1>1 DEF AllowedIsForwardedOrLast, CallEvents
<1>6. ChildRest /\ RelayedInOrder
  <2>1. /\ stdout = <<>> /\ childOut = <<>> /\ childSent = <<>> /\ pcB = "off"
        /\ stdoutPipe = "closed"
    BY DEF Init
  <2>2. Waiting = 0 /\ RelayedAt = {}
    BY <2>1 DEF Waiting, RelayedAt
  <2> QED  BY <2>1, <2>2 DEF ChildRest, RelayedInOrder
<1> QED  BY <1>2, <1>3, <1>4, <1>5, <1>6 DEF ProxyInv, IInv

LEMMA InvStep == TypeOK /\ ProxyInv /\ [Next]_vars => ProxyInv'
<1> SUFFICES ASSUME TypeOK, ProxyInv, [Next]_vars PROVE ProxyInv'
  OBVIOUS
<1>1. IInv /\ FateInv /\ NotStarted /\ UnreadFresh /\ FrameProgress
  BY DEF ProxyInv, IInv, FateInv
<1>2. FateInv'
  BY <1>1, FateInvStep
<1>3. RunTrail' /\ RunReapsChild' /\ AuditMarksRun'
  BY <1>1, RunInvStep DEF ProxyInv, IInv, RunInv
<1>4. PumpAHands' /\ DecisionIsFresh'
  BY <1>1, HandsStep DEF ProxyInv, IInv
<1>5. AllowedIsForwardedOrLast'
  BY <1>1, AllowedStep DEF ProxyInv
<1>6. ChildRest' /\ RelayedInOrder'
  BY <1>1, RelayStep DEF ProxyInv, IInv, FateInv
<1> QED  BY <1>2, <1>3, <1>4, <1>5, <1>6 DEF ProxyInv, IInv

LEMMA AllHold == Spec => []ProxyInv
<1>1. TypeOK /\ ProxyInv /\ [Next]_vars => ProxyInv'
  BY InvStep
<1> QED  BY TypeCorrect, InvInit, <1>1, PTL DEF Spec

\* The invariant that carries the safety properties of the proxy: the fate of
\* every frame is where the audit trail and the two pipes say it is, the trail
\* tells how far Run has come, and what pump A has in hand is of this frame.
THEOREM InvariantHolds == Spec => []IInv
<1>1. ProxyInv => IInv
  BY DEF ProxyInv
<1> QED  BY AllHold, <1>1, PTL

\* Run does not return, nor the process exit after it, while the child it
\* spawned is running.
THEOREM NoChildLeftBehind == Spec => []RunReapsChild
<1>1. ProxyInv => RunReapsChild
  BY DEF ProxyInv
<1> QED  BY AllHold, <1>1, PTL

\* The trail opens with startup; a Run that spawned the child writes one shutdown
\* event, after it stopped waiting for the pumps and before it returns.  What
\* pump A still logs may come after it.
THEOREM TrailMarksRun == Spec => []AuditMarksRun
<1>1. ProxyInv => AuditMarksRun
  BY DEF ProxyInv
<1> QED  BY AllHold, <1>1, PTL

\* However often a loader replaces the policy, a call is decided by one that was
\* in force after its frame was read, and a refusal quotes the version of one.
THEOREM NoStaleDecision == Spec => []DecisionIsFresh
<1>1. ProxyInv => DecisionIsFresh
  BY DEF ProxyInv
<1> QED  BY AllHold, <1>1, PTL

\* The audit trail says allow of no more than one call the upstream server has
\* not been sent: the one in pump A's hands, or the last one.
THEOREM AllowedReachesUpstream == Spec => []AllowedIsForwardedOrLast
<1>1. ProxyInv => AllowedIsForwardedOrLast
  BY DEF ProxyInv
<1> QED  BY AllHold, <1>1, PTL

\* For any frames, pipe capacity and ways of going down: the n-th message of the
\* child's that reaches the agent is the n-th the child wrote, and none is lost
\* while the pipe is open and pump B alive.
THEOREM RepliesInOrder == Spec => []RelayedInOrder
<1>1. ProxyInv => RelayedInOrder
  BY DEF ProxyInv
<1> QED  BY AllHold, <1>1, PTL

-----------------------------------------------------------------------------
(* The proxy implements CallGate *)

\* The steps of Run, the child, the agent, the loader and the signal handler
\* write to neither pipe.
LEMMA OthersKeepPipes ==
  ASSUME [Next]_vars, ~PumpA, ~PumpB
  PROVE  UNCHANGED <<stdout, toChild>>
<1>1. CASE RunStart \/ RunReceive \/ RunCancel \/ RunReap \/ ProcessExit \/ Shutdown
           \/ EngineUpdate \/ BrokenPipe
  BY <1>1 DEF RunStart, RunReceive, RunCancel, RunReap, ProcessExit, Shutdown,
     EngineUpdate, BrokenPipe, outVars, childVars
<1>2. CASE ChildHandle \/ ChildExits \/ ChildKilled \/ AgentClose
           \/ (\E state \in AgentStates : AgentTurns(state)) \/ UNCHANGED vars
  BY <1>2 DEF ChildHandle, ChildExits, ChildKilled, ChildEnds, AgentClose, AgentTurns,
     vars, outVars, childVars
<1> QED  BY <1>1, <1>2 DEF Next, Run

\* The verdicts depend on the snapshots and on the events of calls only.
LEMMA SameVerdict ==
  ASSUME UNCHANGED decidedBy,
         \A f \in CallFrames : CallEvents(f)' = CallEvents(f) \/ decidedBy[f] # None
  PROVE  Verdict' = Verdict
<1>1. ASSUME NEW f \in CallFrames
      PROVE  (IF decidedBy'[f] # None
              THEN IF f \in PermittedBy[decidedBy'[f]] THEN "allow" ELSE "refuse"
              ELSE IF CallEvents(f)' # {} THEN "refuse" ELSE "open")
           = (IF decidedBy[f] # None
              THEN IF f \in PermittedBy[decidedBy[f]] THEN "allow" ELSE "refuse"
              ELSE IF CallEvents(f) # {} THEN "refuse" ELSE "open")
  OBVIOUS
<1> QED  BY <1>1 DEF Verdict, CallFrames, PermittedBy, AllPolicies

LEMMA RunKeepsVerdict ==
  ASSUME TypeOK, [Next]_vars, ~PumpA
  PROVE  Verdict' = Verdict
<1>1. UNCHANGED audit \/ \E e \in AuditEvents : e.what # "call" /\ audit' = Append(audit, e)
  <2>1. \A what \in {"startup", "shutdown"}, d \in {"", "clean", "child_exit"} :
          /\ Event(what, None, d) \in AuditEvents /\ Event(what, None, d).what # "call"
    BY EventType DEF Event
  <2> QED  BY <2>1, TrailStep DEF PumpA
<1>2. ASSUME NEW f \in CallFrames PROVE CallEvents(f)' = CallEvents(f)
  <2>1. CASE UNCHANGED audit
    BY <2>1 DEF CallEvents
  <2>2. ASSUME NEW e \in AuditEvents, e.what # "call", audit' = Append(audit, e)
        PROVE  CallEvents(f)' = CallEvents(f)
    <3>1. f \in Frames
      BY DEF CallFrames
    <3>2. CallEvents(f)' = CallEvents(f) \cup {}
      BY <2>2, <3>1, OneMoreEvent
    <3> QED  BY <3>2
  <2> QED  BY <1>1, <2>1, <2>2
<1> QED  BY <1>2, SameVerdict, OthersKeepHands

\* A call's event is no other call's.
LEMMA OneMoreDecision ==
  ASSUME TypeOK, NEW g \in Frames, NEW d \in {"error"} \cup Decisions,
         audit' = Append(audit, Event("call", g, d)), NEW f \in CallFrames
  PROVE  IF f = g THEN CallEvents(f)' # {} ELSE CallEvents(f)' = CallEvents(f)
<1>1. PICK e \in AuditEvents : /\ audit' = Append(audit, e)
                               /\ e.what = "call" /\ e.frame = g
  <2>1. Event("call", g, d) \in AuditEvents
    BY EventType
  <2>2. Event("call", g, d).what = "call" /\ Event("call", g, d).frame = g
    BY DEF Event
  <2> QED  BY <2>1, <2>2
<1>2. f \in Frames
  BY DEF CallFrames
<1>3. CallEvents(f)' = CallEvents(f) \cup
        IF e.what = "call" /\ e.frame = f THEN {Len(audit) + 1} ELSE {}
  BY <1>1, <1>2, OneMoreEvent
<1> QED  BY <1>1, <1>3

\* Pump A settles a call by its snapshot, or by the catalog's refusal.
LEMMA OneMoreVerdict ==
  ASSUME TypeOK, FrameProgress, PumpAValidate \/ PumpAEvaluate \/ PumpAEmit
  PROVE  \/ Verdict' = Verdict
         \/ frameA \in CallFrames /\ Gate!Decide(frameA)
<1>0. /\ frameA \in CallFrames /\ frameA \in Frames /\ policy \in AllPolicies
      /\ UNCHANGED <<stdout, toChild, policy, frameA>>
      /\ decidedBy \in [Frames -> AllPolicies \cup {None}]
  BY DEF PumpAValidate, PumpAEvaluate, PumpAEmit, TypeOK, PumpAType, EngineType,
     AHoldsFrame, AWritesReply, FrameProgress, CallFrames, outVars, childVars, engineVars
<1>a. Forwarded' = Forwarded /\ Answered' = Answered
  BY <1>0 DEF Forwarded, Answered
<1>b. ASSUME NEW v \in {"allow", "refuse"}, Verdict[frameA] = "open",
             v = IF frameA \in PermittedBy[policy] THEN "allow" ELSE "refuse",
             Verdict'[frameA] = v,
             \A f \in CallFrames : f # frameA => Verdict'[f] = Verdict[f]
      PROVE  Gate!Decide(frameA)
  <2>1. Verdict' = [Verdict EXCEPT ![frameA] = v]
    <3>1. Verdict' = [f \in CallFrames |-> Verdict'[f]] /\ DOMAIN Verdict = CallFrames
      BY DEF Verdict, CallFrames
    <3> QED  BY <1>0, <1>b, <3>1
  <2> QED  BY <1>0, <1>a, <1>b, <2>1 DEF Gate!Decide, CallFrames
<1>1. CASE PumpAValidate /\ UNCHANGED audit
  BY <1>1, SameVerdict DEF PumpAValidate, CallEvents
<1>2. CASE PumpAValidate /\ audit' # audit
  <2>1. /\ Rejection(frameA) # "" /\ UNCHANGED decidedBy
        /\ audit' = Append(audit, Event("call", frameA, "error"))
        /\ CallEvents(frameA) = {} /\ decidedBy[frameA] = None
    BY <1>2 DEF PumpAValidate, FrameProgress
  <2>2. PICK g \in CallFrames : g = frameA
    BY <1>0
  <2>3. \A f \in CallFrames :
          IF f = g THEN CallEvents(f)' # {} ELSE CallEvents(f)' = CallEvents(f)
    BY <1>0, <2>1, <2>2, OneMoreDecision
  <2>4. frameA \notin PermittedBy[policy]
    BY <1>0, <2>1 DEF PermittedBy
  <2> QED  BY <1>0, <1>b, <2>1, <2>2, <2>3, <2>4 DEF Verdict, CallFrames
<1>3. CASE PumpAEvaluate
  <2>1. /\ decidedBy' = [decidedBy EXCEPT ![frameA] = policy] /\ UNCHANGED audit
        /\ CallEvents(frameA) = {} /\ decidedBy[frameA] = None
    BY <1>3 DEF PumpAEvaluate, FrameProgress
  <2>2. /\ decidedBy'[frameA] = policy /\ policy # None
        /\ \A f \in Frames : f # frameA => decidedBy'[f] = decidedBy[f]
    BY <1>0, <2>1, NoneIsNoFrame
  <2>3. \A f \in CallFrames : CallEvents(f)' = CallEvents(f)
    BY <2>1 DEF CallEvents
  <2> QED  BY <1>0, <1>b, <2>1, <2>2, <2>3 DEF Verdict, CallFrames, PermittedBy, AllPolicies
<1>4. CASE PumpAEmit
  <2>1. /\ decidedBy[frameA] # None /\ UNCHANGED decidedBy
        /\ audit' = Append(audit, Event("call", frameA, decisionA))
    BY <1>4 DEF PumpAEmit, FrameProgress
  <2>2. decisionA \in Decisions
    BY DEF TypeOK, PumpAType
  <2>3. \A f \in CallFrames : f = frameA \/ CallEvents(f)' = CallEvents(f)
    BY <1>0, <2>1, <2>2, OneMoreDecision
  <2> QED  BY <2>1, <2>3, SameVerdict
<1> QED  BY <1>1, <1>2, <1>3, <1>4

\* Pump B answers nothing for the proxy.
LEMMA PumpBIsQuiet ==
  ASSUME TypeOK, ChildMessages, PumpB
  PROVE  Forwarded' = Forwarded /\ Answered' = Answered
<1>1. UNCHANGED toChild
  BY DEF PumpB, PumpBRead, PumpBLock, PumpBHeader, PumpBBody, PumpBWriteFails, childVars
<1>2. CASE UNCHANGED stdout
  BY <1>1, <1>2 DEF Forwarded, Answered
<1>3. ASSUME NEW part \in {"hdr", "body"}, Write(part, msgB), pcB \in BHoldsMessage
      PROVE  Answered' = Answered
  <2>1. msgB \in Messages /\ msgB.from # "proxy"
    BY <1>3 DEF TypeOK, PumpBType, ChildMessages
  <2>2. PICK m \in Messages : m = msgB
    BY <2>1
  <2>3. Answered' = Answered \cup {}
    BY <1>3, <2>1, <2>2, OneMoreAnswered
  <2> QED  BY <2>3
<1>4. \/ UNCHANGED stdout
      \/ (Write("hdr", msgB) \/ Write("body", msgB)) /\ pcB \in BHoldsMessage
  BY DEF PumpB, PumpBRead, PumpBLock, PumpBHeader, PumpBBody, PumpBWriteFails, outVars,
     BHoldsMessage
<1> QED  BY <1>1, <1>2, <1>3, <1>4 DEF Forwarded

\* A new policy is a Swap of the gate; nothing else the proxy does apart from
\* pump A is visible there.
LEMMA OthersSwapOnly ==
  ASSUME TypeOK, ChildMessages, [Next]_vars, ~PumpA
  PROVE  [Gate!Next]_(Gate!vars)
<1>1. Verdict' = Verdict
  BY RunKeepsVerdict
<1>2. Forwarded' = Forwarded /\ Answered' = Answered
  BY PumpBIsQuiet, OthersKeepPipes DEF Forwarded, Answered
<1>3. policy' \in AllPolicies
  BY OthersKeepHands DEF TypeOK, EngineType
<1>4. Gate!Swap
  BY <1>1, <1>2, <1>3 DEF Gate!Swap, CallFrames, AllPolicies
<1> QED  BY <1>4 DEF Gate!Next

\* A call pump A forwards is one the verdict allows, and it was not sent before.
LEMMA ForwardIsAllowed ==
  ASSUME TypeOK, FrameProgress, PumpAForward
  PROVE  \/ UNCHANGED Gate!vars
         \/ frameA \in CallFrames /\ Gate!Forward(frameA)
<1>1. /\ pcA = "forward" /\ frameA \in Frames
      /\ UNCHANGED <<policy, decidedBy, audit, stdout>>
      /\ UNCHANGED toChild \/ toChild' = Append(toChild, frameA)
  BY DEF PumpAForward, TypeOK, PumpAType, AHoldsFrame, outVars, engineVars
<1>2. Answered' = Answered
  BY <1>1 DEF Answered
<1>3. Verdict' = Verdict
  BY <1>1, SameVerdict DEF CallEvents
<1>4. CASE UNCHANGED toChild
  BY <1>1, <1>2, <1>3, <1>4 DEF Gate!vars, Forwarded, CallFrames
<1>5. CASE toChild' = Append(toChild, frameA)
  <2>1. PICK f \in Frames : f = frameA
    BY <1>1
  <2>2. Forwarded' = Forwarded \cup {f}
    BY <1>5, <2>1, OneMoreForwarded
  <2>3. CASE f.kind # "call"
    <3>1. (Forwarded \cap CallFrames)' = Forwarded \cap CallFrames
      BY <2>2, <2>3 DEF CallFrames
    <3> QED  BY <1>1, <1>2, <1>3, <3>1 DEF Gate!vars
  <2>4. CASE f.kind = "call"
    <3>1. f \notin Forwarded /\ Permitted(f)
      BY <1>1, <2>1, <2>4 DEF FrameProgress, Untouched, AHoldsFrame
    <3>2. Verdict[f] = "allow"
      BY <2>4, <3>1, PermittedMeans DEF Verdict, CallFrames, Permitted
    <3>3. (Forwarded \cap CallFrames)' = (Forwarded \cap CallFrames) \cup {f}
      BY <2>2, <2>4 DEF CallFrames
    <3>4. Gate!Forward(f) /\ f \in CallFrames
      BY <1>1, <1>2, <1>3, <2>4, <3>1, <3>2, <3>3 DEF Gate!Forward, CallFrames
    <3> QED  BY <2>1, <3>4
  <2> QED  BY <2>3, <2>4
<1> QED  BY <1>1, <1>4, <1>5

\* A call pump A answers is one the verdict refuses, and its header is the first
\* the agent sees of the answer.
LEMMA AnswerIsRefusal ==
  ASSUME TypeOK, HalfWritten, FrameProgress, PumpAHands, PumpAHeader \/ PumpABody
  PROVE  \/ UNCHANGED Gate!vars
         \/ frameA \in CallFrames /\ Gate!Refuse(frameA)
<1>1. /\ pcA \in AWritesReply /\ frameA \in Frames /\ frameA.kind = "call"
      /\ replyA \in Messages /\ replyA.from = "proxy" /\ replyA.frame = frameA
      /\ UNCHANGED <<policy, decidedBy, audit, toChild>>
      /\ CallEvents(frameA) # {} /\ ~Permitted(frameA)
  BY DEF PumpAHeader, PumpABody, TypeOK, PumpAType, AHoldsFrame, AWritesReply,
     FrameProgress, RefusalEvent, OneEvent, PumpAHands, childVars, engineVars
<1>2. Forwarded' = Forwarded
  BY <1>1 DEF Forwarded
<1>3. Verdict' = Verdict
  BY <1>1, SameVerdict DEF CallEvents
<1>4. PICK f \in CallFrames : f = frameA
  BY <1>1 DEF CallFrames
<1>5. Verdict[f] = "refuse"
  BY <1>1, <1>4, PermittedMeans DEF Verdict, CallFrames
<1>6. PICK m \in Messages : m = replyA /\ m.from = "proxy" /\ m.frame = f
  BY <1>1, <1>4
<1>7. Answered' = Answered \cup {f}
  <2>1. Write("hdr", m) \/ Write("body", m)
    BY <1>6 DEF PumpAHeader, PumpABody
  <2> QED  BY <1>6, <2>1, OneMoreAnswered
<1>8. CASE PumpAHeader
  <2>1. f \notin Answered
    BY <1>4, <1>8 DEF PumpAHeader, FrameProgress, Untouched, AHoldsFrame, AWritesReply
  <2>2. Gate!Refuse(f)
    BY <1>1, <1>2, <1>3, <1>5, <1>7, <2>1 DEF Gate!Refuse, CallFrames
  <2> QED  BY <1>4, <2>2
<1>9. CASE PumpABody
  <2>1. /\ Len(stdout) % 2 = 1 /\ stdout[Len(stdout)] = Chunk("hdr", m)
        /\ stdout \in Seq([part: {"hdr", "body"}, msg: Messages])
    BY <1>6, <1>9 DEF PumpABody, HalfWritten, TypeOK, OutType
  <2>2. Len(stdout) \in DOMAIN stdout
    BY <2>1
  <2>3. f \in Answered
    BY <1>6, <2>1, <2>2 DEF Answered, Chunk
  <2>4. Answered' = Answered
    BY <1>7, <2>3
  <2> QED  BY <1>1, <1>2, <1>3, <2>4 DEF Gate!vars, CallFrames
<1> QED  BY <1>8, <1>9

LEMMA GateStep == TypeOK /\ IInv /\ [Next]_vars => [Gate!Next]_(Gate!vars)
<1> SUFFICES ASSUME TypeOK, IInv, [Next]_vars PROVE [Gate!Next]_(Gate!vars)
  OBVIOUS
<1>1. HalfWritten /\ ChildMessages /\ FrameProgress /\ PumpAHands
  BY DEF IInv, FateInv
<1>2. CASE ~PumpA
  BY <1>1, <1>2, OthersSwapOnly
<1>3. CASE PumpAValidate \/ PumpAEvaluate \/ PumpAEmit
  <2>1. UNCHANGED <<policy, stdout, toChild>>
    BY <1>3 DEF PumpAValidate, PumpAEvaluate, PumpAEmit, outVars, childVars, engineVars
  <2>2. CASE Verdict' = Verdict
    BY <2>1, <2>2 DEF Gate!vars, Forwarded, Answered, CallFrames
  <2> QED  BY <1>1, <1>3, <2>2, OneMoreVerdict DEF Gate!Next
<1>4. CASE PumpAForward
  BY <1>1, <1>4, ForwardIsAllowed DEF Gate!Next
<1>5. CASE PumpAHeader \/ PumpABody
  BY <1>1, <1>5, AnswerIsRefusal DEF Gate!Next
<1>6. CASE PumpARead \/ PumpARefuse \/ PumpALock \/ PumpAWriteFails
  <2>1. UNCHANGED <<policy, decidedBy, audit, stdout, toChild>>
    BY <1>6 DEF PumpARead, PumpARefuse, PumpALock, PumpAWriteFails, outVars, childVars,
       engineVars
  <2>2. Verdict' = Verdict
    BY <2>1, SameVerdict DEF CallEvents
  <2> QED  BY <2>1, <2>2 DEF Gate!vars, Forwarded, Answered, CallFrames
<1> QED  BY <1>2, <1>3, <1>4, <1>5, <1>6 DEF PumpA

LEMMA GateInit == Init => Gate!Init
<1> SUFFICES ASSUME Init PROVE Gate!Init
  OBVIOUS
<1>1. /\ policy \in AllPolicies /\ toChild = <<>> /\ stdout = <<>> /\ audit = <<>>
      /\ decidedBy = [f \in Frames |-> None]
  BY DEF Init, AllPolicies
<1>2. Forwarded = {} /\ Answered = {}
  BY <1>1 DEF Forwarded, Answered
<1>3. \A f \in CallFrames : CallEvents(f) = {} /\ decidedBy[f] = None
  BY <1>1 DEF CallEvents, CallFrames
<1>4. Verdict = [f \in CallFrames |-> "open"]
  BY <1>3 DEF Verdict
<1> QED  BY <1>1, <1>2, <1>4 DEF Gate!Init

\* The proxy implements CallGate: behind three goroutines, two pipes, a policy
\* that may be replaced at any moment and every way of going down, each call has
\* one verdict, taken in one step from one policy; only an allowed call reaches
\* the upstream server, only a refused one is answered, and each at most once.
THEOREM ProxyImplementsGate == Spec => ImplementsGate
<1>1. TypeOK /\ IInv /\ [Next]_vars => [Gate!Next]_(Gate!vars)
  BY GateStep
<1> QED
  BY GateInit, <1>1, TypeCorrect, InvariantHolds, PTL DEF Spec, ImplementsGate, Gate!Spec
=============================================================================
