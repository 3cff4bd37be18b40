------------------------- MODULE ProxySafetyProofs -------------------------
(***************************************************************************)
(* The safety properties of Proxy as theorems: the parts of ProxyInvariant *)
(* are preserved by every step.                                            *)
(***************************************************************************)
EXTENDS ProxyInvariant, ProxyProofs

-----------------------------------------------------------------------------
(* The agent's stdout: who holds the mutex, and what has been written *)

StdoutInv == NotStarted /\ MutexHeld /\ HalfWritten /\ StdoutFramed

\* What one more chunk does to the stream.
LEMMA OneMoreChunk ==
  ASSUME TypeOK, NEW part \in {"hdr", "body"}, NEW m \in Messages, Write(part, m)
  PROVE  /\ Len(stdout) \in Nat /\ Len(stdout') = Len(stdout) + 1
         /\ DOMAIN stdout = 1..Len(stdout) /\ DOMAIN stdout' = 1..(Len(stdout) + 1)
         /\ \A i \in 1..Len(stdout) : stdout'[i] = stdout[i]
         /\ stdout'[Len(stdout) + 1] = Chunk(part, m)
         /\ agentReads = "reading"
<1> DEFINE c == Chunk(part, m)
<1>1. c \in [part: {"hdr", "body"}, msg: Messages]
  BY ChunkType
<1>2. stdout' = Append(stdout, c) /\ agentReads = "reading"
  BY DEF Write
<1>3. stdout \in Seq([part: {"hdr", "body"}, msg: Messages])
  BY DEF TypeOK, OutType
<1> HIDE DEF c
<1>4. /\ Len(stdout) \in Nat /\ Len(stdout') = Len(stdout) + 1
      /\ DOMAIN stdout = 1..Len(stdout) /\ DOMAIN stdout' = 1..(Len(stdout) + 1)
      /\ \A i \in 1..Len(stdout) : stdout'[i] = stdout[i]
      /\ stdout'[Len(stdout) + 1] = c
  BY <1>1, <1>2, <1>3
<1> QED  BY <1>2, <1>4 DEF c

InsideWrite == {"replyHdr", "replyBody", "relayHdr", "relayBody"}

\* A step that writes nothing and moves no pump in or out of writeToAgent.
LEMMA QuietStdout ==
  ASSUME MutexHeld, HalfWritten, StdoutFramed, UNCHANGED <<stdoutMu, stdout>>,
         UNCHANGED <<pcA, replyA>> \/ (pcA \notin InsideWrite
           /\ pcA' \notin InsideWrite),
         UNCHANGED <<pcB, msgB>> \/ (pcB \notin InsideWrite
           /\ pcB' \notin InsideWrite),
         agentReads' # "gone" => agentReads # "gone"
  PROVE  MutexHeld' /\ HalfWritten' /\ StdoutFramed'
BY DEF MutexHeld, HalfWritten, StdoutFramed, InsideWrite

\* Neither pump moves before RunStart has started both.
LEMMA NotStartedStep == TypeOK /\ NotStarted /\ [Next]_vars => NotStarted'
<1> SUFFICES ASSUME TypeOK, NotStarted, [Next]_vars, pcRun' = "start"
             PROVE  pcA' = "off" /\ pcB' = "off" /\ child' = "none"
  BY DEF NotStarted
<1>1. pcRun = "start" /\ ~RunStart
  BY DEF Next, PumpA, PumpB, Run, vars, runVars, RunStart, RunReceive,
     RunCancel, RunReap,
     ProcessExit, Shutdown, EngineUpdate, BrokenPipe, ChildHandle, ChildExits, ChildKilled,
     ChildEnds, AgentClose, AgentTurns, PumpARead, PumpAValidate, PumpAEvaluate, PumpAEmit,
     PumpARefuse, PumpAForward, PumpALock, PumpAHeader, PumpABody, PumpAWriteFails,
     PumpBRead, PumpBLock, PumpBHeader, PumpBBody, PumpBWriteFails
<1>2. pcA = "off" /\ pcB = "off" /\ child = "none"
  BY <1>1 DEF NotStarted
<1>3. ~PumpA
  BY <1>2 DEF PumpA, PumpARead, PumpAValidate, PumpAEvaluate, PumpAEmit,
     PumpARefuse,
     PumpAForward, PumpALock, PumpAHeader, PumpABody, PumpAWriteFails
<1>4. ~PumpB
  BY <1>2 DEF PumpB, PumpBRead, PumpBLock, PumpBHeader, PumpBBody, PumpBWriteFails
<1>5. ~Run
  BY <1>1 DEF Run, RunReceive, RunCancel, RunReap, ProcessExit
<1>6. ~ChildHandle /\ ~ChildExits /\ ~ChildKilled
  BY <1>2 DEF ChildHandle, ChildExits, ChildKilled, ChildEnds
<1> QED
  BY <1>2, <1>3, <1>4, <1>5, <1>6
  DEF Next, Shutdown, EngineUpdate, BrokenPipe, AgentClose, AgentTurns, vars,
     pumpAVars,
      pumpBVars, childVars

\* Every step keeps the stream framed: the four writes one by one.
LEMMA StdoutStep == TypeOK /\ StdoutInv /\ [Next]_vars => StdoutInv'
<1> SUFFICES ASSUME TypeOK, MutexHeld, HalfWritten, StdoutFramed, NotStarted, [Next]_vars
             PROVE  MutexHeld' /\ HalfWritten' /\ StdoutFramed'
  BY NotStartedStep DEF StdoutInv
<1>1. ASSUME PumpAHeader PROVE MutexHeld' /\ HalfWritten' /\ StdoutFramed'
  <2>1. Write("hdr", replyA) /\ replyA \in Messages
    BY <1>1 DEF PumpAHeader, TypeOK, PumpAType, AWritesReply
  <2>2. MutexHeld'
    BY <1>1 DEF PumpAHeader, MutexHeld, pumpAVars, pumpBVars
  <2>3. Len(stdout) % 2 = 0
    BY <1>1, <2>1 DEF PumpAHeader, Write, HalfWritten, MutexHeld
  <2>4. HalfWritten'
    BY <1>1, <2>1, <2>3, OneMoreChunk DEF PumpAHeader, HalfWritten, MutexHeld,
       pumpBVars, pumpAVars, agentVars
  <2>5. StdoutFramed'
    <3> SUFFICES ASSUME NEW i \in 1..(Len(stdout) + 1)
                 PROVE  IF i % 2 = 1 THEN stdout'[i].part = "hdr"
                        ELSE stdout'[i] = Chunk("body", stdout'[i-1].msg)
      BY <2>1, OneMoreChunk DEF StdoutFramed
    <3>1. CASE i \in 1..Len(stdout)
      <4>1. i % 2 # 1 => i - 1 \in 1..Len(stdout)
        BY <3>1
      <4>2. stdout'[i] = stdout[i] /\ (i % 2 # 1 => stdout'[i-1] = stdout[i-1])
        BY <2>1, <3>1, <4>1, OneMoreChunk
      <4> QED  BY <2>1, <3>1, <4>2, OneMoreChunk DEF StdoutFramed
    <3>2. CASE i = Len(stdout) + 1
      <4>1. stdout'[i] = Chunk("hdr", replyA)
        BY <2>1, <3>2, OneMoreChunk
      <4> QED  BY <2>1, <2>3, <3>2, <4>1, OneMoreChunk DEF Chunk
    <3> QED  BY <2>1, <3>1, <3>2, OneMoreChunk
  <2> QED  BY <2>2, <2>4, <2>5
<1>2. ASSUME PumpABody PROVE MutexHeld' /\ HalfWritten' /\ StdoutFramed'
  <2>1. Write("body", replyA) /\ replyA \in Messages
    BY <1>2 DEF PumpABody, TypeOK, PumpAType, AWritesReply
  <2>2. MutexHeld'
    BY <1>2 DEF PumpABody, MutexHeld, Unlock, pumpAVars, pumpBVars
  <2>3. Len(stdout) % 2 = 1 /\ stdout[Len(stdout)] = Chunk("hdr", replyA)
    BY <1>2 DEF PumpABody, HalfWritten
  <2>4. HalfWritten'
    BY <1>2, <2>1, <2>3, OneMoreChunk DEF PumpABody, HalfWritten, MutexHeld,
       Unlock, pumpBVars, pumpAVars, agentVars
  <2>5. StdoutFramed'
    <3> SUFFICES ASSUME NEW i \in 1..(Len(stdout) + 1)
                 PROVE  IF i % 2 = 1 THEN stdout'[i].part = "hdr"
                        ELSE stdout'[i] = Chunk("body", stdout'[i-1].msg)
      BY <2>1, OneMoreChunk DEF StdoutFramed
    <3>1. CASE i \in 1..Len(stdout)
      <4>1. i % 2 # 1 => i - 1 \in 1..Len(stdout)
        BY <3>1
      <4>2. stdout'[i] = stdout[i] /\ (i % 2 # 1 => stdout'[i-1] = stdout[i-1])
        BY <2>1, <3>1, <4>1, OneMoreChunk
      <4> QED  BY <2>1, <3>1, <4>2, OneMoreChunk DEF StdoutFramed
    <3>2. CASE i = Len(stdout) + 1
      <4>1. stdout'[i] = Chunk("body", replyA)
        BY <2>1, <3>2, OneMoreChunk
      <4>2. i - 1 \in 1..Len(stdout) /\ i - 1 = Len(stdout)
        BY <2>1, <2>3, <3>2, OneMoreChunk
      <4>3. stdout'[i-1] = Chunk("hdr", replyA)
        BY <2>1, <2>3, <4>2, OneMoreChunk
      <4>4. i % 2 = 0
        BY <2>1, <2>3, <3>2, OneMoreChunk
      <4> QED  BY <4>1, <4>3, <4>4 DEF Chunk
    <3> QED  BY <2>1, <3>1, <3>2, OneMoreChunk
  <2> QED  BY <2>2, <2>4, <2>5
<1>3. ASSUME PumpBHeader PROVE MutexHeld' /\ HalfWritten' /\ StdoutFramed'
  <2>1. Write("hdr", msgB) /\ msgB \in Messages
    BY <1>3 DEF PumpBHeader, TypeOK, PumpBType, BHoldsMessage
  <2>2. MutexHeld'
    BY <1>3 DEF PumpBHeader, MutexHeld, pumpAVars, pumpBVars
  <2>3. Len(stdout) % 2 = 0
    BY <1>3, <2>1 DEF PumpBHeader, Write, HalfWritten, MutexHeld
  <2>4. HalfWritten'
    BY <1>3, <2>1, <2>3, OneMoreChunk DEF PumpBHeader, HalfWritten, MutexHeld,
       pumpBVars, pumpAVars, agentVars
  <2>5. StdoutFramed'
    <3> SUFFICES ASSUME NEW i \in 1..(Len(stdout) + 1)
                 PROVE  IF i % 2 = 1 THEN stdout'[i].part = "hdr"
                        ELSE stdout'[i] = Chunk("body", stdout'[i-1].msg)
      BY <2>1, OneMoreChunk DEF StdoutFramed
    <3>1. CASE i \in 1..Len(stdout)
      <4>1. i % 2 # 1 => i - 1 \in 1..Len(stdout)
        BY <3>1
      <4>2. stdout'[i] = stdout[i] /\ (i % 2 # 1 => stdout'[i-1] = stdout[i-1])
        BY <2>1, <3>1, <4>1, OneMoreChunk
      <4> QED  BY <2>1, <3>1, <4>2, OneMoreChunk DEF StdoutFramed
    <3>2. CASE i = Len(stdout) + 1
      <4>1. stdout'[i] = Chunk("hdr", msgB)
        BY <2>1, <3>2, OneMoreChunk
      <4> QED  BY <2>1, <2>3, <3>2, <4>1, OneMoreChunk DEF Chunk
    <3> QED  BY <2>1, <3>1, <3>2, OneMoreChunk
  <2> QED  BY <2>2, <2>4, <2>5
<1>4. ASSUME PumpBBody PROVE MutexHeld' /\ HalfWritten' /\ StdoutFramed'
  <2>1. Write("body", msgB) /\ msgB \in Messages
    BY <1>4 DEF PumpBBody, TypeOK, PumpBType, BHoldsMessage
  <2>2. MutexHeld'
    BY <1>4 DEF PumpBBody, MutexHeld, Unlock, pumpAVars, pumpBVars
  <2>3. Len(stdout) % 2 = 1 /\ stdout[Len(stdout)] = Chunk("hdr", msgB)
    BY <1>4 DEF PumpBBody, HalfWritten
  <2>4. HalfWritten'
    BY <1>4, <2>1, <2>3, OneMoreChunk DEF PumpBBody, HalfWritten, MutexHeld,
       Unlock, pumpBVars, pumpAVars, agentVars
  <2>5. StdoutFramed'
    <3> SUFFICES ASSUME NEW i \in 1..(Len(stdout) + 1)
                 PROVE  IF i % 2 = 1 THEN stdout'[i].part = "hdr"
                        ELSE stdout'[i] = Chunk("body", stdout'[i-1].msg)
      BY <2>1, OneMoreChunk DEF StdoutFramed
    <3>1. CASE i \in 1..Len(stdout)
      <4>1. i % 2 # 1 => i - 1 \in 1..Len(stdout)
        BY <3>1
      <4>2. stdout'[i] = stdout[i] /\ (i % 2 # 1 => stdout'[i-1] = stdout[i-1])
        BY <2>1, <3>1, <4>1, OneMoreChunk
      <4> QED  BY <2>1, <3>1, <4>2, OneMoreChunk DEF StdoutFramed
    <3>2. CASE i = Len(stdout) + 1
      <4>1. stdout'[i] = Chunk("body", msgB)
        BY <2>1, <3>2, OneMoreChunk
      <4>2. i - 1 \in 1..Len(stdout) /\ i - 1 = Len(stdout)
        BY <2>1, <2>3, <3>2, OneMoreChunk
      <4>3. stdout'[i-1] = Chunk("hdr", msgB)
        BY <2>1, <2>3, <4>2, OneMoreChunk
      <4>4. i % 2 = 0
        BY <2>1, <2>3, <3>2, OneMoreChunk
      <4> QED  BY <4>1, <4>3, <4>4 DEF Chunk
    <3> QED  BY <2>1, <3>1, <3>2, OneMoreChunk
  <2> QED  BY <2>2, <2>4, <2>5
<1>5. ASSUME PumpALock \/ PumpBLock PROVE MutexHeld' /\ HalfWritten'
      /\ StdoutFramed'
  BY <1>5 DEF PumpALock, PumpBLock, Lock, MutexHeld, HalfWritten, StdoutFramed,
     pumpAVars,
     pumpBVars, agentVars
<1>6. ASSUME PumpAWriteFails \/ PumpBWriteFails PROVE MutexHeld'
      /\ HalfWritten' /\ StdoutFramed'
  BY <1>6 DEF PumpAWriteFails, PumpBWriteFails, FinishA, FinishB, Unlock,
     MutexHeld, HalfWritten,
     StdoutFramed, pumpAVars, pumpBVars, agentVars
<1>7. ASSUME \/ PumpARead \/ PumpAValidate \/ PumpAEvaluate
             \/ PumpAEmit \/ PumpARefuse \/ PumpAForward
      PROVE  MutexHeld' /\ HalfWritten' /\ StdoutFramed'
  <2>1. /\ pcA \notin InsideWrite /\ pcA' \notin InsideWrite
        /\ UNCHANGED <<stdoutMu, stdout, pcB, msgB, agentReads>>
    BY <1>7 DEF PumpARead, PumpAValidate, PumpAEvaluate, PumpAEmit,
       PumpARefuse, PumpAForward,
       FinishA, InsideWrite, outVars, pumpBVars, agentVars
  <2> QED  BY <2>1, QuietStdout
<1>8. ASSUME PumpBRead PROVE MutexHeld' /\ HalfWritten' /\ StdoutFramed'
  <2>1. /\ pcB \notin InsideWrite /\ pcB' \notin InsideWrite
        /\ UNCHANGED <<stdoutMu, stdout, pcA, replyA, agentReads>>
    BY <1>8 DEF PumpBRead, FinishB, InsideWrite, outVars, pumpAVars, agentVars
  <2> QED  BY <2>1, QuietStdout
<1>9. ASSUME RunStart PROVE MutexHeld' /\ HalfWritten' /\ StdoutFramed'
  <2>1. /\ UNCHANGED <<pcA, pcB>> \/ {pcA', pcB'} = {"read"}
        /\ pcA = "off" /\ pcB = "off"
        /\ UNCHANGED <<stdoutMu, stdout, replyA, msgB, agentReads>>
    BY <1>9 DEF RunStart, NotStarted, outVars, agentVars
  <2> QED  BY <2>1, QuietStdout DEF InsideWrite
<1>10. ASSUME \/ RunReceive \/ RunCancel \/ RunReap \/ ProcessExit
              \/ Shutdown \/ EngineUpdate \/ BrokenPipe
       PROVE  MutexHeld' /\ HalfWritten' /\ StdoutFramed'
  <2>1. UNCHANGED <<stdoutMu, stdout, pcA, replyA, pcB, msgB, agentReads>>
    BY <1>10 DEF RunReceive, RunCancel, RunReap, ProcessExit, Shutdown,
       EngineUpdate,
       BrokenPipe, outVars, pumpAVars, pumpBVars, agentVars
  <2> QED  BY <2>1, QuietStdout
<1>11. ASSUME \/ ChildHandle \/ ChildExits \/ ChildKilled \/ AgentClose
              \/ UNCHANGED vars \/ \E state \in AgentStates : AgentTurns(state)
       PROVE  MutexHeld' /\ HalfWritten' /\ StdoutFramed'
  <2>1. /\ UNCHANGED <<stdoutMu, stdout, pcA, replyA, pcB, msgB>>
        /\ agentReads' # "gone" => agentReads # "gone"
    BY <1>11 DEF ChildHandle, ChildExits, ChildKilled, ChildEnds, AgentClose,
       AgentTurns, vars,
       outVars, pumpAVars, pumpBVars, agentVars
  <2> QED  BY <2>1, QuietStdout
<1> QED
  BY <1>1, <1>2, <1>3, <1>4, <1>5, <1>6, <1>7, <1>8, <1>9, <1>10, <1>11
  DEF Next, PumpA, PumpB, Run

-----------------------------------------------------------------------------
(* Where each frame is, and what the audit trail says of it *)

Outcomes == OneOutcomePerFrame /\ AuditPrecedesEffect
  /\ UpstreamSeesOnlyAllowedCalls

Progress == UnreadFresh /\ FrameProgress /\ Outcomes

\* A step after which all that is said of a frame's fate is as before.
SameTrail ==
  /\ Forwarded' = Forwarded /\ Answered' = Answered
  /\ \A f \in Frames :
       /\ CallEvents(f)' = CallEvents(f)
       /\ RefusalEvent(f) => RefusalEvent(f)'
       /\ AllowEvent(f) => AllowEvent(f)'
       /\ Permitted(f) => Permitted(f)'
       /\ HeaderOnly(f) => HeaderOnly(f)'
  /\ UNCHANGED decidedBy
  /\ Outcomes => Outcomes'

LEMMA NoneIsNoFrame == None \notin Frames /\ None \notin AllPolicies
BY ProxyAssumption DEF AllPolicies

LEMMA QuietKeepsTrail ==
  ASSUME UNCHANGED <<toChild, stdout, audit, decidedBy>>
  PROVE  SameTrail
<1>1. Forwarded' = Forwarded /\ Answered' = Answered
  BY DEF Forwarded, Answered
<1>2. ASSUME NEW f \in Frames
      PROVE  /\ CallEvents(f)' = CallEvents(f)
             /\ RefusalEvent(f) => RefusalEvent(f)'
             /\ AllowEvent(f) => AllowEvent(f)'
             /\ Permitted(f) => Permitted(f)'
             /\ HeaderOnly(f) => HeaderOnly(f)'
  BY DEF CallEvents, RefusalEvent, AllowEvent, OneEvent, Permitted, HeaderOnly
<1>3. OneOutcomePerFrame => OneOutcomePerFrame'
  BY <1>1 DEF OneOutcomePerFrame
<1>4. AuditPrecedesEffect => AuditPrecedesEffect'
  BY <1>1, <1>2 DEF AuditPrecedesEffect, CallFrames
<1>5. UpstreamSeesOnlyAllowedCalls => UpstreamSeesOnlyAllowedCalls'
  BY DEF UpstreamSeesOnlyAllowedCalls
<1> QED  BY <1>1, <1>2, <1>3, <1>4, <1>5 DEF SameTrail, Outcomes

\* One more frame for the child.
LEMMA OneMoreForwarded ==
  ASSUME TypeOK, NEW f \in Frames, toChild' = Append(toChild, f)
  PROVE  /\ Forwarded' = Forwarded \cup {f}
         /\ DOMAIN toChild = 1..Len(toChild)
         /\ DOMAIN toChild' = 1..(Len(toChild) + 1)
         /\ \A i \in 1..Len(toChild) : toChild'[i] = toChild[i]
         /\ toChild'[Len(toChild) + 1] = f
<1>1. toChild \in Seq(Frames) /\ Len(toChild) \in Nat
  BY DEF TypeOK, ChildType
<1>2. /\ DOMAIN toChild = 1..Len(toChild)
      /\ DOMAIN toChild' = 1..(Len(toChild) + 1)
      /\ \A i \in 1..Len(toChild) : toChild'[i] = toChild[i]
      /\ toChild'[Len(toChild) + 1] = f
  BY <1>1
<1>3. Forwarded' = Forwarded \cup {f}
  BY <1>1, <1>2 DEF Forwarded
<1> QED  BY <1>2, <1>3

\* One more chunk answers a frame only if the proxy is its author.
LEMMA OneMoreAnswered ==
  ASSUME TypeOK, NEW part \in {"hdr", "body"}, NEW m \in Messages, Write(part, m)
  PROVE  Answered' = Answered \cup (IF m.from = "proxy" THEN {m.frame} ELSE {})
<1> DEFINE L == Len(stdout)
<1>1. /\ L \in Nat /\ DOMAIN stdout = 1..L /\ DOMAIN stdout' = 1..(L + 1)
      /\ \A i \in 1..L : stdout'[i] = stdout[i]
      /\ stdout'[L + 1] = Chunk(part, m)
  BY OneMoreChunk
<1>a. stdout'[L + 1].msg = m
  BY <1>1 DEF Chunk
<1> HIDE DEF L
<1>2. Answered' \subseteq Answered \cup (IF m.from = "proxy" THEN {m.frame} ELSE {})
  BY <1>1, <1>a DEF Answered
<1>3. Answered \subseteq Answered'
  BY <1>1 DEF Answered
<1>4. m.from = "proxy" => m.frame \in Answered'
  <2>1. L + 1 \in DOMAIN stdout'
    BY <1>1
  <2> QED  BY <1>a, <2>1 DEF Answered
<1> QED  BY <1>2, <1>3, <1>4

\* One more audit event is an event of the call it names, if any.
LEMMA OneMoreEvent ==
  ASSUME TypeOK, NEW e \in AuditEvents, audit' = Append(audit, e)
  PROVE  /\ Len(audit) + 1 \in DOMAIN audit' /\ DOMAIN audit \subseteq DOMAIN audit'
         /\ \A i \in DOMAIN audit : audit'[i] = audit[i]
         /\ audit'[Len(audit) + 1] = e
         /\ \A f \in Frames : CallEvents(f)' = CallEvents(f) \cup
              IF e.what = "call" /\ e.frame = f THEN {Len(audit) + 1} ELSE {}
<1> DEFINE L == Len(audit)
<1>1. audit \in Seq(AuditEvents)
  BY DEF TypeOK, AuditType
<1>2. /\ L \in Nat /\ DOMAIN audit = 1..L /\ DOMAIN audit' = 1..(L + 1)
      /\ \A i \in 1..L : audit'[i] = audit[i]
      /\ audit'[L + 1] = e
  BY <1>1
<1> HIDE DEF L
<1>3. ASSUME NEW f \in Frames
      PROVE  CallEvents(f)' = CallEvents(f) \cup
               IF e.what = "call" /\ e.frame = f THEN {L + 1} ELSE {}
  BY <1>2 DEF CallEvents
<1>4. L + 1 \in 1..(L + 1) /\ 1..L \subseteq 1..(L + 1)
  BY <1>2
<1> QED  BY <1>2, <1>3, <1>4 DEF L

\* An event that is not about a call.
LEMMA RunEventKeepsTrail ==
  ASSUME TypeOK, NEW e \in AuditEvents, audit' = Append(audit, e), e.what # "call",
         UNCHANGED <<toChild, stdout, decidedBy>>
  PROVE  SameTrail
<1>1. /\ DOMAIN audit \subseteq DOMAIN audit'
      /\ \A i \in DOMAIN audit : audit'[i] = audit[i]
      /\ \A f \in Frames : CallEvents(f)' = CallEvents(f)
  BY OneMoreEvent
<1>2. Forwarded' = Forwarded /\ Answered' = Answered
  BY DEF Forwarded, Answered
<1>3. ASSUME NEW f \in Frames
      PROVE  /\ RefusalEvent(f) => RefusalEvent(f)'
             /\ AllowEvent(f) => AllowEvent(f)'
             /\ Permitted(f) => Permitted(f)'
             /\ HeaderOnly(f) => HeaderOnly(f)'
  <2>1. CallEvents(f) \subseteq DOMAIN audit
    BY DEF CallEvents
  <2> QED
    BY <1>1, <2>1 DEF RefusalEvent, AllowEvent, OneEvent, Permitted, HeaderOnly
<1>4. OneOutcomePerFrame => OneOutcomePerFrame'
  BY <1>2 DEF OneOutcomePerFrame
<1>5. AuditPrecedesEffect => AuditPrecedesEffect'
  <2> SUFFICES ASSUME AuditPrecedesEffect, NEW f \in CallFrames
               PROVE  /\ f \in Forwarded => \E i \in CallEvents(f) :
                           CallEvents(f) = {i} /\ audit'[i].detail = "allow"
                      /\ f \in Answered => \E i \in CallEvents(f) :
                           CallEvents(f) = {i} /\ audit'[i].detail # "allow"
    BY <1>1, <1>2, ZenonT(60) DEF AuditPrecedesEffect, CallFrames
  <2>1. CallEvents(f) \subseteq DOMAIN audit
    BY DEF CallEvents
  <2> QED  BY <1>1, <2>1 DEF AuditPrecedesEffect
<1>6. UpstreamSeesOnlyAllowedCalls => UpstreamSeesOnlyAllowedCalls'
  BY DEF UpstreamSeesOnlyAllowedCalls
<1> QED
  BY <1>1, <1>2, <1>3, <1>4, <1>5, <1>6 DEF SameTrail, Outcomes

\* A chunk of a relayed message.
LEMMA RelayKeepsTrail ==
  ASSUME TypeOK, NEW part \in {"hdr", "body"}, NEW m \in Messages,
         Write(part, m), m.from # "proxy", UNCHANGED <<toChild, audit, decidedBy>>
  PROVE  SameTrail
<1> DEFINE L == Len(stdout)
<1>1. /\ L \in Nat /\ DOMAIN stdout = 1..L /\ DOMAIN stdout' = 1..(L + 1)
      /\ \A i \in 1..L : stdout'[i] = stdout[i]
      /\ stdout'[L + 1] = Chunk(part, m)
  BY OneMoreChunk
<1>2. stdout'[L + 1].msg.from # "proxy"
  BY <1>1 DEF Chunk
<1> HIDE DEF L
<1>3. Forwarded' = Forwarded /\ Answered' = Answered
  BY OneMoreAnswered DEF Forwarded
<1>4. \A i \in DOMAIN stdout' : stdout'[i].msg.from = "proxy" =>
        i \in DOMAIN stdout /\ stdout'[i] = stdout[i]
  BY <1>1, <1>2
<1>5. ASSUME NEW f \in Frames
      PROVE  /\ CallEvents(f)' = CallEvents(f)
             /\ RefusalEvent(f) => RefusalEvent(f)'
             /\ AllowEvent(f) => AllowEvent(f)'
             /\ Permitted(f) => Permitted(f)'
  BY DEF CallEvents, RefusalEvent, AllowEvent, OneEvent, Permitted
<1>6. ASSUME NEW f \in Frames
      PROVE  HeaderOnly(f) => HeaderOnly(f)'
  BY <1>4 DEF HeaderOnly
<1>7. OneOutcomePerFrame => OneOutcomePerFrame'
  BY <1>3, <1>4 DEF OneOutcomePerFrame
<1>8. AuditPrecedesEffect => AuditPrecedesEffect'
  BY <1>3, <1>5 DEF AuditPrecedesEffect, CallFrames
<1>9. UpstreamSeesOnlyAllowedCalls => UpstreamSeesOnlyAllowedCalls'
  BY DEF UpstreamSeesOnlyAllowedCalls
<1> QED
  BY <1>3, <1>5, <1>6, <1>7, <1>8, <1>9 DEF SameTrail, Outcomes

\* Pump A does nothing with the frame in its hands, or lets go of it.
LEMMA KeepProgress ==
  ASSUME TypeOK, Progress, SameTrail, unread' \subseteq unread,
         \/ UNCHANGED <<pcA, frameA, decisionA, replyA>>
         \/ pcA' \notin AHoldsFrame /\ frameA' \in {frameA, None}
  PROVE  Progress'
<1>1. unread \subseteq Frames /\ None \notin unread
  BY NoneIsNoFrame DEF TypeOK, AgentType
<1>2. pcA \in AHoldsFrame => frameA \in Frames
  BY DEF TypeOK, PumpAType
<1>3. UnreadFresh'
  <2> SUFFICES ASSUME NEW f \in unread'
               PROVE  /\ f # frameA' /\ Untouched(f)' /\ CallEvents(f)' = {}
                      /\ decidedBy'[f] = None
    BY DEF UnreadFresh
  <2>1. f \in unread /\ f \in Frames
    BY <1>1
  <2> QED  BY <1>1, <2>1 DEF UnreadFresh, Progress, Untouched, SameTrail
<1>4. FrameProgress'
  <2>1. CASE UNCHANGED <<pcA, frameA, decisionA, replyA>> /\ pcA \in AHoldsFrame
    BY <1>2, <2>1 DEF FrameProgress, Progress, Untouched, SameTrail,
       AHoldsFrame, AWritesReply
  <2>2. CASE pcA' \notin AHoldsFrame
    BY <2>2 DEF FrameProgress, AHoldsFrame, AWritesReply
  <2> QED  BY <2>1, <2>2
<1> QED  BY <1>3, <1>4 DEF Progress, SameTrail

\* Pump A puts its verdict on the frame in hand into the audit trail.
LEMMA DecideProgress ==
  ASSUME TypeOK, Progress, pcA \in {"intercept", "emit"},
         NEW e \in AuditEvents, e.what = "call", e.frame = frameA,
         audit' = Append(audit, e),
         UNCHANGED <<frameA, decidedBy, toChild, stdout, unread>>,
         \/ /\ e.detail # "allow"
            /\ \/ pcA' = "version"
               \/ pcA' = "reply" /\ replyA'.from = "proxy" /\ replyA'.frame = frameA
         \/ e.detail = "allow" /\ Permitted(frameA) /\ pcA' = "forward"
  PROVE  Progress'
<1> DEFINE f == frameA
           n == Len(audit) + 1
<1>0. UnreadFresh /\ FrameProgress
  BY DEF Progress
<1>1. /\ f \in Frames /\ f \notin unread /\ f.kind = "call"
      /\ Untouched(f) /\ CallEvents(f) = {}
  <2>1. pcA \in AHoldsFrame \ {"replyBody", "forward"}
    BY DEF AHoldsFrame, AWritesReply
  <2>2. f \in Frames
    BY <2>1 DEF TypeOK, PumpAType
  <2>3. f \notin unread
    BY <1>0 DEF UnreadFresh
  <2>4. f.kind = "call" /\ Untouched(f)
    BY <1>0, <2>1 DEF FrameProgress
  <2>5. CallEvents(f) = {}
    BY <1>0 DEF FrameProgress
  <2> QED  BY <2>2, <2>3, <2>4, <2>5
<1>2. /\ n \in DOMAIN audit' /\ DOMAIN audit \subseteq DOMAIN audit'
      /\ \A i \in DOMAIN audit : audit'[i] = audit[i]
      /\ audit'[n] = e
      /\ CallEvents(f)' = {n}
      /\ \A g \in Frames \ {f} : CallEvents(g)' = CallEvents(g)
  <2>1. /\ n \in DOMAIN audit' /\ DOMAIN audit \subseteq DOMAIN audit'
        /\ \A i \in DOMAIN audit : audit'[i] = audit[i]
        /\ audit'[n] = e
        /\ \A g \in Frames : CallEvents(g)' = CallEvents(g) \cup
             IF e.what = "call" /\ e.frame = g THEN {n} ELSE {}
    BY OneMoreEvent
  <2> HIDE DEF n
  <2> QED  BY <1>1, <2>1
<1> HIDE DEF n
<1>3. Forwarded' = Forwarded /\ Answered' = Answered
  BY DEF Forwarded, Answered
<1>4. /\ e.detail # "allow" => RefusalEvent(f)'
      /\ e.detail = "allow" => AllowEvent(f)'
  BY <1>2 DEF RefusalEvent, AllowEvent, OneEvent
<1>5. FrameProgress'
  BY <1>1, <1>3, <1>4
  DEF FrameProgress, Untouched, Permitted, AHoldsFrame, AWritesReply
<1>6. UnreadFresh'
  <2> SUFFICES ASSUME NEW g \in unread
               PROVE  /\ g # f /\ Untouched(g)' /\ CallEvents(g)' = {}
                      /\ decidedBy'[g] = None
    BY DEF UnreadFresh
  <2>1. g \in Frames \ {f}
    BY <1>1 DEF TypeOK, AgentType
  <2> QED  BY <1>2, <1>3, <2>1 DEF UnreadFresh, Progress, Untouched
<1>7. OneOutcomePerFrame'
  BY <1>3 DEF Progress, Outcomes, OneOutcomePerFrame
<1>8. AuditPrecedesEffect'
  <2> SUFFICES ASSUME NEW g \in CallFrames
               PROVE  /\ g \in Forwarded => \E i \in CallEvents(g)' :
                           CallEvents(g)' = {i} /\ audit'[i].detail = "allow"
                      /\ g \in Answered => \E i \in CallEvents(g)' :
                           CallEvents(g)' = {i} /\ audit'[i].detail # "allow"
    BY <1>3 DEF AuditPrecedesEffect, CallFrames
  <2>1. CASE g = f
    BY <1>1, <2>1 DEF Untouched
  <2>2. CASE g # f
    <3>1. CallEvents(g)' = CallEvents(g) /\ CallEvents(g) \subseteq DOMAIN audit
      BY <1>2, <2>2 DEF CallFrames, CallEvents
    <3> QED
      BY <1>2, <3>1 DEF Progress, Outcomes, AuditPrecedesEffect
  <2> QED  BY <2>1, <2>2
<1>9. UpstreamSeesOnlyAllowedCalls'
  BY DEF Progress, Outcomes, UpstreamSeesOnlyAllowedCalls
<1> QED  BY <1>5, <1>6, <1>7, <1>8, <1>9 DEF Progress, Outcomes

\* Pump A comes one step closer to answering the frame it refuses.
LEMMA ReplyProgress ==
  ASSUME TypeOK, Progress, pcA \in AHoldsFrame, pcA' \in {"reply", "replyHdr"},
         frameA.kind = "call", Untouched(frameA), RefusalEvent(frameA),
         replyA'.from = "proxy", replyA'.frame = frameA,
         UNCHANGED <<frameA, decisionA, decidedBy, audit, toChild, stdout, unread>>
  PROVE  Progress'
<1>1. SameTrail /\ frameA \in Frames /\ unread \subseteq Frames
  BY QuietKeepsTrail DEF TypeOK, PumpAType, AgentType
<1>2. FrameProgress'
  BY <1>1 DEF FrameProgress, Untouched, SameTrail, AHoldsFrame, AWritesReply
<1>3. UnreadFresh'
  BY <1>1 DEF UnreadFresh, Progress, Untouched, SameTrail
<1> QED  BY <1>1, <1>2, <1>3 DEF Progress, SameTrail

\* Pump A hands its frame to the child.
LEMMA ForwardProgress ==
  ASSUME TypeOK, Progress, pcA = "forward", Untouched(frameA),
         frameA.kind = "call" => AllowEvent(frameA) /\ Permitted(frameA),
         pcA' = "read", frameA' = None, toChild' = Append(toChild, frameA),
         UNCHANGED <<decidedBy, audit, stdout, unread>>
  PROVE  Progress'
<1> DEFINE f == frameA
           n == Len(toChild)
<1>1. f \in Frames /\ f \notin unread /\ unread \subseteq Frames
      /\ None \notin unread
  BY NoneIsNoFrame
  DEF TypeOK, PumpAType, AgentType, AHoldsFrame, Progress, UnreadFresh
<1>2. /\ Forwarded' = Forwarded \cup {f}
      /\ DOMAIN toChild = 1..n /\ DOMAIN toChild' = 1..(n + 1)
      /\ \A i \in 1..n : toChild'[i] = toChild[i]
      /\ toChild'[n + 1] = f
  BY <1>1, OneMoreForwarded
<1>n. n \in Nat
  BY DEF TypeOK, ChildType
<1> HIDE DEF n
<1>3. Answered' = Answered
  BY DEF Answered
<1>4. \A g \in Frames : CallEvents(g)' = CallEvents(g)
  BY DEF CallEvents
<1>5. FrameProgress'
  BY DEF FrameProgress, AHoldsFrame, AWritesReply
<1>6. UnreadFresh'
  BY <1>1, <1>2, <1>3, <1>4 DEF UnreadFresh, Progress, Untouched
<1>7. \A i \in 1..n : toChild[i] # f
  BY <1>2 DEF Untouched, Forwarded
<1>8. OneOutcomePerFrame'
  <2>1. \A i, j \in DOMAIN toChild' : toChild'[i] = toChild'[j] => i = j
    BY <1>2, <1>7, <1>n DEF Progress, Outcomes, OneOutcomePerFrame
  <2>2. Forwarded' \cap Answered' = {}
    BY <1>2, <1>3 DEF Progress, Outcomes, OneOutcomePerFrame, Untouched
  <2> QED  BY <2>1, <2>2 DEF Progress, Outcomes, OneOutcomePerFrame
<1>9. AuditPrecedesEffect'
  <2> SUFFICES ASSUME NEW g \in CallFrames
               PROVE  /\ g \in Forwarded' => \E i \in CallEvents(g) :
                           CallEvents(g) = {i} /\ audit[i].detail = "allow"
                      /\ g \in Answered => \E i \in CallEvents(g) :
                           CallEvents(g) = {i} /\ audit[i].detail # "allow"
    BY <1>3, <1>4 DEF AuditPrecedesEffect, CallFrames
  <2>1. CASE g = f
    <3>1. AllowEvent(f) /\ f \notin Answered
      BY <2>1 DEF CallFrames, Untouched
    <3> QED  BY <2>1, <3>1 DEF AllowEvent, OneEvent
  <2>2. CASE g # f
    BY <1>2, <2>2 DEF Progress, Outcomes, AuditPrecedesEffect
  <2> QED  BY <2>1, <2>2
<1>10. UpstreamSeesOnlyAllowedCalls'
  <2> SUFFICES ASSUME NEW i \in 1..(n + 1), toChild'[i].kind = "call"
               PROVE  /\ decidedBy[toChild'[i]] # None
                      /\ toChild'[i] \in PermittedBy[decidedBy[toChild'[i]]]
    BY <1>2 DEF UpstreamSeesOnlyAllowedCalls, PermittedBy
  <2>1. CASE i \in 1..n
    BY <1>2, <2>1 DEF Progress, Outcomes, UpstreamSeesOnlyAllowedCalls
  <2>2. CASE i = n + 1
    <3>1. toChild'[i] = f /\ f \in CallFrames /\ Permitted(f)
      BY <1>1, <1>2, <2>2 DEF CallFrames
    <3>2. decidedBy[f] \in AllPolicies
      BY <1>1, <3>1 DEF TypeOK, PumpAType, Permitted
    <3>3. PermittedBy[decidedBy[f]] =
            {g \in CallFrames : /\ Rejection(g) = ""
                                /\ EvaluatePolicy(decidedBy[f], CallOf(g)) = "allow"}
      BY <3>2 DEF PermittedBy
    <3>4. f \in PermittedBy[decidedBy[f]] /\ decidedBy[f] # None
      BY <3>1, <3>3 DEF Permitted
    <3> QED  BY <3>1, <3>4
  <2>3. i \in 1..n \/ i = n + 1
    BY <1>n
  <2> QED  BY <2>1, <2>2, <2>3, Zenon
<1> QED  BY <1>5, <1>6, <1>8, <1>9, <1>10 DEF Progress, Outcomes

\* Pump A writes the header, or the body, of its answer to the frame.
LEMMA AnswerProgress ==
  ASSUME TypeOK, Progress, frameA.kind = "call", frameA \notin Forwarded,
         pcA \in AWritesReply, NEW part \in {"hdr", "body"}, Write(part, replyA),
         \/ /\ part = "hdr" /\ frameA \notin Answered
            /\ pcA' = "replyBody" /\ UNCHANGED <<frameA, replyA>>
         \/ /\ part = "body" /\ HeaderOnly(frameA)
            /\ pcA' = "read" /\ frameA' = None,
         UNCHANGED <<decidedBy, audit, toChild, unread>>
  PROVE  Progress'
<1> DEFINE f == frameA
           n == Len(stdout)
<1>1. /\ f \in Frames /\ f \notin unread /\ unread \subseteq Frames
      /\ None \notin unread
      /\ replyA \in Messages /\ replyA.from = "proxy" /\ replyA.frame = f
      /\ RefusalEvent(f)
  BY NoneIsNoFrame DEF TypeOK, PumpAType, AgentType, AHoldsFrame, AWritesReply,
     Progress, UnreadFresh, FrameProgress
<1>2. /\ n \in Nat /\ DOMAIN stdout = 1..n /\ DOMAIN stdout' = 1..(n + 1)
      /\ \A i \in 1..n : stdout'[i] = stdout[i]
      /\ stdout'[n + 1] = Chunk(part, replyA)
      /\ Answered' = Answered \cup {f}
  BY <1>1, OneMoreChunk, OneMoreAnswered
<1>c. stdout'[n + 1].part = part /\ stdout'[n + 1].msg = replyA
  BY <1>2 DEF Chunk
<1> HIDE DEF n
<1>3. Forwarded' = Forwarded
  BY DEF Forwarded
<1>4. \A g \in Frames : CallEvents(g)' = CallEvents(g)
      /\ RefusalEvent(g)' = RefusalEvent(g)
  BY DEF CallEvents, RefusalEvent, OneEvent
<1>5. \A i \in 1..n : stdout[i].msg.from = "proxy" /\ stdout[i].msg.frame = f
                        => stdout[i].part # part
  BY <1>2 DEF Answered, HeaderOnly
<1>6. FrameProgress'
  <2>1. part = "hdr" => HeaderOnly(f)'
    BY <1>2, <1>5, <1>c DEF HeaderOnly, Answered
  <2> QED
    BY <1>1, <1>3, <1>4, <2>1 DEF FrameProgress, AHoldsFrame, AWritesReply, Progress
<1>7. UnreadFresh'
  BY <1>1, <1>2, <1>3, <1>4 DEF UnreadFresh, Progress, Untouched
<1>8. OneOutcomePerFrame'
  <2>1. ASSUME NEW i \in 1..(n + 1), NEW j \in 1..(n + 1),
               stdout'[i].msg.from = "proxy", stdout'[j].msg.from = "proxy",
               stdout'[i].part = stdout'[j].part,
               stdout'[i].msg.frame = stdout'[j].msg.frame
        PROVE  i = j
    <3>1. CASE i \in 1..n /\ j \in 1..n
      BY <1>2, <2>1, <3>1 DEF Progress, Outcomes, OneOutcomePerFrame
    <3>2. CASE i = n + 1 /\ j \in 1..n
      BY <1>1, <1>2, <1>5, <1>c, <2>1, <3>2
    <3>3. CASE j = n + 1 /\ i \in 1..n
      BY <1>1, <1>2, <1>5, <1>c, <2>1, <3>3
    <3> QED  BY <1>2, <3>1, <3>2, <3>3
  <2>2. Forwarded' \cap Answered' = {}
    BY <1>2, <1>3 DEF Progress, Outcomes, OneOutcomePerFrame
  <2> QED  BY <1>2, <2>1, <2>2 DEF Progress, Outcomes, OneOutcomePerFrame
<1>9. AuditPrecedesEffect'
  <2> SUFFICES ASSUME NEW g \in CallFrames
               PROVE  /\ g \in Forwarded => \E i \in CallEvents(g) :
                           CallEvents(g) = {i} /\ audit[i].detail = "allow"
                      /\ g \in Answered' => \E i \in CallEvents(g) :
                           CallEvents(g) = {i} /\ audit[i].detail # "allow"
    BY <1>3, <1>4 DEF AuditPrecedesEffect, CallFrames
  <2>1. CASE g = f
    BY <1>1, <2>1 DEF RefusalEvent, OneEvent
  <2>2. CASE g # f
    BY <1>2, <2>2 DEF Progress, Outcomes, AuditPrecedesEffect
  <2> QED  BY <2>1, <2>2
<1>10. UpstreamSeesOnlyAllowedCalls'
  BY DEF Progress, Outcomes, UpstreamSeesOnlyAllowedCalls
<1> QED  BY <1>6, <1>7, <1>8, <1>9, <1>10 DEF Progress, Outcomes

\* The steps of pump A that move its frame along.
LEMMA PumpAProgress ==
  ASSUME TypeOK, Progress, PumpA
  PROVE  Progress'
<1> DEFINE f == frameA
<1>a. unread \subseteq Frames /\ None \notin Frames /\ None \notin AllPolicies
  BY NoneIsNoFrame DEF TypeOK, AgentType
<1>b. pcA \in AHoldsFrame => f \in Frames /\ f \notin unread
  BY DEF TypeOK, PumpAType, Progress, UnreadFresh
<1>1. ASSUME PumpARead PROVE Progress'
  <2>1. SameTrail /\ unread' \subseteq unread
    BY <1>1, QuietKeepsTrail DEF PumpARead, outVars, childVars
  <2>2. CASE pcA' = "done" /\ frameA' = None
    BY <2>1, <2>2, KeepProgress DEF AHoldsFrame, AWritesReply
  <2>3. CASE \E g \in unread :
               /\ unread' = unread \ {g} /\ frameA' = g
               /\ pcA' = IF g.kind = "call" THEN "intercept" ELSE "forward"
    <3>1. PICK g \in unread :
            /\ unread' = unread \ {g} /\ frameA' = g
            /\ pcA' = IF g.kind = "call" THEN "intercept" ELSE "forward"
      BY <2>3
    <3>2. /\ g \in Frames /\ Untouched(g)
          /\ CallEvents(g) = {} /\ decidedBy[g] = None
      BY <1>a DEF Progress, UnreadFresh
    <3>3. UnreadFresh'
      <4> SUFFICES ASSUME NEW h \in unread'
                   PROVE  /\ h # frameA' /\ Untouched(h)' /\ CallEvents(h)' = {}
                          /\ decidedBy'[h] = None
        BY DEF UnreadFresh
      <4> QED  BY <1>a, <2>1, <3>1 DEF Progress, UnreadFresh, Untouched, SameTrail
    <3>4. FrameProgress'
      BY <2>1, <3>1, <3>2
      DEF FrameProgress, Untouched, SameTrail, AHoldsFrame, AWritesReply
    <3> QED  BY <2>1, <3>3, <3>4 DEF Progress, SameTrail
  <2> QED  BY <1>1, <2>2, <2>3 DEF PumpARead, FinishA
<1>2. ASSUME PumpAValidate PROVE Progress'
  <2>1. /\ pcA = "intercept" /\ f \in Frames /\ f \notin unread /\ f.kind = "call"
        /\ Untouched(f) /\ CallEvents(f) = {} /\ decidedBy[f] = None
        /\ UNCHANGED <<frameA, decisionA, decidedBy, toChild, stdout, unread>>
    BY <1>2, <1>b DEF PumpAValidate, Progress, FrameProgress, AHoldsFrame,
       AWritesReply, outVars, childVars, agentVars
  <2>2. CASE Rejection(f) = ""
    <3>1. SameTrail /\ pcA' = "evaluate"
      BY <1>2, <2>1, <2>2, QuietKeepsTrail DEF PumpAValidate
    <3>2. FrameProgress'
      BY <2>1, <2>2, <3>1
      DEF FrameProgress, Untouched, SameTrail, AHoldsFrame, AWritesReply
    <3>3. UnreadFresh'
      BY <1>a, <2>1, <3>1 DEF UnreadFresh, Progress, Untouched, SameTrail
    <3> QED  BY <3>1, <3>2, <3>3 DEF Progress, SameTrail
  <2>3. CASE Rejection(f) # ""
    <3> DEFINE e == Event("call", f, "error")
    <3>1. e \in AuditEvents /\ e.what = "call" /\ e.frame = f /\ e.detail # "allow"
      BY <2>1, EventType DEF Event
    <3>2. audit' = Append(audit, e) /\ pcA' = "reply"
      BY <1>2, <2>3 DEF PumpAValidate
    <3>3. replyA'.from = "proxy" /\ replyA'.frame = f
      <4>1. replyA' = Synthetic(frameA, Rejection(frameA), None)
        BY <1>2, <2>3 DEF PumpAValidate
      <4> QED  BY <4>1 DEF Synthetic
    <3> HIDE DEF e
    <3> QED
      BY <2>1, <3>1, <3>2, <3>3, DecideProgress DEF AWritesReply
  <2> QED  BY <2>2, <2>3
<1>3. ASSUME PumpAEvaluate PROVE Progress'
  <2>1. /\ pcA = "evaluate" /\ pcA' = "emit" /\ f \in Frames /\ f \notin unread
        /\ f.kind = "call" /\ Untouched(f) /\ CallEvents(f) = {}
          /\ Rejection(f) = ""
        /\ decidedBy' = [decidedBy EXCEPT ![f] = policy]
        /\ decisionA' = EvaluatePolicy(policy, CallOf(f))
        /\ UNCHANGED <<frameA, toChild, stdout, audit, unread>>
    BY <1>3, <1>b DEF PumpAEvaluate, Progress, FrameProgress, AHoldsFrame,
       AWritesReply, outVars, childVars, agentVars
  <2>2. decidedBy \in [Frames -> AllPolicies \cup {None}] /\ policy # None
    BY <1>a DEF TypeOK, PumpAType, EngineType
  <2>3. /\ decidedBy'[f] = policy
        /\ \A g \in Frames \ {f} : decidedBy'[g] = decidedBy[g]
    BY <2>1, <2>2
  <2>4. Forwarded' = Forwarded /\ Answered' = Answered
    BY <2>1 DEF Forwarded, Answered
  <2>5. \A g \in Frames : CallEvents(g)' = CallEvents(g)
    BY <2>1 DEF CallEvents
  <2>6. FrameProgress'
    BY <2>1, <2>2, <2>3, <2>4, <2>5
    DEF FrameProgress, Untouched, AHoldsFrame, AWritesReply
  <2>7. UnreadFresh'
    <3> SUFFICES ASSUME NEW h \in unread
                 PROVE  /\ h # f /\ Untouched(h)' /\ CallEvents(h)' = {}
                        /\ decidedBy'[h] = None
      BY <2>1 DEF UnreadFresh
    <3> QED
      BY <1>a, <2>1, <2>3, <2>4, <2>5 DEF UnreadFresh, Progress, Untouched
  <2>8. OneOutcomePerFrame' /\ AuditPrecedesEffect'
    <3>1. OneOutcomePerFrame /\ AuditPrecedesEffect
      BY DEF Progress, Outcomes
    <3>2. OneOutcomePerFrame'
      BY <2>1, <2>4, <3>1 DEF OneOutcomePerFrame
    <3>3. AuditPrecedesEffect'
      BY <2>1, <2>4, <2>5, <3>1 DEF AuditPrecedesEffect, CallFrames
    <3> QED  BY <3>2, <3>3
  <2>9. UpstreamSeesOnlyAllowedCalls'
    <3> SUFFICES ASSUME NEW i \in DOMAIN toChild, toChild[i].kind = "call"
                 PROVE  /\ decidedBy'[toChild[i]] # None
                        /\ toChild[i] \in PermittedBy[decidedBy'[toChild[i]]]
      BY <2>1 DEF UpstreamSeesOnlyAllowedCalls, PermittedBy
    <3>1. toChild[i] \in Forwarded /\ toChild[i] \in Frames
      BY DEF Forwarded, TypeOK, ChildType
    <3>2. toChild[i] # f
      BY <2>1, <3>1 DEF Untouched
    <3> QED
      BY <2>3, <3>1, <3>2 DEF Progress, Outcomes, UpstreamSeesOnlyAllowedCalls
  <2> QED  BY <2>6, <2>7, <2>8, <2>9 DEF Progress, Outcomes
<1>4. ASSUME PumpAEmit PROVE Progress'
  <2> DEFINE e == Event("call", f, decisionA)
  <2>1. /\ pcA = "emit" /\ f \in Frames /\ f.kind = "call"
        /\ Rejection(f) = "" /\ decidedBy[f] # None
        /\ decisionA = EvaluatePolicy(decidedBy[f], CallOf(f))
        /\ UNCHANGED <<frameA, decidedBy, toChild, stdout, unread>>
    BY <1>4, <1>b DEF PumpAEmit, Progress, FrameProgress, AHoldsFrame,
       AWritesReply, outVars, childVars, agentVars
  <2>2. e \in AuditEvents /\ e.what = "call" /\ e.frame = f /\ e.detail = decisionA
    BY <2>1, EventType DEF Event, TypeOK, PumpAType
  <2>3. /\ audit' = Append(audit, e)
        /\ pcA' = IF decisionA = "allow" THEN "forward" ELSE "version"
    BY <1>4 DEF PumpAEmit
  <2>4. decisionA = "allow" => Permitted(f)
    BY <2>1 DEF Permitted
  <2> HIDE DEF e
  <2> QED  BY <2>1, <2>2, <2>3, <2>4, DecideProgress
<1>5. ASSUME PumpARefuse PROVE Progress'
  <2>1. /\ pcA = "version" /\ pcA' = "reply" /\ f \in Frames /\ f \notin unread
        /\ f.kind = "call" /\ Untouched(f) /\ RefusalEvent(f)
        /\ replyA'.from = "proxy" /\ replyA'.frame = f
        /\ UNCHANGED <<frameA, decisionA, decidedBy, audit, toChild, stdout, unread>>
    BY <1>5, <1>b DEF PumpARefuse, Synthetic, Progress, FrameProgress, AHoldsFrame,
       AWritesReply, outVars, childVars, agentVars
  <2> QED  BY <2>1, ReplyProgress DEF AHoldsFrame, AWritesReply
<1>6. ASSUME PumpALock PROVE Progress'
  <2>1. /\ pcA = "reply" /\ pcA' = "replyHdr" /\ f \in Frames /\ f \notin unread
        /\ f.kind = "call" /\ Untouched(f) /\ RefusalEvent(f)
        /\ replyA'.from = "proxy" /\ replyA'.frame = f
        /\ UNCHANGED <<frameA, decisionA, decidedBy, audit, toChild, stdout, unread>>
    BY <1>6, <1>b DEF PumpALock, Progress, FrameProgress, AHoldsFrame,
       AWritesReply, outVars, childVars, agentVars
  <2> QED  BY <2>1, ReplyProgress DEF AHoldsFrame, AWritesReply
<1>7. ASSUME PumpAForward PROVE Progress'
  <2>1. /\ pcA = "forward" /\ f \in Frames /\ Untouched(f)
        /\ f.kind = "call" => AllowEvent(f) /\ Permitted(f)
        /\ UNCHANGED <<decidedBy, audit, stdout, unread>>
    BY <1>7, <1>b DEF PumpAForward, Progress, FrameProgress, AHoldsFrame,
       AWritesReply, outVars, childVars, agentVars
  <2>2. CASE pcA' = "done" /\ frameA' = None /\ UNCHANGED toChild
    BY <2>1, <2>2, QuietKeepsTrail, KeepProgress DEF AHoldsFrame, AWritesReply
  <2>3. CASE pcA' = "read" /\ frameA' = None /\ toChild' = Append(toChild, f)
    BY <2>1, <2>3, ForwardProgress
  <2> QED  BY <1>7, <2>2, <2>3 DEF PumpAForward, FinishA
<1>8. ASSUME PumpAHeader PROVE Progress'
  <2>1. /\ pcA = "replyHdr" /\ pcA' = "replyBody" /\ f.kind = "call"
        /\ Untouched(f) /\ Write("hdr", replyA)
        /\ UNCHANGED <<frameA, decisionA, replyA, decidedBy, audit, toChild, unread>>
    BY <1>8 DEF PumpAHeader, Progress, FrameProgress, AHoldsFrame, AWritesReply,
       childVars, agentVars
  <2> QED  BY <2>1, AnswerProgress DEF Untouched, AWritesReply
<1>9. ASSUME PumpABody PROVE Progress'
  <2>1. /\ pcA = "replyBody" /\ pcA' = "read" /\ frameA' = None /\ f.kind = "call"
        /\ f \notin Forwarded /\ HeaderOnly(f) /\ Write("body", replyA)
        /\ UNCHANGED <<decisionA, decidedBy, audit, toChild, unread>>
    BY <1>9 DEF PumpABody, Progress, FrameProgress, AHoldsFrame, AWritesReply,
       childVars, agentVars
  <2> QED  BY <2>1, AnswerProgress DEF Untouched, AWritesReply
<1>10. ASSUME PumpAWriteFails PROVE Progress'
  <2>1. SameTrail /\ unread' \subseteq unread /\ pcA' = "done" /\ frameA' = None
    BY <1>10, QuietKeepsTrail DEF PumpAWriteFails, FinishA, childVars, agentVars
  <2> QED  BY <2>1, KeepProgress DEF AHoldsFrame, AWritesReply
<1> QED
  BY <1>1, <1>2, <1>3, <1>4, <1>5, <1>6, <1>7, <1>8, <1>9, <1>10 DEF PumpA

\* The other steps leave pump A's frame where it is.
LEMMA ProgressStep == TypeOK /\ Progress /\ ChildMessages
  /\ [Next]_vars => Progress'
<1> SUFFICES ASSUME TypeOK, Progress, ChildMessages, [Next]_vars PROVE Progress'
  OBVIOUS
<1> DEFINE Quiet ==
      /\ UNCHANGED <<toChild, stdout, audit, decidedBy>>
      /\ UNCHANGED <<pcA, frameA, decisionA, replyA>> /\ unread' \subseteq unread
<1>1. ASSUME Quiet PROVE Progress'
  BY <1>1, QuietKeepsTrail, KeepProgress
<1>2. ASSUME RunStart PROVE Progress'
  <2> DEFINE e == Event("startup", None, "")
  <2>1. e \in AuditEvents /\ e.what # "call"
    BY EventType DEF Event
  <2>2. /\ audit' = Append(audit, e)
        /\ UNCHANGED <<toChild, stdout, decidedBy, unread>>
        /\ UNCHANGED <<frameA, decisionA, replyA>> /\ pcA' \in {pcA, "read"}
    BY <1>2 DEF RunStart, childVars, outVars, agentVars
  <2> HIDE DEF e
  <2>3. SameTrail
    BY <2>1, <2>2, RunEventKeepsTrail
  <2> QED  BY <2>2, <2>3, KeepProgress DEF AHoldsFrame, AWritesReply
<1>3. ASSUME RunReceive PROVE Progress'
  <2> DEFINE e == Event("shutdown", None, shutdownReason(Head(finished)))
  <2>1. e \in AuditEvents /\ e.what # "call"
    BY EventType DEF Event, shutdownReason
  <2>2. /\ audit' = Append(audit, e)
        /\ UNCHANGED <<toChild, stdout, decidedBy, unread>>
        /\ UNCHANGED <<pcA, frameA, decisionA, replyA>>
    BY <1>3 DEF RunReceive, childVars, outVars, agentVars, pumpAVars
  <2> HIDE DEF e
  <2>3. SameTrail
    BY <2>1, <2>2, RunEventKeepsTrail
  <2> QED  BY <2>2, <2>3, KeepProgress
<1>4. ASSUME PumpBHeader \/ PumpBBody PROVE Progress'
  <2>1. /\ \E part \in {"hdr", "body"} : Write(part, msgB)
        /\ msgB \in Messages /\ msgB.from # "proxy"
        /\ UNCHANGED <<toChild, audit, decidedBy, pcA, frameA, decisionA, replyA, unread>>
    BY <1>4 DEF PumpBHeader, PumpBBody, ChildMessages, BHoldsMessage, TypeOK,
       PumpBType, childVars, agentVars, pumpAVars
  <2>2. SameTrail
    BY <2>1, RelayKeepsTrail
  <2> QED  BY <2>1, <2>2, KeepProgress
<1>5. ASSUME PumpBRead \/ PumpBLock \/ PumpBWriteFails PROVE Quiet
  BY <1>5 DEF PumpBRead, PumpBLock, PumpBWriteFails, agentVars, pumpAVars,
     outVars, childVars
<1>6. ASSUME RunCancel \/ RunReap \/ ProcessExit \/ Shutdown \/ EngineUpdate \/ BrokenPipe
      PROVE  Quiet
  BY <1>6 DEF RunCancel, RunReap, ProcessExit, Shutdown, EngineUpdate, BrokenPipe,
     agentVars, pumpAVars, outVars, childVars
<1>7. ASSUME ChildHandle \/ ChildExits \/ ChildKilled PROVE Quiet
  BY <1>7 DEF ChildHandle, ChildExits, ChildKilled, ChildEnds, agentVars,
     pumpAVars, outVars
<1>8. ASSUME AgentClose \/ (\E state \in AgentStates : AgentTurns(state)) PROVE Quiet
  BY <1>8 DEF AgentClose, AgentTurns, pumpAVars, outVars, childVars
<1>9. ASSUME UNCHANGED vars PROVE Quiet
  BY <1>9 DEF vars
<1> HIDE DEF Quiet
<1> QED
  BY PumpAProgress, <1>1, <1>2, <1>3, <1>4, <1>5, <1>6, <1>7, <1>8, <1>9
  DEF Next, PumpB, Run

\* Nothing on the child's side of the pipe is the proxy's own message.
LEMMA ChildMessagesStep == TypeOK /\ ChildMessages /\ [Next]_vars => ChildMessages'
<1> SUFFICES ASSUME TypeOK, ChildMessages, [Next]_vars PROVE ChildMessages'
  OBVIOUS
<1>t. childOut \in Seq(Messages)
  BY DEF TypeOK, ChildType
<1>1. ASSUME NEW m \in Messages, m.from # "proxy", childOut' \in {childOut, Append(childOut, m)},
             UNCHANGED <<pcB, msgB>>
      PROVE  ChildMessages'
  BY <1>t, <1>1 DEF ChildMessages
<1>2. ASSUME ChildHandle PROVE ChildMessages'
  <2> DEFINE m == Relayed(toChild[childGot + 1])
  <2>1. toChild[childGot + 1] \in Frames
    BY <1>2 DEF ChildHandle, TypeOK, ChildType
  <2>2. m \in Messages /\ m.from # "proxy"
    BY <2>1, RelayedType DEF Relayed
  <2>3. childOut' \in {childOut, Append(childOut, m)} /\ UNCHANGED <<pcB, msgB>>
    BY <1>2 DEF ChildHandle, pumpBVars
  <2> HIDE DEF m
  <2> QED  BY <1>1, <2>2, <2>3
<1>3. ASSUME NEW how, ChildEnds(how) PROVE ChildMessages'
  <2>1. Torn \in Messages /\ Torn.from # "proxy"
    BY TornType DEF Torn
  <2>2. childOut' \in {childOut, Append(childOut, Torn)} /\ UNCHANGED <<pcB, msgB>>
    BY <1>3 DEF ChildEnds, pumpBVars
  <2> QED  BY <1>1, <2>1, <2>2
<1>4. ASSUME RunReap PROVE ChildMessages'
  BY <1>4, <1>t DEF RunReap, ChildMessages, pumpBVars
<1>5. ASSUME PumpBRead PROVE ChildMessages'
  <2>1. CASE childOut = <<>>
    <3>1. UNCHANGED childOut /\ pcB' = "done"
      BY <1>5, <2>1 DEF PumpBRead, FinishB
    <3> QED  BY <3>1 DEF ChildMessages, BHoldsMessage
  <2>2. CASE childOut # <<>>
    <3>1. childOut' = Tail(childOut)
      BY <1>5, <2>2 DEF PumpBRead
    <3>2. pcB' = "done" \/ msgB' = childOut[1]
      BY <1>5, <1>t, <2>2 DEF PumpBRead, FinishB
    <3>3. childOut[1].from # "proxy"
      BY <1>t, <2>2 DEF ChildMessages
    <3>4. \A i \in DOMAIN childOut' : childOut'[i].from # "proxy"
      BY <3>1, <1>t, <2>2 DEF ChildMessages
    <3> QED  BY <3>2, <3>3, <3>4 DEF ChildMessages, BHoldsMessage
  <2> QED  BY <2>1, <2>2
<1>6. ASSUME UNCHANGED childOut, UNCHANGED <<pcB, msgB>> \/ pcB' \notin BHoldsMessage
                                  \/ (pcB \in BHoldsMessage /\ UNCHANGED msgB)
      PROVE  ChildMessages'
  BY <1>6 DEF ChildMessages
<1>7. ASSUME PumpBLock \/ PumpBHeader \/ PumpBBody \/ PumpBWriteFails
      PROVE  ChildMessages'
  BY <1>6, <1>7 DEF PumpBLock, PumpBHeader, PumpBBody, PumpBWriteFails, FinishB,
     BHoldsMessage, childVars
<1>8. ASSUME RunStart PROVE ChildMessages'
  BY <1>6, <1>8 DEF RunStart, BHoldsMessage, childVars
<1>9. ASSUME UNCHANGED childOut /\ UNCHANGED <<pcB, msgB>>
      PROVE  ChildMessages'
  BY <1>6, <1>9
<1>10. ASSUME PumpA PROVE UNCHANGED childOut /\ UNCHANGED <<pcB, msgB>>
  BY <1>10 DEF PumpA, PumpARead, PumpAValidate, PumpAEvaluate, PumpAEmit,
     PumpARefuse,
     PumpAForward, PumpALock, PumpAHeader, PumpABody, PumpAWriteFails, childVars, pumpBVars
<1>11. ASSUME \/ RunReceive \/ RunCancel \/ ProcessExit \/ Shutdown \/ EngineUpdate
              \/ BrokenPipe \/ AgentClose \/ \E state \in AgentStates : AgentTurns(state)
              \/ UNCHANGED vars
       PROVE  UNCHANGED childOut /\ UNCHANGED <<pcB, msgB>>
  BY <1>11 DEF RunReceive, RunCancel, ProcessExit, Shutdown, EngineUpdate,
     BrokenPipe,
     AgentClose, AgentTurns, vars, childVars, pumpBVars
<1> QED
  BY <1>2, <1>3, <1>4, <1>5, <1>7, <1>8, <1>9, <1>10, <1>11
  DEF Next, PumpB, Run, ChildExits, ChildKilled

-----------------------------------------------------------------------------
(* The theorems *)

LEMMA FateInvInit == Init => FateInv
<1> SUFFICES ASSUME Init PROVE FateInv
  OBVIOUS
<1> USE DEF Init
<1>1. DOMAIN stdout = {} /\ DOMAIN toChild = {} /\ DOMAIN audit = {}
      /\ DOMAIN childOut = {}
  OBVIOUS
<1>2. Forwarded = {} /\ Answered = {} /\ \A f \in Frames : CallEvents(f) = {}
  BY <1>1 DEF Forwarded, Answered, CallEvents
<1>3. NotStarted /\ MutexHeld
  BY DEF NotStarted, MutexHeld
<1>4. HalfWritten
  BY DEF HalfWritten
<1>5. StdoutFramed /\ ChildMessages
  BY <1>1 DEF StdoutFramed, ChildMessages, BHoldsMessage
<1>6. UnreadFresh
  <2>1. unread \subseteq Frames /\ None \notin Frames
    BY ProxyAssumption
  <2> QED  BY <1>2, <2>1 DEF UnreadFresh, Untouched
<1>7. FrameProgress
  BY DEF FrameProgress, AHoldsFrame, AWritesReply
<1>8. OneOutcomePerFrame /\ AuditPrecedesEffect /\ UpstreamSeesOnlyAllowedCalls
  BY <1>1, <1>2 DEF OneOutcomePerFrame, AuditPrecedesEffect,
     UpstreamSeesOnlyAllowedCalls
<1> QED  BY <1>3, <1>4, <1>5, <1>6, <1>7, <1>8 DEF FateInv

LEMMA FateInvStep == TypeOK /\ FateInv /\ [Next]_vars => FateInv'
BY StdoutStep, ProgressStep, ChildMessagesStep
DEF FateInv, StdoutInv, Progress, Outcomes

\* The invariant that carries the safety properties: in every reachable state
\* the mutex belongs to the pump inside writeToAgent, a frame that is not read
\* yet has left no trace, and the frame in pump A's hands is where the audit
\* trail and the two pipes say it is.
THEOREM FateHolds == Spec => []FateInv
<1>1. TypeOK /\ FateInv /\ [Next]_vars => FateInv'
  BY FateInvStep
<1> QED  BY TypeCorrect, FateInvInit, <1>1, PTL DEF Spec

\* No tools/call reaches the upstream server unless the catalog accepted it and
\* the policy snapshot it was evaluated against allows it.
THEOREM NoCallBypassesTheGate == Spec => []UpstreamSeesOnlyAllowedCalls
<1>1. FateInv => UpstreamSeesOnlyAllowedCalls
  BY DEF FateInv
<1> QED  BY FateHolds, <1>1, PTL

\* Every frame is forwarded once, answered once, or neither, and never both.
THEOREM AtMostOneOutcome == Spec => []OneOutcomePerFrame
<1>1. FateInv => OneOutcomePerFrame
  BY DEF FateInv
<1> QED  BY FateHolds, <1>1, PTL

\* By the time a call's outcome is visible, one audit event states it.
THEOREM AuditRunsAhead == Spec => []AuditPrecedesEffect
<1>1. FateInv => AuditPrecedesEffect
  BY DEF FateInv
<1> QED  BY FateHolds, <1>1, PTL

\* The two pumps never interleave inside a frame on the agent's stdout.
THEOREM FramesNeverInterleave == Spec => []StdoutFramed
<1>1. FateInv => StdoutFramed
  BY DEF FateInv
<1> QED  BY FateHolds, <1>1, PTL
=============================================================================
