----------------------------- MODULE ProxyProofs -----------------------------
(***************************************************************************)
(* Proofs about Proxy, for every set of frames, tools and policies, every  *)
(* capacity and every number of policy swaps.                              *)
(***************************************************************************)
EXTENDS Proxy, PolicyProofs, SequenceTheorems

-----------------------------------------------------------------------------
(* Types *)

LEMMA PolicyType == AllPolicies \subseteq CompiledPolicy
<1>1. <<>> \in Seq(CompiledRule)
  OBVIOUS
<1>2. DenyByDefault \in CompiledPolicy
  BY <1>1 DEF DenyByDefault, CompiledPolicy, Actions
<1> QED  BY <1>2, ProxyAssumption DEF AllPolicies

LEMMA CallType == ASSUME NEW f \in Frames PROVE CallOf(f) \in Calls
BY ProxyAssumption DEF CallOf, Calls, FrameType

LEMMA TornType == Torn \in Messages
BY DEF Messages

LEMMA RelayedType == ASSUME NEW f \in Frames PROVE Relayed(f) \in Messages
BY DEF Messages

LEMMA SyntheticType ==
  ASSUME NEW f \in Frames
  PROVE  /\ \A c \in {"invalid_params", "method_not_found"} :
              Synthetic(f, c, None) \in Messages
         /\ \A p \in AllPolicies :
              Synthetic(f, "policy_denied", p.version) \in Messages
<1>1. ASSUME NEW c \in {"invalid_params", "method_not_found", "policy_denied"},
             NEW v \in {p.version : p \in AllPolicies} \cup {None}
      PROVE  Synthetic(f, c, v) \in Messages
  BY DEF Messages
<1> QED  BY <1>1

LEMMA ChunkType ==
  ASSUME NEW part \in {"hdr", "body"}, NEW m \in Messages
  PROVE  Chunk(part, m) \in [part: {"hdr", "body"}, msg: Messages]
BY DEF Chunk

LEMMA EventType ==
  ASSUME NEW what \in {"startup", "shutdown", "call"},
         NEW f \in Frames \cup {None},
         NEW detail \in {"", "clean", "child_exit", "error"} \cup Decisions
  PROVE  Event(what, f, detail) \in AuditEvents
BY DEF Event, AuditEvents

LEMMA TypeInit == Init => TypeOK
<1> SUFFICES ASSUME Init PROVE TypeOK
  OBVIOUS
<1> USE DEF Init
<1>1. EngineType
  BY DEF EngineType, AllPolicies
<1>2. AgentType
  BY ProxyAssumption DEF AgentType
<1>3. PumpAType
  BY DEF PumpAType, AHoldsFrame, AWritesReply, Decisions
<1>4. PumpBType
  BY DEF PumpBType, BHoldsMessage
<1>5. OutType
  BY DEF OutType
<1>6. ChildType
  <2>1. Len(toChild) = 0 /\ toChild \in Seq(Frames) /\ childGot \in 0..0
    OBVIOUS
  <2>2. childSent \in Seq(Messages) /\ childOut \in Seq(Messages)
    OBVIOUS
  <2> QED  BY <2>1, <2>2 DEF ChildType
<1>7. RunType
  BY DEF RunType
<1>8. FinishedType
  BY DEF FinishedType
<1>9. AuditType
  BY DEF AuditType
<1> QED
  BY <1>1, <1>2, <1>3, <1>4, <1>5, <1>6, <1>7, <1>8, <1>9 DEF TypeOK
\* A group of variables a step leaves alone keeps its type.
LEMMA TypeUnchanged ==
  ASSUME TypeOK
  PROVE  /\ UNCHANGED engineVars => EngineType'
         /\ UNCHANGED agentVars => AgentType'
         /\ UNCHANGED pumpAVars => PumpAType'
         /\ UNCHANGED pumpBVars => PumpBType'
         /\ UNCHANGED outVars => OutType'
         /\ UNCHANGED childVars => ChildType'
         /\ UNCHANGED runVars => RunType'
         /\ UNCHANGED finished => FinishedType'
         /\ UNCHANGED audit => AuditType'
<1>1. UNCHANGED engineVars => EngineType'
  BY DEF TypeOK, EngineType, engineVars
<1>2. UNCHANGED agentVars => AgentType'
  BY DEF TypeOK, AgentType, agentVars
<1>3. UNCHANGED pumpAVars => PumpAType'
  BY DEF TypeOK, PumpAType, pumpAVars
<1>4. UNCHANGED pumpBVars => PumpBType'
  BY DEF TypeOK, PumpBType, pumpBVars
<1>5. UNCHANGED outVars => OutType'
  BY DEF TypeOK, OutType, outVars
<1>6. UNCHANGED childVars => ChildType'
  BY DEF TypeOK, ChildType, childVars
<1>7. UNCHANGED runVars => RunType'
  BY DEF TypeOK, RunType, runVars
<1>8. UNCHANGED finished => FinishedType'
  BY DEF TypeOK, FinishedType
<1>9. UNCHANGED audit => AuditType'
  BY DEF TypeOK, AuditType, AuditEvents
<1> QED
  BY <1>1, <1>2, <1>3, <1>4, <1>5, <1>6, <1>7, <1>8, <1>9

\* Every step keeps the types: one step per action, and under it one per
\* group of variables the action touches.
LEMMA TypeStep == TypeOK /\ [Next]_vars => TypeOK'
<1> SUFFICES ASSUME TypeOK, [Next]_vars PROVE TypeOK'
  OBVIOUS
<1>1. ASSUME AgentClose PROVE TypeOK'
  <2>1. EngineType' /\ PumpAType' /\ PumpBType' /\ OutType' /\ ChildType'
        /\ RunType' /\ FinishedType' /\ AuditType'
    BY <1>1, TypeUnchanged DEF AgentClose
  <2>2. AgentType'
    BY <1>1
    DEF TypeOK, AgentClose, AgentType
  <2> QED  BY <2>1, <2>2 DEF TypeOK
<1>2. ASSUME NEW state \in AgentStates, AgentTurns(state) PROVE TypeOK'
  <2>1. EngineType' /\ PumpAType' /\ PumpBType' /\ OutType' /\ ChildType'
        /\ RunType' /\ FinishedType' /\ AuditType'
    BY <1>2, TypeUnchanged DEF AgentTurns
  <2>2. AgentType'
    BY <1>2, ProxyAssumption
    DEF TypeOK, AgentTurns, AgentType
  <2> QED  BY <2>1, <2>2 DEF TypeOK
<1>3. ASSUME ChildHandle PROVE TypeOK'
  <2>1. EngineType' /\ AgentType' /\ PumpAType' /\ PumpBType' /\ OutType'
        /\ RunType' /\ FinishedType' /\ AuditType'
    BY <1>3, TypeUnchanged DEF ChildHandle
  <2>2. ChildType'
    <3>1. toChild \in Seq(Frames) /\ childGot + 1 \in 1..Len(toChild)
      BY <1>3 DEF TypeOK, ChildHandle, ChildType
    <3> DEFINE m == Relayed(toChild[childGot + 1])
    <3>2. m \in Messages
      <4>1. toChild[childGot + 1] \in Frames
        BY <3>1
      <4> QED  BY <4>1, RelayedType
    <3>3. ChildType /\ childSent \in Seq(Messages) /\ childOut \in Seq(Messages)
      BY DEF TypeOK, ChildType
    <3>4. \/ UNCHANGED <<childSent, childOut>>
          \/ childSent' = Append(childSent, m) /\ childOut' = Append(childOut, m)
      BY <1>3 DEF ChildHandle
    <3> HIDE DEF m
    <3>5. childSent' \in Seq(Messages) /\ childOut' \in Seq(Messages)
      <4>1. /\ Append(childSent, m) \in Seq(Messages)
            /\ Append(childOut, m) \in Seq(Messages)
        BY <3>2, <3>3
      <4> QED  BY <4>1, <3>3, <3>4
    <3>6. UNCHANGED <<toChild, stdinOpen, child, stdoutPipe>>
          /\ childGot' = childGot + 1
      BY <1>3 DEF ChildHandle
    <3> QED  BY <3>1, <3>3, <3>5, <3>6 DEF ChildType
  <2> QED  BY <2>1, <2>2 DEF TypeOK
<1>4. ASSUME NEW how \in Ended, ChildEnds(how) PROVE TypeOK'
  <2>1. EngineType' /\ AgentType' /\ PumpAType' /\ PumpBType' /\ OutType'
        /\ RunType' /\ FinishedType' /\ AuditType'
    BY <1>4, TypeUnchanged DEF ChildEnds
  <2>2. ChildType'
    <3>1. childOut \in Seq(Messages)
      BY DEF TypeOK, ChildType
    <3>2. Append(childOut, Torn) \in Seq(Messages)
      BY <3>1, TornType
    <3> QED  BY <1>4, <3>1, <3>2 DEF TypeOK, ChildEnds, ChildType
  <2> QED  BY <2>1, <2>2 DEF TypeOK
<1>5. ASSUME RunStart PROVE TypeOK'
  <2>1. EngineType' /\ AgentType' /\ OutType' /\ FinishedType'
    BY <1>5, TypeUnchanged DEF RunStart
  <2>2. RunType'
    BY <1>5
    DEF TypeOK, RunStart, RunType
  <2>3. PumpAType'
    BY <1>5
    DEF TypeOK, RunStart, PumpAType, AHoldsFrame, AWritesReply
  <2>4. PumpBType'
    BY <1>5
    DEF TypeOK, RunStart, PumpBType, BHoldsMessage
  <2>5. ChildType'
    BY <1>5
    DEF TypeOK, RunStart, ChildType, childVars
  <2>6. AuditType'
    <3> DEFINE e == Event("startup", None, "")
    <3>1. e \in AuditEvents
      BY EventType
    <3>2. audit' = Append(audit, e)
      BY <1>5 DEF RunStart
    <3> HIDE DEF e
    <3> QED  BY <3>1, <3>2 DEF TypeOK, AuditType
  <2> QED  BY <2>1, <2>2, <2>3, <2>4, <2>5, <2>6 DEF TypeOK
<1>6. ASSUME RunReceive PROVE TypeOK'
  <2>1. EngineType' /\ AgentType' /\ PumpAType' /\ PumpBType' /\ OutType'
        /\ ChildType'
    BY <1>6, TypeUnchanged DEF RunReceive
  <2>2. RunType'
    BY <1>6
    DEF TypeOK, RunReceive, RunType, FinishedType
  <2>3. FinishedType'
    BY <1>6
    DEF TypeOK, RunReceive, FinishedType
  <2>4. AuditType'
    <3>1. Event("shutdown", None, shutdownReason(Head(finished))) \in AuditEvents
      BY EventType DEF shutdownReason
    <3> QED  BY <1>6, <3>1 DEF TypeOK, RunReceive, AuditType
  <2> QED  BY <2>1, <2>2, <2>3, <2>4 DEF TypeOK
<1>7. ASSUME RunCancel PROVE TypeOK'
  <2>1. EngineType' /\ AgentType' /\ PumpAType' /\ PumpBType' /\ OutType'
        /\ FinishedType' /\ AuditType'
    BY <1>7, TypeUnchanged DEF RunCancel
  <2>2. RunType'
    BY <1>7
    DEF TypeOK, RunCancel, RunType
  <2>3. ChildType'
    BY <1>7
    DEF TypeOK, RunCancel, ChildType
  <2> QED  BY <2>1, <2>2, <2>3 DEF TypeOK
<1>8. ASSUME RunReap PROVE TypeOK'
  <2>1. EngineType' /\ AgentType' /\ PumpAType' /\ PumpBType' /\ OutType'
        /\ FinishedType' /\ AuditType'
    BY <1>8, TypeUnchanged DEF RunReap
  <2>2. RunType'
    BY <1>8
    DEF TypeOK, RunReap, RunType
  <2>3. ChildType'
    BY <1>8
    DEF TypeOK, RunReap, ChildType
  <2> QED  BY <2>1, <2>2, <2>3 DEF TypeOK
<1>9. ASSUME ProcessExit PROVE TypeOK'
  <2>1. EngineType' /\ AgentType' /\ PumpAType' /\ PumpBType' /\ OutType'
        /\ ChildType' /\ FinishedType' /\ AuditType'
    BY <1>9, TypeUnchanged DEF ProcessExit
  <2>2. RunType'
    BY <1>9
    DEF TypeOK, ProcessExit, RunType
  <2> QED  BY <2>1, <2>2 DEF TypeOK
<1>10. ASSUME Shutdown PROVE TypeOK'
  <2>1. EngineType' /\ AgentType' /\ PumpAType' /\ PumpBType' /\ OutType'
        /\ ChildType' /\ FinishedType' /\ AuditType'
    BY <1>10, TypeUnchanged DEF Shutdown
  <2>2. RunType'
    BY <1>10
    DEF TypeOK, Shutdown, RunType
  <2> QED  BY <2>1, <2>2 DEF TypeOK
<1>11. ASSUME EngineUpdate PROVE TypeOK'
  <2>1. AgentType' /\ PumpBType' /\ OutType' /\ ChildType' /\ RunType'
        /\ FinishedType' /\ AuditType'
    BY <1>11, TypeUnchanged DEF EngineUpdate
  <2>2. EngineType'
    BY <1>11
    DEF TypeOK, EngineUpdate, EngineType, AllPolicies
  <2>3. PumpAType'
    BY <1>11
    DEF TypeOK, EngineUpdate, PumpAType, AHoldsFrame, AWritesReply, AllPolicies
  <2> QED  BY <2>1, <2>2, <2>3 DEF TypeOK
<1>12. ASSUME PumpARead PROVE TypeOK'
  <2>1. EngineType' /\ PumpBType' /\ OutType' /\ ChildType' /\ RunType'
        /\ AuditType'
    BY <1>12, TypeUnchanged DEF PumpARead
  <2>2. AgentType'
    BY <1>12
    DEF TypeOK, PumpARead, AgentType
  <2>3. PumpAType'
    <3>1. PumpAType /\ policy \in AllPolicies /\ unread \subseteq Frames
      BY DEF TypeOK, EngineType, AgentType
    <3>2. CASE pcA' = "done" /\ frameA' = None /\ UNCHANGED window
      BY <1>12, <3>1, <3>2
      DEF PumpARead, PumpAType, AHoldsFrame, AWritesReply
    <3>3. CASE /\ pcA' \in {"intercept", "forward"} /\ frameA' \in unread
               /\ window' = {policy}
      BY <1>12, <3>1, <3>3
      DEF PumpARead, PumpAType, AHoldsFrame, AWritesReply
    <3> QED  BY <1>12, <3>2, <3>3 DEF PumpARead, FinishA
  <2>4. FinishedType'
    BY <1>12
    DEF TypeOK, PumpARead, FinishedType, FinishA
  <2> QED  BY <2>1, <2>2, <2>3, <2>4 DEF TypeOK
<1>13. ASSUME PumpAValidate PROVE TypeOK'
  <2>1. EngineType' /\ AgentType' /\ PumpBType' /\ OutType' /\ ChildType'
        /\ RunType' /\ FinishedType'
    BY <1>13, TypeUnchanged DEF PumpAValidate
  <2>2. PumpAType'
    <3>1. PumpAType /\ frameA \in Frames
      BY <1>13 DEF TypeOK, PumpAValidate, PumpAType, AHoldsFrame
    <3>2. Rejection(frameA) # "" =>
            Synthetic(frameA, Rejection(frameA), None) \in Messages
      BY <3>1, SyntheticType DEF Rejection
    <3> QED
      BY <1>13, <3>1, <3>2 DEF PumpAValidate, PumpAType, AHoldsFrame, AWritesReply
  <2>3. AuditType'
    <3>1. Event("call", frameA, "error") \in AuditEvents
      BY EventType DEF TypeOK, PumpAType
    <3>2. audit' = Append(audit, Event("call", frameA, "error")) \/ UNCHANGED audit
      BY <1>13 DEF PumpAValidate
    <3> QED  BY <3>1, <3>2 DEF TypeOK, AuditType
  <2> QED  BY <2>1, <2>2, <2>3 DEF TypeOK
<1>14. ASSUME PumpAEvaluate PROVE TypeOK'
  <2>1. EngineType' /\ AgentType' /\ PumpBType' /\ OutType' /\ ChildType'
        /\ RunType' /\ FinishedType' /\ AuditType'
    BY <1>14, TypeUnchanged DEF PumpAEvaluate
  <2>2. PumpAType'
    BY <1>14, EvaluateType, PolicyType, CallType
    DEF TypeOK, PumpAEvaluate, PumpAType, AHoldsFrame, AWritesReply,
       EngineType, Decisions, Actions
  <2> QED  BY <2>1, <2>2 DEF TypeOK
<1>15. ASSUME PumpAEmit PROVE TypeOK'
  <2>1. EngineType' /\ AgentType' /\ PumpBType' /\ OutType' /\ ChildType'
        /\ RunType' /\ FinishedType'
    BY <1>15, TypeUnchanged DEF PumpAEmit
  <2>2. PumpAType'
    BY <1>15
    DEF TypeOK, PumpAEmit, PumpAType, AHoldsFrame, AWritesReply
  <2>3. AuditType'
    <3>1. Event("call", frameA, decisionA) \in AuditEvents
      BY EventType DEF TypeOK, PumpAType, Decisions
    <3> QED  BY <1>15, <3>1 DEF TypeOK, PumpAEmit, AuditType
  <2> QED  BY <2>1, <2>2, <2>3 DEF TypeOK
<1>16. ASSUME PumpARefuse PROVE TypeOK'
  <2>1. EngineType' /\ AgentType' /\ PumpBType' /\ OutType' /\ ChildType'
        /\ RunType' /\ FinishedType' /\ AuditType'
    BY <1>16, TypeUnchanged DEF PumpARefuse
  <2>2. PumpAType'
    <3>1. PumpAType /\ frameA \in Frames /\ policy \in AllPolicies
      BY <1>16 DEF TypeOK, PumpARefuse, PumpAType, AHoldsFrame, EngineType
    <3>2. Synthetic(frameA, "policy_denied", policy.version) \in Messages
      BY <3>1, SyntheticType
    <3> QED
      BY <1>16, <3>1, <3>2 DEF PumpARefuse, PumpAType, AHoldsFrame, AWritesReply
  <2> QED  BY <2>1, <2>2 DEF TypeOK
<1>17. ASSUME PumpAForward PROVE TypeOK'
  <2>1. EngineType' /\ AgentType' /\ PumpBType' /\ OutType' /\ RunType'
        /\ AuditType'
    BY <1>17, TypeUnchanged DEF PumpAForward
  <2>2. PumpAType'
    BY <1>17
    DEF TypeOK, PumpAForward, PumpAType, AHoldsFrame, AWritesReply, FinishA
  <2>3. ChildType'
    BY <1>17, AppendProperties
    DEF TypeOK, PumpAForward, ChildType, PumpAType, AHoldsFrame
  <2>4. FinishedType'
    BY <1>17
    DEF TypeOK, PumpAForward, FinishedType, FinishA
  <2> QED  BY <2>1, <2>2, <2>3, <2>4 DEF TypeOK
<1>18. ASSUME PumpALock PROVE TypeOK'
  <2>1. EngineType' /\ AgentType' /\ PumpBType' /\ ChildType' /\ RunType'
        /\ FinishedType' /\ AuditType'
    BY <1>18, TypeUnchanged DEF PumpALock
  <2>2. PumpAType'
    BY <1>18
    DEF TypeOK, PumpALock, PumpAType, AHoldsFrame, AWritesReply
  <2>3. OutType'
    BY <1>18
    DEF TypeOK, PumpALock, OutType, Lock
  <2> QED  BY <2>1, <2>2, <2>3 DEF TypeOK
<1>19. ASSUME PumpAHeader PROVE TypeOK'
  <2>1. EngineType' /\ AgentType' /\ PumpBType' /\ ChildType' /\ RunType'
        /\ FinishedType' /\ AuditType'
    BY <1>19, TypeUnchanged DEF PumpAHeader
  <2>2. PumpAType'
    BY <1>19
    DEF TypeOK, PumpAHeader, PumpAType, AHoldsFrame, AWritesReply
  <2>3. OutType'
    BY <1>19, ChunkType, AppendProperties
    DEF TypeOK, PumpAHeader, OutType, Write, PumpAType, AWritesReply
  <2> QED  BY <2>1, <2>2, <2>3 DEF TypeOK
<1>20. ASSUME PumpABody PROVE TypeOK'
  <2>1. EngineType' /\ AgentType' /\ PumpBType' /\ ChildType' /\ RunType'
        /\ FinishedType' /\ AuditType'
    BY <1>20, TypeUnchanged DEF PumpABody
  <2>2. PumpAType'
    BY <1>20
    DEF TypeOK, PumpABody, PumpAType, AHoldsFrame, AWritesReply
  <2>3. OutType'
    BY <1>20, ChunkType, AppendProperties
    DEF TypeOK, PumpABody, OutType, Write, Unlock, PumpAType, AWritesReply
  <2> QED  BY <2>1, <2>2, <2>3 DEF TypeOK
<1>21. ASSUME PumpAWriteFails PROVE TypeOK'
  <2>1. EngineType' /\ AgentType' /\ PumpBType' /\ ChildType' /\ RunType'
        /\ AuditType'
    BY <1>21, TypeUnchanged DEF PumpAWriteFails
  <2>2. PumpAType'
    BY <1>21
    DEF TypeOK, PumpAWriteFails, PumpAType, AHoldsFrame, AWritesReply, FinishA
  <2>3. OutType'
    BY <1>21
    DEF TypeOK, PumpAWriteFails, OutType, Unlock
  <2>4. FinishedType'
    BY <1>21
    DEF TypeOK, PumpAWriteFails, FinishedType, FinishA
  <2> QED  BY <2>1, <2>2, <2>3, <2>4 DEF TypeOK
<1>22. ASSUME PumpBRead PROVE TypeOK'
  <2>1. EngineType' /\ AgentType' /\ PumpAType' /\ OutType' /\ RunType'
        /\ AuditType'
    BY <1>22, TypeUnchanged DEF PumpBRead
  <2>2. PumpBType'
    <3>0. childOut \in Seq(Messages)
      BY DEF TypeOK, ChildType
    <3>1. (pcB' = "done" /\ msgB' = None) \/ (pcB' = "relay" /\ msgB' \in Messages)
      <4>1. CASE childOut # <<>>
        <5>1. childOut[1] \in Messages
          BY <3>0, <4>1
        <5>2. \/ pcB' = "done" /\ msgB' = None
              \/ pcB' = "relay" /\ msgB' = childOut[1]
          BY <1>22, <3>0, <4>1 DEF PumpBRead, FinishB
        <5> QED  BY <5>1, <5>2
      <4>2. CASE childOut = <<>>
        <5>1. \E err \in {"nil", "err"} : FinishB(err)
          BY <1>22, <4>2 DEF PumpBRead
        <5> QED  BY <5>1 DEF FinishB
      <4> QED  BY <4>1, <4>2
    <3> QED  BY <3>1 DEF PumpBType, BHoldsMessage
  <2>3. ChildType'
    <3>1. childOut \in Seq(Messages)
      BY DEF TypeOK, ChildType
    <3>2. (childOut' = Tail(childOut) /\ childOut # <<>>) \/ UNCHANGED childOut
      BY <1>22 DEF PumpBRead
    <3>3. childOut' \in Seq(Messages)
      BY <3>1, <3>2
    <3>4. UNCHANGED <<toChild, childGot, stdinOpen, child, childSent, stdoutPipe>>
      BY <1>22 DEF PumpBRead
    <3> QED  BY <3>3, <3>4 DEF TypeOK, ChildType
  <2>4. FinishedType'
    BY <1>22
    DEF TypeOK, PumpBRead, FinishedType, FinishB
  <2> QED  BY <2>1, <2>2, <2>3, <2>4 DEF TypeOK
<1>23. ASSUME PumpBLock PROVE TypeOK'
  <2>1. EngineType' /\ AgentType' /\ PumpAType' /\ ChildType' /\ RunType'
        /\ FinishedType' /\ AuditType'
    BY <1>23, TypeUnchanged DEF PumpBLock
  <2>2. PumpBType'
    BY <1>23
    DEF TypeOK, PumpBLock, PumpBType, BHoldsMessage
  <2>3. OutType'
    BY <1>23
    DEF TypeOK, PumpBLock, OutType, Lock
  <2> QED  BY <2>1, <2>2, <2>3 DEF TypeOK
<1>24. ASSUME PumpBHeader PROVE TypeOK'
  <2>1. EngineType' /\ AgentType' /\ PumpAType' /\ ChildType' /\ RunType'
        /\ FinishedType' /\ AuditType'
    BY <1>24, TypeUnchanged DEF PumpBHeader
  <2>2. PumpBType'
    BY <1>24
    DEF TypeOK, PumpBHeader, PumpBType, BHoldsMessage
  <2>3. OutType'
    BY <1>24, ChunkType, AppendProperties
    DEF TypeOK, PumpBHeader, OutType, Write, PumpBType, BHoldsMessage
  <2> QED  BY <2>1, <2>2, <2>3 DEF TypeOK
<1>25. ASSUME PumpBBody PROVE TypeOK'
  <2>1. EngineType' /\ AgentType' /\ PumpAType' /\ ChildType' /\ RunType'
        /\ FinishedType' /\ AuditType'
    BY <1>25, TypeUnchanged DEF PumpBBody
  <2>2. PumpBType'
    BY <1>25
    DEF TypeOK, PumpBBody, PumpBType, BHoldsMessage
  <2>3. OutType'
    BY <1>25, ChunkType, AppendProperties
    DEF TypeOK, PumpBBody, OutType, Write, Unlock, PumpBType, BHoldsMessage
  <2> QED  BY <2>1, <2>2, <2>3 DEF TypeOK
<1>26. ASSUME PumpBWriteFails PROVE TypeOK'
  <2>1. EngineType' /\ AgentType' /\ PumpAType' /\ ChildType' /\ RunType'
        /\ AuditType'
    BY <1>26, TypeUnchanged DEF PumpBWriteFails
  <2>2. PumpBType'
    BY <1>26
    DEF TypeOK, PumpBWriteFails, PumpBType, BHoldsMessage, FinishB
  <2>3. OutType'
    BY <1>26
    DEF TypeOK, PumpBWriteFails, OutType, Unlock
  <2>4. FinishedType'
    BY <1>26
    DEF TypeOK, PumpBWriteFails, FinishedType, FinishB
  <2> QED  BY <2>1, <2>2, <2>3, <2>4 DEF TypeOK
<1>27. ASSUME BrokenPipe PROVE TypeOK'
  <2>1. EngineType' /\ AgentType' /\ PumpAType' /\ PumpBType' /\ OutType'
        /\ ChildType' /\ FinishedType' /\ AuditType'
    BY <1>27, TypeUnchanged DEF BrokenPipe
  <2>2. RunType'
    BY <1>27
    DEF TypeOK, BrokenPipe, RunType
  <2> QED  BY <2>1, <2>2 DEF TypeOK
<1>28. ASSUME UNCHANGED vars PROVE TypeOK'
  BY <1>28, TypeUnchanged
  DEF vars, TypeOK, engineVars, agentVars, pumpAVars, pumpBVars, outVars,
     childVars, runVars
<1> QED
  BY <1>1, <1>2, <1>3, <1>4, <1>5, <1>6, <1>7, <1>8, <1>9, <1>10, <1>11, <1>12,
     <1>13, <1>14, <1>15, <1>16, <1>17, <1>18, <1>19, <1>20, <1>21, <1>22,
           <1>23, <1>24, <1>25, <1>26, <1>27, <1>28
  DEF Next, PumpA, PumpB, Run, ChildExits, ChildKilled, Ended

\* Type correctness: every variable keeps its type in every reachable state,
\* and a pump that is between reading and writing has its frame in hand.
THEOREM TypeCorrect == Spec => []TypeOK
<1>1. TypeOK /\ [Next]_vars => TypeOK'
  BY TypeStep
<1> QED  BY TypeInit, <1>1, PTL DEF Spec
=============================================================================
