---------------------------- MODULE AuditProofs ----------------------------
(***************************************************************************)
(* Proofs about AuditEmitter, for every set of callers and closers, every  *)
(* list of sinks New may build, and any number of ticks, crashes, faults.  *)
(***************************************************************************)
EXTENDS AuditInvariant, SequenceTheorems, TLAPS

-----------------------------------------------------------------------------
(* Types *)

Records == [rec: Nat, whole: BOOLEAN]

LEMMA RecordType ==
  ASSUME NEW n \in Nat PROVE Whole(n) \in Records /\ Torn(n) \in Records
BY DEF Whole, Torn, Records

LEMMA TypeInit == Init => TypeOK
<1> SUFFICES ASSUME Init PROVE TypeOK
  OBVIOUS
<1> USE AuditAssumption DEF Init
<1>1. Beat \in Writers /\ NoOne \notin Writers
  BY DEF Writers
<1>2. MutexType
  BY <1>1 DEF MutexType, InEmit
<1>3. EmitType /\ CloseType /\ BeatType /\ CountType
  BY <1>1 DEF EmitType, CloseType, BeatType, CountType
<1>4. SinkType
  <2>1. out \in [Streams -> Seq(Nat)] /\ file \in Seq(Records) /\ Len(file) = 0
    OBVIOUS
  <2> QED  BY <2>1 DEF SinkType, Records
<1> QED  BY <1>2, <1>3, <1>4 DEF TypeOK

\* A crash cuts the file behind what was synced; what is left names the records
\* it named before.
LEMMA CrashKeepsType ==
  ASSUME TypeOK, Crash
  PROVE  /\ file' \in Seq(Records) /\ synced' \in 0..Len(file')
         /\ synced <= synced'
         /\ \A i \in 1..synced : i \in DOMAIN file' /\ file'[i] = file[i]
         /\ Len(file') <= Len(file)
         /\ \A i \in DOMAIN file' : file'[i].rec = file[i].rec
<1>1. file \in Seq(Records) /\ synced \in 0..Len(file)
  BY DEF TypeOK, SinkType, Records
<1>2. CASE Reopen(file, synced)
  BY <1>1, <1>2 DEF Reopen
<1>3. ASSUME NEW k \in synced..Len(file), Reopen(SubSeq(file, 1, k), k)
      PROVE  file' \in Seq(Records) /\ synced' = k /\ Len(file') = k
             /\ \A i \in 1..k : file'[i] = file[i]
  <2>1. \A i \in 1..k : file[i] \in Records
    BY <1>1
  <2> QED  BY <1>1, <1>3, <2>1, SubSeqProperties DEF Reopen
<1>4. ASSUME NEW k \in synced..Len(file), k < Len(file),
             Reopen(Append(SubSeq(file, 1, k), Torn(file[k + 1].rec)), k + 1)
      PROVE  /\ file' \in Seq(Records) /\ synced' = k + 1 /\ Len(file') = k + 1
             /\ \A i \in 1..k : file'[i] = file[i]
             /\ file'[k + 1].rec = file[k + 1].rec
  <2> DEFINE kept == SubSeq(file, 1, k)  r == Torn(file[k + 1].rec)
  <2>1. \A i \in 1..k : file[i] \in Records
    BY <1>1
  <2>2. kept \in Seq(Records) /\ Len(kept) = k /\ \A i \in 1..k : kept[i] = file[i]
    BY <1>1, <2>1, SubSeqProperties
  <2>3. file[k + 1] \in Records
    BY <1>1, <1>4
  <2>4. file[k + 1].rec \in Nat
    BY <2>3 DEF Records
  <2>5. r \in Records /\ r.rec = file[k + 1].rec
    BY <2>4, RecordType DEF Torn
  <2>6. file' = Append(kept, r) /\ synced' = k + 1
    BY <1>4 DEF Reopen
  <2> HIDE DEF kept, r
  <2> QED  BY <2>2, <2>5, <2>6, AppendProperties
<1>5. \/ Reopen(file, synced)
      \/ \E k \in synced..Len(file) :
           \/ Reopen(SubSeq(file, 1, k), k)
           \/ /\ k < Len(file)
              /\ Reopen(Append(SubSeq(file, 1, k), Torn(file[k + 1].rec)), k + 1)
  BY DEF Crash
<1>6. CASE \E k \in synced..Len(file) : Reopen(SubSeq(file, 1, k), k)
  <2> PICK k \in synced..Len(file) : Reopen(SubSeq(file, 1, k), k)
    BY <1>6
  <2>1. file' \in Seq(Records) /\ synced' = k /\ Len(file') = k
        /\ \A i \in 1..k : file'[i] = file[i]
    BY <1>3
  <2> QED  BY <1>1, <2>1
<1>7. CASE \E k \in synced..Len(file) : k < Len(file)
             /\ Reopen(Append(SubSeq(file, 1, k), Torn(file[k + 1].rec)), k + 1)
  <2> PICK k \in synced..Len(file) : k < Len(file)
             /\ Reopen(Append(SubSeq(file, 1, k), Torn(file[k + 1].rec)), k + 1)
    BY <1>7
  <2>1. /\ file' \in Seq(Records) /\ synced' = k + 1 /\ Len(file') = k + 1
        /\ \A i \in 1..k : file'[i] = file[i]
        /\ file'[k + 1].rec = file[k + 1].rec
    BY <1>4
  <2> QED  BY <1>1, <2>1
<1> QED  BY <1>2, <1>5, <1>6, <1>7

\* What one sink operation does to the sinks.
LEMMA WriteStep ==
  ASSUME TypeOK, NEW w \in Writers, Write(w)
  PROVE  \/ UNCHANGED <<out, file>>
         \/ /\ sinks[at[w]] \in Streams /\ UNCHANGED file
            /\ out' = [out EXCEPT ![sinks[at[w]]] = Append(@, rec[w])]
         \/ /\ sinks[at[w]] = "file" /\ UNCHANGED out
            /\ \/ file' = Append(file, Whole(rec[w]))
               \/ file' = Append(file, Torn(rec[w])) /\ epc'[w] = "unlock"
                    /\ ret'[w] = "err"
<1>1. /\ epc \in [Writers -> {"idle", "lock", "write", "sync", "unlock", "done"}]
      /\ ret \in [Writers -> {"none", "nil", "err"}]
      /\ at[w] \in DOMAIN sinks /\ sinks \in Seq(Streams \cup {"file"})
  BY AuditAssumption DEF TypeOK, EmitType, Write
<1>2. sinks[at[w]] \in Streams \cup {"file"}
  BY <1>1
<1> QED  BY <1>1, <1>2 DEF Write, NextSink, SinkFails, Goto

\* A step of one writer, as far as its own variables go.
Labels == {"idle", "lock", "write", "sync", "unlock", "done"}
Returns == {"none", "nil", "err"}

Moves(w, l, k, n, r) ==
  /\ sinks' = sinks
  /\ epc' = [epc EXCEPT ![w] = l] /\ at' = [at EXCEPT ![w] = k]
  /\ rec' = [rec EXCEPT ![w] = n] /\ ret' = [ret EXCEPT ![w] = r]

LEMMA MovesType ==
  ASSUME TypeOK, NEW w \in Writers, NEW l \in Labels, NEW k \in Nat, NEW n \in Nat,
         NEW r \in Returns, Moves(w, l, k, n, r),
         l \in {"write", "sync"} => k \in DOMAIN sinks,
         l \in {"idle", "lock", "done"} => k = 1
  PROVE  EmitType'
<1>1. EmitType
  BY DEF TypeOK
<1>2. /\ epc' \in [Writers -> Labels] /\ at' \in [Writers -> Nat]
      /\ rec' \in [Writers -> Nat] /\ ret' \in [Writers -> Returns]
  BY <1>1 DEF EmitType, Moves, Labels, Returns
<1>3. ASSUME NEW v \in Writers
      PROVE  /\ epc'[v] \in {"write", "sync"} => at'[v] \in DOMAIN sinks'
             /\ ~InEmit(v)' => at'[v] = 1
  BY <1>1, <1>3 DEF EmitType, Moves, Labels, InEmit
<1> QED  BY <1>1, <1>2, <1>3 DEF EmitType, Moves, Labels, Returns

LEMMA WriterMoves ==
  ASSUME TypeOK, NEW w \in Writers
  PROVE  /\ Emit(w) => Moves(w, "lock", at[w], rec[w], ret[w]) /\ epc[w] = "idle"
         /\ Lock(w) => \/ Moves(w, "unlock", at[w], rec[w], "err") /\ closed
                       \/ Moves(w, "write", at[w], serial + 1, "nil") /\ ~closed
         /\ Write(w) \/ Sync(w) =>
              \/ Moves(w, "unlock", at[w] + 1, rec[w], ret[w]) /\ at[w] = Len(sinks)
              \/ Moves(w, "write", at[w] + 1, rec[w], ret[w]) /\ at[w] # Len(sinks)
              \/ Moves(w, "unlock", at[w], rec[w], "err")
              \/ Moves(w, "sync", at[w], rec[w], ret[w]) /\ Write(w)
         /\ Unlock(w) => \E l \in {"idle", "done"} : Moves(w, l, 1, 0, "none")
<1> USE DEF TypeOK, EmitType, Moves, Goto
<1>1. Emit(w) => Moves(w, "lock", at[w], rec[w], ret[w]) /\ epc[w] = "idle"
  BY DEF Emit
<1>2. Lock(w) => \/ Moves(w, "unlock", at[w], rec[w], "err") /\ closed
                 \/ Moves(w, "write", at[w], serial + 1, "nil") /\ ~closed
  BY DEF Lock, Enter
<1>3. NextSink(w) /\ UNCHANGED <<sinks, rec>> =>
        \/ Moves(w, "unlock", at[w] + 1, rec[w], ret[w]) /\ at[w] = Len(sinks)
        \/ Moves(w, "write", at[w] + 1, rec[w], ret[w]) /\ at[w] # Len(sinks)
  BY DEF NextSink
<1>4. SinkFails(w) /\ UNCHANGED <<sinks, rec>> =>
        Moves(w, "unlock", at[w], rec[w], "err")
  BY DEF SinkFails
<1>5. Write(w) => \/ NextSink(w) /\ UNCHANGED <<sinks, rec>>
                  \/ SinkFails(w) /\ UNCHANGED <<sinks, rec>>
                  \/ Moves(w, "unlock", at[w], rec[w], "err")
                  \/ Moves(w, "sync", at[w], rec[w], ret[w])
  BY DEF Write
<1>6. Sync(w) => \/ NextSink(w) /\ UNCHANGED <<sinks, rec>>
                 \/ SinkFails(w) /\ UNCHANGED <<sinks, rec>>
  BY DEF Sync
<1>7. Unlock(w) => \E l \in {"idle", "done"} : Moves(w, l, 1, 0, "none")
  BY DEF Unlock
<1> QED  BY <1>1, <1>2, <1>3, <1>4, <1>5, <1>6, <1>7

\* Every step keeps the types.
LEMMA TypeStep == TypeOK /\ [Next]_vars => TypeOK'
<1> SUFFICES ASSUME TypeOK, [Next]_vars PROVE TypeOK'
  OBVIOUS
<1> USE DEF TypeOK
<1>0. /\ Beat \in Writers /\ Beat \notin Callers /\ NoOne \notin Writers
      /\ Heartbeat \in BOOLEAN
      /\ sinks \in Seq(Streams \cup {"file"}) /\ 1 \in DOMAIN sinks
  BY AuditAssumption DEF Writers, EmitType
<1>w. ASSUME NEW w \in Writers
      PROVE  /\ at[w] \in Nat /\ rec[w] \in Nat /\ ret[w] \in Returns
             /\ epc[w] \in Labels /\ serial \in Nat
             /\ Whole(rec[w]) \in Records /\ Torn(rec[w]) \in Records
  BY RecordType DEF EmitType, Labels, Returns, CountType
<1>1. ASSUME NEW w \in Writers, Emit(w) PROVE TypeOK'
  <2>1. EmitType'
    BY <1>1, <1>w, WriterMoves, MovesType DEF EmitType, InEmit, Labels
  <2>2. MutexType' /\ BeatType'
    BY <1>0, <1>1 DEF Emit, Goto, EmitType, MutexType, BeatType, InEmit
  <2> QED  BY <1>1, <2>1, <2>2
      DEF Emit, CloseType, SinkType, CountType, closeVars, sinkVars, countVars
<1>2. ASSUME NEW w \in Writers, Lock(w) PROVE TypeOK'
  <2>1. EmitType'
    <3>1. epc[w] = "lock"
      BY <1>2 DEF Lock
    <3>2. at[w] = 1 /\ serial + 1 \in Nat
      BY <1>w, <3>1 DEF EmitType, InEmit
    <3> QED  BY <1>0, <1>2, <1>w, <3>2, WriterMoves, MovesType DEF Labels, Returns
  <2>2. MutexType' /\ BeatType'
    BY <1>0, <1>2
    DEF Lock, Enter, Goto, EmitType, MutexType, BeatType, InEmit
  <2>3. CountType'
    BY <1>2 DEF Lock, Enter, CountType
  <2> QED  BY <1>2, <2>1, <2>2, <2>3 DEF Lock, CloseType, SinkType, closeVars, sinkVars
<1>3. ASSUME NEW w \in Writers, Write(w) \/ Sync(w)
      PROVE  EmitType' /\ MutexType' /\ BeatType' /\ CloseType' /\ CountType'
  <2>1. /\ at[w] \in DOMAIN sinks
        /\ at[w] # Len(sinks) => at[w] + 1 \in DOMAIN sinks
    BY <1>0, <1>3 DEF Write, Sync, EmitType
  <2>2. EmitType'
    BY <1>3, <1>w, <2>1, WriterMoves, MovesType DEF Labels, Returns
  <2>3. /\ UNCHANGED <<mu, beat>> /\ epc[w] \in {"write", "sync"}
        /\ \E l \in {"write", "sync", "unlock"} : epc' = [epc EXCEPT ![w] = l]
    BY <1>3, WriterMoves DEF Moves, Write, Sync
  <2>4. MutexType' /\ BeatType'
    BY <1>0, <2>3 DEF EmitType, MutexType, BeatType, InEmit
  <2>5. CloseType'
    BY <1>3 DEF Write, Sync, CloseType, closeVars
  <2>6. faults' \in Nat
    BY <1>3 DEF Write, Sync, NextSink, SinkFails, CountType
  <2>7. CountType'
    BY <1>3, <2>6 DEF Write, Sync, CountType
  <2> QED  BY <2>2, <2>4, <2>5, <2>7
<1>4. ASSUME NEW w \in Writers, Write(w) \/ Sync(w) PROVE TypeOK'
  <2>1. /\ file \in Seq(Records) /\ synced \in 0..Len(file)
        /\ out \in [Streams -> Seq(Nat)]
    BY DEF SinkType, Records
  <2>2. CASE Write(w)
    <3>1. file' \in Seq(Records) /\ Len(file) <= Len(file')
      <4>1. \A r \in Records : /\ Append(file, r) \in Seq(Records)
                               /\ Len(Append(file, r)) = Len(file) + 1
        BY <2>1, AppendProperties
      <4>2. file' = file \/ \E r \in Records : file' = Append(file, r)
        BY <1>w, <2>2, WriteStep
      <4>3. Len(file) \in Nat
        BY <2>1
      <4> QED  BY <2>1, <4>1, <4>2, <4>3
    <3>2. out' \in [Streams -> Seq(Nat)]
      <4>1. CASE out' = out
        BY <2>1, <4>1
      <4>2. CASE /\ sinks[at[w]] \in Streams
                 /\ out' = [out EXCEPT ![sinks[at[w]]] = Append(@, rec[w])]
        <5> DEFINE s == sinks[at[w]]
        <5>1. Append(out[s], rec[w]) \in Seq(Nat)
          BY <1>w, <2>1, <4>2
        <5> QED  BY <2>1, <4>2, <5>1
      <4> QED  BY <2>2, <4>1, <4>2, WriteStep
    <3>3. SinkType'
      BY <2>1, <2>2, <3>1, <3>2 DEF Write, SinkType, Records
    <3> QED  BY <1>3, <2>2, <3>3
  <2>3. CASE Sync(w)
    BY <1>3, <2>3 DEF Sync, SinkType
  <2> QED  BY <1>4, <2>2, <2>3
<1>5. ASSUME NEW w \in Writers, Unlock(w) PROVE TypeOK'
  <2>1. EmitType'
    BY <1>5, WriterMoves, MovesType DEF Labels, Returns
  <2>2. MutexType'
    <3>1. /\ mu' = NoOne /\ InEmit(w)
          /\ \E l \in {"idle", "done"} : epc' = [epc EXCEPT ![w] = l]
      BY <1>5, WriterMoves DEF Unlock, Moves, InEmit
    <3>2. \A v \in Writers : v # w => ~InEmit(v)
      BY <3>1 DEF MutexType
    <3> QED  BY <1>0, <3>1, <3>2 DEF EmitType, MutexType, InEmit
  <2>3. BeatType'
    BY <1>0, <1>5 DEF Unlock, Goto, EmitType, BeatType
  <2>4. CountType'
    BY <1>5, <1>w DEF Unlock, CountType, countVars
  <2> QED  BY <1>5, <2>1, <2>2, <2>3, <2>4
      DEF Unlock, CloseType, SinkType, closeVars, sinkVars
<1>6. ASSUME Tick PROVE TypeOK'
  <2>1. EmitType' /\ MutexType' /\ BeatType'
    BY <1>0, <1>6 DEF Tick, Goto, EmitType, MutexType, BeatType, InEmit
  <2> QED  BY <1>6, <2>1
      DEF Tick, CloseType, SinkType, CountType, closeVars, sinkVars, countVars
<1>7. ASSUME BeatStops PROVE TypeOK'
  BY <1>7 DEF BeatStops, EmitType, MutexType, BeatType, InEmit, emitVars, CloseType,
     SinkType, CountType, closeVars, sinkVars, countVars
<1>8. ASSUME NEW c \in Closers, CloseBegin(c) \/ CloseStop(c) \/ CloseSinks(c)
      PROVE  TypeOK'
  <2>1. CloseType'
    BY <1>0, <1>8 DEF CloseBegin, CloseStop, CloseSinks, CloseType
  <2> QED  BY <1>8, <2>1 DEF CloseBegin, CloseStop, CloseSinks, EmitType, MutexType,
      BeatType, InEmit, emitVars, SinkType, CountType, sinkVars, countVars
<1>9. ASSUME Crash PROVE TypeOK'
  <2>1. EmitType' /\ MutexType' /\ BeatType' /\ CloseType'
    BY <1>0, <1>9 DEF Crash, EmitType, MutexType, BeatType, CloseType, InEmit
  <2>2. file' \in Seq(Records) /\ synced' \in 0..Len(file')
    BY <1>9, CrashKeepsType
  <2>3. CountType' /\ UNCHANGED out /\ sinkOpen' = TRUE
    BY <1>9 DEF Crash, CountType
  <2> QED  BY <2>1, <2>2, <2>3 DEF SinkType, Records
<1>10. CASE UNCHANGED vars
  BY <1>10 DEF vars, EmitType, MutexType, BeatType, InEmit, emitVars, CloseType,
     SinkType, CountType, sinkVars, countVars
<1> QED
  BY <1>1, <1>2, <1>4, <1>5, <1>6, <1>7, <1>8, <1>9, <1>10 DEF Next

\* In every reachable state of the emitter the variables have their types, and
\* the mutex is held by exactly the writer that is inside Emit.
THEOREM EmitterTypeCorrect == Spec => []TypeOK
<1> QED  BY TypeInit, TypeStep, PTL DEF Spec

-----------------------------------------------------------------------------
(* What a step can do to the fan-out *)

\* A step that leaves the fan-out and everything it wrote alone.
Quiet ==
  /\ UNCHANGED <<sinks, at, rec, ret, out, file, synced, acked, serial>>
  /\ \A v \in Writers : epc'[v] = epc[v] \/ (epc[v] = "idle" /\ epc'[v] = "lock")

LEMMA StepKinds ==
  TypeOK /\ [Next]_vars =>
    \/ Quiet \/ Crash
    \/ \E w \in Writers : Lock(w) \/ Write(w) \/ Sync(w) \/ Unlock(w)
<1> SUFFICES ASSUME TypeOK, [Next]_vars,
                    ~ \E w \in Writers : Lock(w) \/ Write(w) \/ Sync(w) \/ Unlock(w)
             PROVE  Quiet \/ Crash
  OBVIOUS
<1>0. Beat \in Writers /\ epc \in [Writers -> Labels]
  BY DEF Writers, TypeOK, EmitType, Labels
<1>1. ASSUME NEW w \in Writers, Emit(w) PROVE Quiet
  BY <1>0, <1>1 DEF Emit, Goto, Quiet, sinkVars, countVars
<1>2. ASSUME Tick PROVE Quiet
  <2>1. epc[Beat] = "idle"
    BY <1>2 DEF Tick, TypeOK, BeatType
  <2> QED  BY <1>0, <1>2, <2>1 DEF Tick, Goto, Quiet, sinkVars
<1>3. ASSUME BeatStops PROVE Quiet
  BY <1>3 DEF BeatStops, Quiet, emitVars, sinkVars, countVars
<1>4. ASSUME NEW c \in Closers, CloseBegin(c) \/ CloseStop(c) \/ CloseSinks(c)
      PROVE  Quiet
  BY <1>4 DEF CloseBegin, CloseStop, CloseSinks, Quiet, emitVars, sinkVars, countVars
<1>5. ASSUME UNCHANGED vars PROVE Quiet
  BY <1>5 DEF vars, Quiet, emitVars, sinkVars, countVars
<1> QED  BY <1>1, <1>2, <1>3, <1>4, <1>5 DEF Next

\* The mutex keeps everybody else out of the fan-out.
LEMMA OnlyHolder ==
  ASSUME TypeOK, NEW w \in Writers
  PROVE  /\ InEmit(w) => \A v \in Writers : v # w => ~InEmit(v)
         /\ Lock(w) => \A v \in Writers : ~InEmit(v)
BY AuditAssumption DEF TypeOK, MutexType, Lock

\* After a crash nobody is inside Emit.
LEMMA CrashEndsEmit == Crash => \A v \in Writers : epc'[v] = "idle"
BY DEF Crash

\* The writers a step of w does not concern.
LEMMA OthersStay ==
  ASSUME TypeOK, NEW w \in Writers, Lock(w) \/ Write(w) \/ Sync(w) \/ Unlock(w)
  PROVE  /\ sinks' = sinks
         /\ \A v \in Writers : v # w => /\ epc'[v] = epc[v] /\ at'[v] = at[v]
                                       /\ rec'[v] = rec[v] /\ ret'[v] = ret[v]
                                       /\ ~InEmit(v)
<1>1. \E l, k, n, r : Moves(w, l, k, n, r)
  BY WriterMoves
<1>2. \A v \in Writers : v # w => ~InEmit(v)
  BY OnlyHolder DEF Write, Sync, Unlock, InEmit
<1> QED  BY <1>1, <1>2 DEF Moves, TypeOK, EmitType

-----------------------------------------------------------------------------
(* A step keeps the invariant *)

\* What was synced stays where it is.
LEMMA HistoryStep ==
  ASSUME TypeOK, [Next]_vars
  PROVE  /\ synced <= synced'
         /\ \A i \in 1..synced : i \in DOMAIN file' /\ file'[i] = file[i]
<1>0. file \in Seq(Records) /\ synced \in 0..Len(file)
  BY DEF TypeOK, SinkType, Records
<1>1. CASE Quiet
  BY <1>0, <1>1 DEF Quiet
<1>2. CASE Crash
  BY <1>2, CrashKeepsType
<1>3. ASSUME NEW w \in Writers, Lock(w) \/ Unlock(w)
      PROVE  UNCHANGED <<file, synced>>
  BY <1>3 DEF Lock, Unlock, sinkVars
<1>4. ASSUME NEW w \in Writers, Write(w)
      PROVE  synced' = synced /\ \A i \in 1..synced : i \in DOMAIN file' /\ file'[i] = file[i]
  <2>1. file' = file \/ \E r \in Records : file' = Append(file, r)
    BY <1>4, WriteStep, RecordType DEF TypeOK, EmitType
  <2>2. \A r \in Records : /\ Len(Append(file, r)) = Len(file) + 1
                           /\ \A i \in 1..Len(file) : Append(file, r)[i] = file[i]
                           /\ Append(file, r) \in Seq(Records)
    BY <1>0, AppendProperties
  <2>3. synced' = synced
    BY <1>4 DEF Write
  <2> QED  BY <1>0, <2>1, <2>2, <2>3
<1>5. ASSUME NEW w \in Writers, Sync(w)
      PROVE  file' = file /\ synced <= synced'
  BY <1>0, <1>5 DEF Sync, SinkFails, NextSink
<1> QED  BY <1>0, <1>1, <1>2, <1>3, <1>4, <1>5, StepKinds

\* What is durable stays so.
LEMMA DurableStep ==
  ASSUME TypeOK, [Next]_vars PROVE \A n : Durable(n) => Durable(n)'
<1>1. synced \in Nat /\ synced' \in Nat
  BY TypeStep DEF TypeOK, SinkType
<1> QED  BY <1>1, HistoryStep DEF Durable, Whole

LEMMA CurrentRecordStep ==
  ASSUME TypeOK, CurrentRecord, [Next]_vars PROVE CurrentRecord'
<1>0. TypeOK'
  BY TypeStep
<1>1. CASE Quiet
  BY <1>1 DEF Quiet, CurrentRecord, FanOut
<1>2. CASE Crash
  BY <1>2, CrashEndsEmit DEF CurrentRecord, FanOut
<1>3. ASSUME NEW w \in Writers, Lock(w) \/ Write(w) \/ Sync(w) \/ Unlock(w)
      PROVE  CurrentRecord'
  <2>1. \A v \in Writers : v # w => ~FanOut(v)'
    BY <1>3, OthersStay DEF FanOut, InEmit
  <2>2. FanOut(w)' => ret'[w] = "nil" /\ rec'[w] = serial'
    <3>0. /\ epc \in [Writers -> Labels] /\ rec \in [Writers -> Nat]
          /\ ret \in [Writers -> Returns]
      BY DEF TypeOK, EmitType, Labels, Returns
    <3>1. CASE Lock(w)
      BY <3>0, <3>1 DEF Lock, Enter, FanOut, Goto
    <3>2. CASE Write(w) \/ Sync(w)
      <4>1. serial' = serial /\ FanOut(w)
        BY <3>2 DEF Write, Sync, FanOut
      <4> QED  BY <3>0, <3>2, <4>1, WriterMoves DEF Moves, FanOut, CurrentRecord
    <3>3. CASE Unlock(w)
      BY <3>0, <3>3, WriterMoves DEF Moves, FanOut
    <3> QED  BY <1>3, <3>1, <3>2, <3>3
  <2> QED  BY <2>1, <2>2 DEF CurrentRecord
<1> QED  BY <1>1, <1>2, <1>3, StepKinds

LEMMA ClosingStep ==
  ASSUME TypeOK, ClosingInOrder, [Next]_vars PROVE ClosingInOrder'
<1>0. /\ Beat \in Writers /\ epc \in [Writers -> Labels] /\ Heartbeat \in BOOLEAN
      /\ cpc \in [Closers -> {"idle", "stop", "wait", "done"}]
  BY AuditAssumption DEF Writers, TypeOK, EmitType, CloseType, Labels
<1> USE DEF ClosingInOrder
<1>1. ASSUME NEW w \in Writers, Lock(w) \/ Write(w) \/ Sync(w) \/ Unlock(w)
      PROVE  ClosingInOrder'
  <2>1. UNCHANGED <<closed, cpc, sinkOpen>>
    BY <1>1 DEF Lock, Write, Sync, Unlock, closeVars, sinkVars
  <2>2. closed => \A v \in Writers : ~FanOut(v)'
    <3>1. closed => Lock(w) \/ Unlock(w)
      BY <1>1 DEF FanOut, Write, Sync
    <3>2. closed => ~FanOut(w)'
      BY <1>0, <3>1, WriterMoves DEF Moves, FanOut
    <3> QED  BY <1>1, <3>2, OthersStay DEF FanOut, InEmit
  <2>3. beat = "done" => beat' = "done"
    <3>1. epc[w] # "idle"
      BY <1>1 DEF Lock, Write, Sync, Unlock
    <3> QED  BY <1>1, <3>1 DEF Lock, Write, Sync, Unlock, TypeOK, BeatType
  <2> QED  BY <2>1, <2>2, <2>3
<1>2. ASSUME NEW w \in Writers, Emit(w) PROVE ClosingInOrder'
  BY <1>0, <1>2 DEF Emit, Goto, FanOut, closeVars, sinkVars
<1>3. ASSUME Tick PROVE ClosingInOrder'
  BY <1>0, <1>3 DEF Tick, Goto, FanOut, closeVars, sinkVars
<1>4. ASSUME BeatStops PROVE ClosingInOrder'
  BY <1>4 DEF BeatStops, FanOut, emitVars, closeVars, sinkVars
<1>5. ASSUME NEW c \in Closers, CloseBegin(c) PROVE ClosingInOrder'
  <2>1. \A w \in Writers : ~FanOut(w)
    BY <1>5, AuditAssumption DEF CloseBegin, TypeOK, MutexType, FanOut, InEmit
  <2> QED  BY <1>0, <1>5, <2>1 DEF CloseBegin, FanOut, emitVars, sinkVars
<1>6. ASSUME NEW c \in Closers, CloseStop(c) \/ CloseSinks(c) PROVE ClosingInOrder'
  BY <1>0, <1>6 DEF CloseStop, CloseSinks, FanOut, emitVars, sinkVars
<1>7. ASSUME Crash PROVE ClosingInOrder'
  BY <1>7 DEF Crash, FanOut
<1>8. CASE UNCHANGED vars
  BY <1>8 DEF vars, FanOut, emitVars, sinkVars
<1> QED  BY <1>1, <1>2, <1>3, <1>4, <1>5, <1>6, <1>7, <1>8 DEF Next

\* Emit acknowledges only what is on the disk.
LEMMA PromisedStep ==
  ASSUME TypeOK, CurrentRecord, Promised, AcknowledgedIsDurable, [Next]_vars
  PROVE  Promised' /\ AcknowledgedIsDurable'
<1>0. /\ epc \in [Writers -> Labels] /\ at \in [Writers -> Nat]
      /\ rec \in [Writers -> Nat] /\ ret \in [Writers -> Returns]
      /\ \A w \in Writers : FanOut(w) => at[w] \in DOMAIN sinks
      /\ sinks \in Seq(Streams \cup {"file"})
      /\ file \in Seq(Records) /\ synced \in 0..Len(file)
  BY AuditAssumption
  DEF TypeOK, EmitType, SinkType, Labels, Returns, Records, FanOut
<1>1. ASSUME NEW w \in Writers, rec'[w] = rec[w], Durable(rec[w])
      PROVE  Durable(rec[w])'
  <2>1. Durable(rec[w]) => \E i \in 1..synced' : file'[i] = Whole(rec[w])
    BY DurableStep DEF Durable
  <2> QED  BY <1>1, <2>1 DEF Durable, Whole
<1>2. acked' = acked => AcknowledgedIsDurable'
  BY DurableStep DEF AcknowledgedIsDurable
<1>3. CASE Quiet
  <2>1. ASSUME NEW w \in Writers PROVE Kept(w)'
    <3>1. Kept(w) /\ rec'[w] = rec[w]
      BY <1>3 DEF Promised, Quiet
    <3> QED  BY <1>1, <1>3, <3>1 DEF Kept, Quiet, HasFile
  <2> QED  BY <1>2, <1>3, <2>1 DEF Quiet, Promised
<1>4. CASE Crash
  <2>1. Promised'
    BY <1>4, CrashEndsEmit DEF Promised, Kept
  <2> QED  BY <1>2, <1>4, <2>1 DEF Crash
<1>5. ASSUME NEW w \in Writers, Lock(w) \/ Write(w) \/ Sync(w) \/ Unlock(w)
      PROVE  Promised' /\ AcknowledgedIsDurable'
  <2>1. sinks' = sinks /\ HasFile' = HasFile
        /\ \A v \in Writers : v # w => Kept(v)'
    BY <1>5, OthersStay DEF HasFile, InEmit, Kept
  <2>2. CASE Lock(w)
    <3>1. at[w] = 1 /\ acked' = acked
      BY <2>2 DEF Lock, TypeOK, EmitType, InEmit
    <3>2. \/ epc'[w] = "unlock" /\ ret'[w] = "err"
          \/ epc'[w] = "write" /\ at'[w] = 1
      BY <1>0, <2>2, <3>1, WriterMoves DEF Moves
    <3>3. \A j \in DOMAIN sinks : ~(j < 1)
      BY <1>0
    <3>4. Kept(w)'
      BY <2>1, <3>2, <3>3 DEF Kept
    <3> QED  BY <1>2, <2>1, <3>1, <3>4 DEF Promised
  <2>3. CASE Write(w)
    <3>1. /\ FanOut(w) /\ epc[w] = "write" /\ at[w] \in 1..Len(sinks) /\ acked' = acked
          /\ \A j \in DOMAIN sinks : j < at[w] /\ sinks[j] = "file" => Durable(rec[w])
      BY <1>0, <2>3 DEF Write, FanOut, Promised, Kept
    <3>2. CASE sinks[at[w]] = "file" /\ ret'[w] # "err"
      <4>1. /\ file' = Append(file, Whole(rec[w])) /\ epc'[w] = "sync" /\ rec' = rec
            /\ at' = at
        BY <1>0, <2>3, <3>1, <3>2 DEF Write, SinkFails, Goto, CurrentRecord
      <4>2. Len(file') > 0 /\ file'[Len(file')] = Whole(rec'[w])
        BY <1>0, <4>1, RecordType, AppendProperties
      <4>3. Kept(w)'
        BY <2>1, <3>2, <4>1, <4>2 DEF Kept
      <4> QED  BY <1>2, <2>1, <3>1, <4>3 DEF Promised
    <3>3. CASE ret'[w] = "err"
      <4>1. epc'[w] = "unlock"
        BY <1>0, <2>3, <3>1, <3>3 DEF Write, SinkFails, NextSink, Goto, CurrentRecord
      <4>2. Kept(w)'
        BY <3>3, <4>1 DEF Kept
      <4> QED  BY <1>2, <2>1, <3>1, <4>2 DEF Promised
    <3>4. CASE sinks[at[w]] # "file" /\ ret'[w] # "err"
      <4>1. NextSink(w) /\ rec' = rec
        BY <1>0, <2>3, <3>4 DEF Write, SinkFails
      <4>2. /\ at'[w] = at[w] + 1
            /\ epc'[w] = IF at[w] = Len(sinks) THEN "unlock" ELSE "write"
        BY <1>0, <4>1 DEF NextSink, Goto
      <4>3. \A j \in DOMAIN sinks : j < at[w] + 1 /\ sinks[j] = "file" => Durable(rec[w])'
        BY <1>0, <1>1, <3>1, <3>4, <4>1
      <4>4. Kept(w)'
        BY <1>0, <2>1, <3>1, <4>1, <4>2, <4>3 DEF Kept, HasFile
      <4> QED  BY <1>2, <2>1, <3>1, <4>4 DEF Promised
    <3> QED  BY <3>2, <3>3, <3>4
  <2>4. CASE Sync(w)
    <3>1. /\ FanOut(w) /\ at[w] \in 1..Len(sinks) /\ acked' = acked
          /\ Len(file) > 0 /\ file[Len(file)] = Whole(rec[w])
          /\ rec' = rec /\ file' = file
      BY <1>0, <2>4 DEF Sync, FanOut, Promised, Kept
    <3>2. CASE NextSink(w) /\ synced' = Len(file)
      <4>1. /\ at'[w] = at[w] + 1
            /\ epc'[w] = IF at[w] = Len(sinks) THEN "unlock" ELSE "write"
        BY <1>0, <3>2 DEF NextSink, Goto
      <4>2. Durable(rec[w])'
        <5>1. Len(file) \in 1..synced' /\ file'[Len(file)] = Whole(rec[w])
          BY <1>0, <3>1, <3>2
        <5> QED  BY <3>1, <5>1 DEF Durable, Whole
      <4>3. Kept(w)'
        BY <3>1, <4>1, <4>2 DEF Kept
      <4> QED  BY <1>2, <2>1, <3>1, <4>3 DEF Promised
    <3>3. CASE SinkFails(w)
      <4>1. epc'[w] = "unlock" /\ ret'[w] = "err"
        BY <1>0, <3>3 DEF SinkFails, Goto
      <4> QED  BY <1>2, <2>1, <3>1, <4>1 DEF Promised, Kept
    <3> QED  BY <2>4, <3>2, <3>3 DEF Sync
  <2>5. CASE Unlock(w)
    <3>1. epc'[w] \in {"idle", "done"}
      BY <1>0, <2>5, WriterMoves DEF Moves
    <3>2. Promised'
      BY <2>1, <3>1 DEF Promised, Kept
    <3>3. acked' = acked \/ (Durable(rec[w]) /\ acked' = acked \cup {rec[w]})
      BY <2>5 DEF Unlock, Promised, Kept
    <3>4. AcknowledgedIsDurable'
      BY <1>2, <3>3, DurableStep DEF AcknowledgedIsDurable
    <3> QED  BY <3>2, <3>4
  <2> QED  BY <1>5, <2>2, <2>3, <2>4, <2>5
<1> QED  BY <1>3, <1>4, <1>5, StepKinds

\* A new record behind all others keeps a sink in order.
LEMMA OneMoreRecord ==
  ASSUME NEW q \in Seq(Nat), NEW n \in Nat
  PROVE  /\ ToSet(Append(q, n)) = ToSet(q) \cup {n}
         /\ InOrder(q) /\ Below(q, n) => InOrder(Append(q, n))
         /\ Below(q, n + 1) => Below(Append(q, n), n + 1)
<1>1. /\ DOMAIN q = 1..Len(q) /\ DOMAIN Append(q, n) = 1..(Len(q) + 1)
      /\ \A i \in 1..Len(q) : Append(q, n)[i] = q[i] /\ q[i] \in Nat
      /\ Append(q, n)[Len(q) + 1] = n /\ Len(q) \in Nat
  BY AppendProperties
<1> DEFINE a == Append(q, n)
<1> HIDE DEF a
<1>2. ToSet(a) = ToSet(q) \cup {n}
  BY <1>1 DEF ToSet, a
<1>3. InOrder(q) /\ Below(q, n) => InOrder(a)
  BY <1>1 DEF InOrder, Below, a
<1>4. Below(q, n + 1) => Below(a, n + 1)
  BY <1>1 DEF Below, a
<1> QED  BY <1>2, <1>3, <1>4 DEF a

LEMMA ReceivedType ==
  ASSUME TypeOK, NEW j \in DOMAIN sinks
  PROVE  Received(sinks[j]) \in Seq(Nat)
<1>1. CASE sinks[j] = "file"
  <2>1. file \in Seq(Records)
    BY DEF TypeOK, SinkType, Records
  <2>2. Len(file) \in Nat /\ DOMAIN file = 1..Len(file)
        /\ \A i \in 1..Len(file) : file[i].rec \in Nat
    <3>1. \A i \in 1..Len(file) : file[i] \in Records
      BY <2>1
    <3>2. \A r \in Records : r.rec \in Nat
      BY DEF Records
    <3> QED  BY <2>1, <3>1, <3>2
  <2>3. [i \in 1..Len(file) |-> file[i].rec] \in [1..Len(file) -> Nat]
    BY <2>2
  <2> QED  BY <1>1, <2>2, <2>3, SeqDef DEF Received
<1>2. CASE sinks[j] # "file"
  <2>1. sinks \in Seq(Streams \cup {"file"})
    BY AuditAssumption DEF TypeOK, EmitType
  <2>2. sinks[j] \in Streams
    BY <1>2, <2>1
  <2> QED  BY <1>2, <2>2 DEF Received, TypeOK, SinkType
<1> QED  BY <1>1, <1>2

\* What one sink operation adds to what the sinks received.
LEMMA WriteReceived ==
  ASSUME TypeOK, CurrentRecord, NEW w \in Writers, Write(w)
  PROVE  /\ serial' = serial /\ at[w] \in DOMAIN sinks /\ epc[w] = "write"
         /\ \/ /\ epc'[w] = "unlock"
               /\ \A j \in DOMAIN sinks : Received(sinks[j])' = Received(sinks[j])
            \/ /\ \A j \in DOMAIN sinks : Received(sinks[j])' =
                     IF j = at[w] THEN Append(Received(sinks[j]), serial)
                                  ELSE Received(sinks[j])
               /\ FanOut(w)' => \A j \in DOMAIN sinks :
                                  Passed(w, j)' <=> Passed(w, j) \/ j = at[w]
<1>0. /\ epc \in [Writers -> Labels] /\ at \in [Writers -> Nat] /\ sinks' = sinks
      /\ rec[w] \in Nat /\ rec[w] = serial /\ serial' = serial
      /\ epc[w] = "write" /\ at[w] \in DOMAIN sinks /\ DOMAIN sinks \subseteq Nat
      /\ \A i, j \in DOMAIN sinks : sinks[i] = sinks[j] => i = j
      /\ file \in Seq(Records) /\ out \in [Streams -> Seq(Nat)]
  BY AuditAssumption
  DEF TypeOK, EmitType, SinkType, Labels, Records, CurrentRecord, FanOut, Write
<1> DEFINE s == sinks[at[w]]
<1>1. s \in Streams \cup {"file"} /\ s = "file" <=> s \notin Streams
  <2>1. sinks \in Seq(Streams \cup {"file"})
    BY AuditAssumption DEF TypeOK, EmitType
  <2> QED  BY <1>0, <2>1 DEF Streams
<1>2. ASSUME NEW r \in Records, r.rec = serial, s = "file", out' = out,
             file' = Append(file, r)
      PROVE  \A j \in DOMAIN sinks : Received(sinks[j])' =
               IF j = at[w] THEN Append(Received(sinks[j]), serial)
                            ELSE Received(sinks[j])
  <2>1. /\ DOMAIN file = 1..Len(file) /\ Len(file) \in Nat
        /\ DOMAIN file' = 1..(Len(file) + 1)
        /\ \A i \in 1..Len(file) : file'[i] = file[i]
        /\ file'[Len(file) + 1] = r
    BY <1>0, <1>2, AppendProperties
  <2> DEFINE q == Received("file")
  <2>2. q \in Seq(Nat) /\ Len(q) = Len(file) /\ \A i \in 1..Len(file) : q[i] = file[i].rec
    <3>1. q \in Seq(Nat)
      BY <1>0, <1>2, ReceivedType
    <3>2. q = [i \in 1..Len(file) |-> file[i].rec]
      BY <2>1 DEF Received
    <3> QED  BY <2>1, <3>1, <3>2
  <2>3. /\ Append(q, serial) \in Seq(Nat) /\ Len(Append(q, serial)) = Len(file) + 1
        /\ \A i \in 1..Len(file) : Append(q, serial)[i] = file[i].rec
        /\ Append(q, serial)[Len(file) + 1] = serial
    <3> HIDE DEF q
    <3>1. /\ Append(q, serial) \in Seq(Nat) /\ Len(Append(q, serial)) = Len(q) + 1
          /\ \A i \in 1..Len(q) : Append(q, serial)[i] = q[i]
          /\ Append(q, serial)[Len(q) + 1] = serial
      BY <1>0, <2>2, AppendProperties
    <3> QED  BY <2>2, <3>1
  <2>4. Received("file")' = [i \in 1..(Len(file) + 1) |-> file'[i].rec]
    BY <2>1 DEF Received
  <2>5. Received("file")' = Append(q, serial)
    <3> DEFINE b == Append(q, serial)
    <3>1. /\ b \in Seq(Nat) /\ Len(b) = Len(file) + 1
          /\ \A i \in 1..(Len(file) + 1) : file'[i].rec = b[i]
      <4> HIDE DEF q
      <4> QED  BY <1>2, <2>1, <2>3
    <3> HIDE DEF b
    <3>2. b = [i \in 1..(Len(file) + 1) |-> b[i]]
      BY <2>1, <3>1
    <3>3. Received("file")' = b
      BY <2>4, <3>1, <3>2
    <3> QED  BY <3>3 DEF b
  <2>6. \A j \in DOMAIN sinks : j # at[w] => Received(sinks[j])' = Received(sinks[j])
    BY <1>0, <1>2 DEF Received
  <2> QED  BY <1>0, <1>2, <2>5, <2>6
<1>3. \/ epc'[w] = "unlock" /\ UNCHANGED <<out, file>>
      \/ /\ s # "file" /\ file' = file /\ NextSink(w)
         /\ out' = [out EXCEPT ![s] = Append(@, rec[w])]
      \/ /\ s = "file" /\ out' = out /\ file' = Append(file, Whole(rec[w]))
         /\ epc'[w] = "sync" /\ at' = at
      \/ /\ s = "file" /\ out' = out /\ file' = Append(file, Torn(rec[w]))
         /\ epc'[w] = "unlock"
  BY <1>0 DEF Write, SinkFails, Goto
<1>4. CASE epc'[w] = "unlock" /\ UNCHANGED <<out, file>>
  BY <1>0, <1>4 DEF Received
<1>5. CASE /\ s # "file" /\ file' = file /\ NextSink(w)
           /\ out' = [out EXCEPT ![s] = Append(@, rec[w])]
  <2>1. \A j \in DOMAIN sinks : Received(sinks[j])' =
          IF j = at[w] THEN Append(Received(sinks[j]), serial) ELSE Received(sinks[j])
    BY <1>0, <1>1, <1>5 DEF Received
  <2>2. at'[w] = at[w] + 1 /\ epc'[w] # "sync"
    BY <1>0, <1>5 DEF NextSink, Goto
  <2>3. \A j \in DOMAIN sinks : Passed(w, j)' <=> Passed(w, j) \/ j = at[w]
    BY <1>0, <2>2 DEF Passed
  <2> QED  BY <1>0, <2>1, <2>3
<1>6. CASE /\ s = "file" /\ out' = out /\ file' = Append(file, Whole(rec[w]))
           /\ epc'[w] = "sync" /\ at' = at
  <2>1. Whole(rec[w]) \in Records /\ Whole(rec[w]).rec = serial
    BY <1>0, RecordType DEF Whole
  <2>2. \A j \in DOMAIN sinks : Passed(w, j)' <=> Passed(w, j) \/ j = at[w]
    BY <1>0, <1>6 DEF Passed
  <2> QED  BY <1>0, <1>2, <1>6, <2>1, <2>2
<1>7. CASE /\ s = "file" /\ out' = out /\ file' = Append(file, Torn(rec[w]))
           /\ epc'[w] = "unlock"
  <2>1. Torn(rec[w]) \in Records /\ Torn(rec[w]).rec = serial
    BY <1>0, RecordType DEF Torn
  <2>2. ~FanOut(w)'
    BY <1>7 DEF FanOut
  <2> QED  BY <1>0, <1>2, <1>7, <2>1, <2>2
<1> QED  BY <1>3, <1>4, <1>5, <1>6, <1>7

\* After a crash the file is a prefix of what it was, the streams are as before.
LEMMA CrashReceived ==
  ASSUME TypeOK, Crash, NEW j \in DOMAIN sinks
  PROVE  LET q == Received(sinks[j])
             kept == Received(sinks[j])'
         IN  /\ sinks[j] # "file" => kept = q
             /\ DOMAIN kept \subseteq DOMAIN q
             /\ \A a \in DOMAIN kept : kept[a] = q[a]
<1>1. UNCHANGED <<sinks, out>>
  BY DEF Crash
<1>2. CASE sinks[j] # "file"
  BY <1>1, <1>2 DEF Received
<1>3. CASE sinks[j] = "file"
  <2>1. /\ DOMAIN file = 1..Len(file) /\ DOMAIN file' = 1..Len(file')
        /\ Len(file) \in Nat /\ Len(file') \in Nat
    BY CrashKeepsType DEF TypeOK, SinkType
  <2>2. DOMAIN file' \subseteq DOMAIN file /\ \A i \in DOMAIN file' : file'[i].rec = file[i].rec
    BY <2>1, CrashKeepsType
  <2> QED  BY <1>1, <1>3, <2>2 DEF Received
<1> QED  BY <1>2, <1>3

\* The record in the fan-out stands in the sinks it has passed, and every
\* record in the others is older.
LEMMA SpreadStep ==
  ASSUME TypeOK, CurrentRecord, Spread, SinksAgree, [Next]_vars
  PROVE  Spread' /\ SinksAgree'
<1>0. /\ \A j \in DOMAIN sinks : Received(sinks[j]) \in Seq(Nat)
      /\ DOMAIN sinks \subseteq Nat \ {0} /\ serial \in Nat
      /\ \A i \in DOMAIN sinks : sinks[i] = "file" => \A j \in DOMAIN sinks : j <= i
      /\ \A i, j \in DOMAIN sinks : sinks[i] = sinks[j] => i = j
  BY ReceivedType, AuditAssumption DEF TypeOK, EmitType, CountType
<1>1. CASE Quiet
  <2>1. /\ sinks' = sinks /\ serial' = serial
        /\ \A j \in DOMAIN sinks : Received(sinks[j])' = Received(sinks[j])
        /\ \A v \in Writers, j \in DOMAIN sinks :
              /\ FanOut(v)' => FanOut(v)
              /\ FanOut(v)' => (Passed(v, j)' <=> Passed(v, j))
    BY <1>1 DEF Quiet, Received, FanOut, Passed
  <2> QED  BY <2>1 DEF Spread, SinksAgree
<1>2. CASE Crash
  <2>1. /\ sinks' = sinks /\ serial' = serial /\ \A v \in Writers : ~FanOut(v)'
    BY <1>2, CrashEndsEmit DEF Crash, FanOut
  <2>2. ASSUME NEW j \in DOMAIN sinks
        PROVE  /\ Below(Received(sinks[j]), serial + 1)'
               /\ InOrder(Received(sinks[j]))'
               /\ ToSet(Received(sinks[j]))' \subseteq ToSet(Received(sinks[j]))
    <3> DEFINE q == Received(sinks[j])  kept == Received(sinks[j])'
    <3>1. /\ DOMAIN kept \subseteq DOMAIN q /\ \A a \in DOMAIN kept : kept[a] = q[a]
          /\ Below(q, serial + 1) /\ InOrder(q)
      BY <1>0, <1>2, CrashReceived DEF Spread, SinksAgree
    <3> HIDE DEF q, kept
    <3>2. /\ Below(kept, serial + 1) /\ InOrder(kept)
          /\ ToSet(kept) \subseteq ToSet(q)
      BY <3>1 DEF Below, InOrder, ToSet
    <3> QED  BY <2>1, <3>2 DEF q, kept
  <2>3. Spread'
    BY <2>1, <2>2 DEF Spread
  <2>4. ASSUME NEW i \in DOMAIN sinks, NEW j \in DOMAIN sinks, i <= j
        PROVE  ToSet(Received(sinks[j]))' \subseteq ToSet(Received(sinks[i]))'
    <3>1. CASE i = j
      BY <3>1
    <3>2. CASE i # j
      <4>1. sinks[i] # "file"
        BY <1>0, <2>4, <3>2
      <4>2. Received(sinks[i])' = Received(sinks[i])
        BY <1>2, <4>1, CrashReceived
      <4>3. ToSet(Received(sinks[i]))' = ToSet(Received(sinks[i]))
        BY <4>2
      <4> QED  BY <2>2, <2>4, <4>3 DEF SinksAgree
    <3> QED  BY <3>1, <3>2
  <2> QED  BY <2>1, <2>2, <2>3, <2>4 DEF SinksAgree
<1>3. ASSUME NEW w \in Writers, Lock(w) \/ Sync(w) \/ Unlock(w)
      PROVE  Spread' /\ SinksAgree'
  <2>1. /\ sinks' = sinks /\ \A v \in Writers : v # w => ~FanOut(v)'
    BY <1>3, OthersStay DEF FanOut, InEmit
  <2>2. \A j \in DOMAIN sinks : Received(sinks[j])' = Received(sinks[j])
    BY <1>3 DEF Lock, Sync, Unlock, sinkVars, Received
  <2>3. SinksAgree'
    BY <2>1, <2>2 DEF SinksAgree
  <2>4. serial' \in {serial, serial + 1}
    BY <1>3 DEF Lock, Enter, Sync, Unlock, countVars
  <2>5. \A j \in DOMAIN sinks : Below(Received(sinks[j]), serial' + 1)
    <3>1. ASSUME NEW j \in DOMAIN sinks, NEW a \in DOMAIN Received(sinks[j])
          PROVE  Received(sinks[j])[a] < serial' + 1
      <4>1. Received(sinks[j])[a] \in Nat /\ Received(sinks[j])[a] < serial + 1
        BY <1>0 DEF Spread, Below
      <4> QED  BY <1>0, <2>4, <4>1
    <3> QED  BY <3>1 DEF Below
  <2>6. FanOut(w)' => \A j \in DOMAIN sinks :
          IF Passed(w, j)' THEN serial' \in ToSet(Received(sinks[j]))
                           ELSE Below(Received(sinks[j]), serial')
    <3>0. /\ epc \in [Writers -> Labels] /\ at \in [Writers -> Nat]
      BY DEF TypeOK, EmitType, Labels
    <3>1. CASE Lock(w)
      <4>1. at[w] = 1
        BY <3>1 DEF Lock, TypeOK, EmitType, InEmit
      <4>2. FanOut(w)' => epc'[w] = "write" /\ at'[w] = 1 /\ serial' = serial + 1
        BY <3>0, <3>1, <4>1 DEF Lock, Enter, Goto, FanOut
      <4>3. FanOut(w)' => \A j \in DOMAIN sinks : ~Passed(w, j)'
        BY <1>0, <4>2 DEF Passed
      <4> QED  BY <4>2, <4>3 DEF Spread
    <3>2. CASE Sync(w)
      <4>1. serial' = serial /\ FanOut(w) /\ epc[w] = "sync"
        BY <3>2 DEF Sync, FanOut
      <4>2. FanOut(w)' => epc'[w] = "write" /\ at'[w] = at[w] + 1
        BY <3>0, <3>2 DEF Sync, NextSink, SinkFails, Goto, FanOut
      <4>3. FanOut(w)' => \A j \in DOMAIN sinks : Passed(w, j)' <=> Passed(w, j)
        BY <1>0, <3>0, <4>1, <4>2 DEF Passed
      <4> QED  BY <4>1, <4>3 DEF Spread
    <3>3. CASE Unlock(w)
      BY <3>0, <3>3, WriterMoves DEF Moves, FanOut
    <3> QED  BY <1>3, <3>1, <3>2, <3>3
  <2> QED  BY <2>1, <2>2, <2>3, <2>5, <2>6 DEF Spread
<1>4. ASSUME NEW w \in Writers, Write(w) PROVE Spread' /\ SinksAgree'
  <2>1. /\ sinks' = sinks /\ serial' = serial /\ at[w] \in DOMAIN sinks
        /\ epc[w] = "write" /\ FanOut(w)
        /\ \A v \in Writers : v # w => ~FanOut(v)'
    BY <1>4, OthersStay, WriteReceived DEF FanOut, InEmit
  <2>2. CASE /\ epc'[w] = "unlock"
             /\ \A j \in DOMAIN sinks : Received(sinks[j])' = Received(sinks[j])
    BY <2>1, <2>2 DEF Spread, SinksAgree, FanOut
  <2>3. CASE /\ \A j \in DOMAIN sinks : Received(sinks[j])' =
                   IF j = at[w] THEN Append(Received(sinks[j]), serial)
                                ELSE Received(sinks[j])
             /\ FanOut(w)' => \A j \in DOMAIN sinks :
                                Passed(w, j)' <=> Passed(w, j) \/ j = at[w]
    <3> PICK k \in DOMAIN sinks : k = at[w]
      BY <2>1
    <3>1. /\ Below(Received(sinks[k]), serial)
          /\ \A i \in DOMAIN sinks : i < k => serial \in ToSet(Received(sinks[i]))
      BY <1>0, <2>1 DEF Spread, Passed
    <3>2. /\ InOrder(Received(sinks[k])')
          /\ ToSet(Received(sinks[k])') = ToSet(Received(sinks[k])) \cup {serial}
          /\ Below(Received(sinks[k])', serial + 1)
      <4>1. /\ Received(sinks[k]) \in Seq(Nat) /\ InOrder(Received(sinks[k]))
            /\ Below(Received(sinks[k]), serial + 1)
            /\ Received(sinks[k])' = Append(Received(sinks[k]), serial)
        BY <1>0, <2>1, <2>3 DEF SinksAgree, Spread
      <4> QED  BY <1>0, <3>1, <4>1, OneMoreRecord
    <3>3. \A j \in DOMAIN sinks : j # k => Received(sinks[j])' = Received(sinks[j])
      BY <2>3
    <3>4. ASSUME NEW i \in DOMAIN sinks, NEW j \in DOMAIN sinks, i <= j
          PROVE  /\ InOrder(Received(sinks[j])')
                 /\ ToSet(Received(sinks[j])') \subseteq ToSet(Received(sinks[i])')
      <4>1. /\ InOrder(Received(sinks[j]))
            /\ ToSet(Received(sinks[j])) \subseteq ToSet(Received(sinks[i]))
        BY <3>4 DEF SinksAgree
      <4>2. CASE j = k
        BY <1>0, <3>1, <3>2, <3>3, <3>4, <4>1, <4>2
      <4>3. CASE j # k
        BY <3>2, <3>3, <4>1, <4>3
      <4> QED  BY <4>2, <4>3
    <3>5. SinksAgree'
      BY <2>1, <3>4 DEF SinksAgree
    <3>6. \A j \in DOMAIN sinks : Below(Received(sinks[j])', serial + 1)
      BY <3>2, <3>3 DEF Spread
    <3>7. FanOut(w)' => \A j \in DOMAIN sinks :
            IF Passed(w, j)' THEN serial \in ToSet(Received(sinks[j])')
                             ELSE Below(Received(sinks[j])', serial)
      BY <2>1, <2>3, <3>2, <3>3 DEF Spread
    <3> QED  BY <2>1, <3>5, <3>6, <3>7 DEF Spread
  <2> QED  BY <1>4, <2>2, <2>3, WriteReceived
<1> QED  BY <1>1, <1>2, <1>3, <1>4, StepKinds

LEMMA IInvInit == Init => IInv
<1> SUFFICES ASSUME Init PROVE IInv
  OBVIOUS
<1>1. \A w \in Writers : epc[w] = "idle"
  BY DEF Init
<1>2. CurrentRecord /\ ClosingInOrder /\ Promised
  BY <1>1 DEF Init, CurrentRecord, ClosingInOrder, Promised, Kept, FanOut
<1>3. \A j \in DOMAIN sinks : DOMAIN Received(sinks[j]) = {}
  <2>1. sinks \in Seq(Streams \cup {"file"})
    BY AuditAssumption DEF Init
  <2> QED  BY <2>1 DEF Init, Received
<1>4. Spread /\ SinksAgree
  BY <1>1, <1>3 DEF Spread, SinksAgree, Below, InOrder, ToSet, FanOut
<1> QED  BY <1>2, <1>4, TypeInit DEF Init, IInv, AcknowledgedIsDurable

LEMMA IInvStep == IInv /\ [Next]_vars => IInv'
BY TypeStep, CurrentRecordStep, ClosingStep, PromisedStep, SpreadStep DEF IInv

\* The invariant that carries the emitter's safety: the record in the fan-out
\* is the last one made, stands in the sinks it has passed and in no other, a
\* nil on its way back to the caller has its record on the disk, and Close is
\* never ahead of a write.
THEOREM EmitterInvariant == Spec => []IInv
<1> QED  BY IInvInit, IInvStep, PTL DEF Spec

\* An Emit that returned nil under a file sink has its record on the disk,
\* whatever failed or crashed since.
THEOREM AcknowledgedSurvives == Spec => []AcknowledgedIsDurable
<1>1. IInv => AcknowledgedIsDurable
  BY DEF IInv
<1> QED  BY EmitterInvariant, <1>1, PTL

\* The sinks tell one story: each in the order of the mutex, and none with a
\* record that a sink before it misses.
THEOREM SinksTellOneStory == Spec => []SinksAgree
<1>1. IInv => SinksAgree
  BY DEF IInv
<1> QED  BY EmitterInvariant, <1>1, PTL

\* Once the sinks are closed, nobody writes or is on the way to.
THEOREM NothingAfterClose == Spec => []ClosedIsQuiet
<1>1. IInv => ClosedIsQuiet
  BY DEF IInv, ClosingInOrder, ClosedIsQuiet, FanOut
<1> QED  BY EmitterInvariant, <1>1, PTL

\* No step, a restart included, changes what was synced.
THEOREM RestartKeepsHistory == Spec => HistoryIsKept
<1>1. TypeOK /\ [Next]_vars =>
        [\A i \in 1..synced : i \in DOMAIN file' /\ file'[i] = file[i]]_vars
  BY HistoryStep
<1> QED  BY EmitterTypeCorrect, <1>1, PTL DEF Spec, HistoryIsKept
=============================================================================
