---------------------------- MODULE AuditEmitter ----------------------------
(***************************************************************************)
(* audit.Emitter over its multiSink: callers of Emit, the heartbeat        *)
(* goroutine with its ticker, and callers of Close, serialised by one      *)
(* mutex.  The file sink writes and then syncs; the file outlives the      *)
(* process, which may crash at any step and be started again on it.        *)
(***************************************************************************)
EXTENDS Naturals, Sequences, SequencesExt, FiniteSets

CONSTANTS Callers,    \* goroutines that call Emit, once per process
          Closers,    \* goroutines that call Close
          SinkLists,  \* the lists of sinks New may build
          Heartbeat,  \* BOOLEAN: the interval is positive
          NoOne,      \* nobody
          MaxTicks,   \* bound: ticks of the heartbeat per process
          MaxCrashes, \* bound: crashes
          MaxFaults   \* bound: sink operations that fail

Beat == "heartbeat"
Writers == Callers \cup {Beat}
Streams == {"stderr", "stdout"}

ASSUME AuditAssumption ==
  /\ Beat \notin Callers /\ NoOne \notin Writers \cup Closers
  /\ Callers \cap Closers = {} /\ Beat \notin Closers
  /\ SinkLists \subseteq Seq(Streams \cup {"file"})
  /\ \A l \in SinkLists :      \* New: stderr always, no sink twice, the file last
       /\ l # <<>>
       /\ \A i, j \in DOMAIN l : l[i] = l[j] => i = j
       /\ \A i \in DOMAIN l : l[i] = "file" => i = Len(l)
  /\ Heartbeat \in BOOLEAN
  /\ MaxTicks \in Nat /\ MaxCrashes \in Nat /\ MaxFaults \in Nat

VARIABLES
  sinks,     \* multiSink.sinks: fixed by New
  mu,        \* Emitter.mu: NoOne or its holder
  closed,    \* Emitter.closed
  stop,      \* stopCh is closed
  beat,      \* the heartbeat goroutine: "wait", "emit", "done"
  epc,       \* per writer, its Emit: "idle", "lock", "write", "sync", "unlock", "done"
  at,        \* per writer: index of the sink it is writing to
  rec,       \* per writer: the record it emits
  ret,       \* per writer: what its last Emit returned: "none", "nil", "err"
  cpc,       \* per closer: "idle", "stop", "wait", "done"
  sinkOpen,  \* the sinks have not been closed
  out,       \* per stream, the records it received, from every process
  file,      \* what stands in the file: whole records, or torn ones
  synced,    \* how much of it the last fsync covered
  acked,     \* history: records whose Emit returned nil
  serial,    \* number of records made so far
  ticks, crashes, faults  \* counts, for the bounds

emitVars  == <<epc, at, rec, ret>>
closeVars == <<cpc, stop>>
sinkVars  == <<sinkOpen, out, file, synced>>
countVars == <<serial, ticks, crashes, faults>>
vars == <<sinks, mu, closed, stop, beat, emitVars, cpc, sinkVars, acked, countVars>>

HasFile == \E i \in DOMAIN sinks : sinks[i] = "file"

\* What one write left in the file: record n with its newline, or a part of it.
Whole(n) == [rec |-> n, whole |-> TRUE]
Torn(n)  == [rec |-> n, whole |-> FALSE]

Init ==
  /\ sinks \in SinkLists
  /\ mu = NoOne /\ closed = FALSE /\ stop = FALSE
  /\ beat = IF Heartbeat THEN "wait" ELSE "done"
  /\ epc = [w \in Writers |-> "idle"] /\ at = [w \in Writers |-> 1]
  /\ rec = [w \in Writers |-> 0] /\ ret = [w \in Writers |-> "none"]
  /\ cpc = [c \in Closers |-> "idle"]
  /\ sinkOpen = TRUE /\ out = [s \in Streams |-> <<>>]
  /\ ticks = 0
  /\ file = <<>> /\ synced = 0 /\ acked = {}
  /\ serial = 0 /\ crashes = 0 /\ faults = 0

-----------------------------------------------------------------------------
(* Emit, by a caller or by the heartbeat goroutine *)

Goto(w, label) == epc' = [epc EXCEPT ![w] = label]

Emit(w) ==
  /\ w \in Callers /\ epc[w] = "idle"
  /\ Goto(w, "lock")
  /\ UNCHANGED <<sinks, mu, closed, beat, at, rec, ret, closeVars, sinkVars, acked,
                 countVars>>

\* ticker.C, unless stopCh wins the select.
Tick ==
  /\ beat = "wait" /\ ticks < MaxTicks
  /\ beat' = "emit" /\ ticks' = ticks + 1
  /\ Goto(Beat, "lock")
  /\ UNCHANGED <<sinks, mu, closed, at, rec, ret, closeVars, sinkVars, acked, serial,
                 crashes, faults>>

\* The select of runHeartbeat takes stopCh; the deferred close of doneCh.
BeatStops ==
  /\ beat = "wait" /\ stop
  /\ beat' = "done"
  /\ UNCHANGED <<sinks, mu, closed, emitVars, closeVars, sinkVars, acked, countVars>>

\* Under the mutex: a closed emitter refuses, an open one makes the record.
\* Records are numbered in this order.
Enter(w) ==
  \/ /\ closed
     /\ Goto(w, "unlock") /\ ret' = [ret EXCEPT ![w] = "err"]
     /\ UNCHANGED <<rec, serial>>
  \/ /\ ~closed
     /\ Goto(w, "write") /\ ret' = [ret EXCEPT ![w] = "nil"]
     /\ serial' = serial + 1 /\ rec' = [rec EXCEPT ![w] = serial']

\* Slip: Emit runs without the mutex.
LockNothing(w) ==
  /\ epc[w] = "lock" /\ mu' = w
  /\ Enter(w)
  /\ UNCHANGED <<sinks, closed, beat, at, closeVars, sinkVars, acked, ticks, crashes,
                 faults>>

Lock(w) ==
  /\ epc[w] = "lock" /\ mu = NoOne /\ mu' = w
  /\ Enter(w)
  /\ UNCHANGED <<sinks, closed, beat, at, closeVars, sinkVars, acked, ticks, crashes,
                 faults>>

\* The sink has the record: on to the next one.
NextSink(w) ==
  /\ at' = [at EXCEPT ![w] = @ + 1]
  /\ Goto(w, IF at[w] = Len(sinks) THEN "unlock" ELSE "write")
  /\ UNCHANGED <<ret, faults>>

\* Slip: the loop goes on to the next sink and the error is forgotten.
SinkFailsSilently(w) ==
  /\ faults < MaxFaults /\ faults' = faults + 1
  /\ at' = [at EXCEPT ![w] = @ + 1]
  /\ Goto(w, IF at[w] = Len(sinks) THEN "unlock" ELSE "write")
  /\ UNCHANGED ret

\* The first error ends the fan-out; the sinks behind this one get nothing.
SinkFails(w) ==
  /\ faults < MaxFaults /\ faults' = faults + 1
  /\ ret' = [ret EXCEPT ![w] = "err"]
  /\ Goto(w, "unlock")
  /\ UNCHANGED at

\* multiSink.Write, one sink, under multiSink.mu.  A failed write to the file
\* may leave a part of the record behind.
Write(w) ==
  /\ epc[w] = "write"
  /\ LET s == sinks[at[w]] IN
     \/ /\ at[w] = 1 /\ ~sinkOpen
        /\ ret' = [ret EXCEPT ![w] = "err"] /\ Goto(w, "unlock")
        /\ UNCHANGED <<at, faults, out, file>>
     \/ /\ sinkOpen /\ s # "file"
        /\ \/ NextSink(w) /\ out' = [out EXCEPT ![s] = Append(@, rec[w])]
           \/ SinkFails(w) /\ UNCHANGED out
        /\ UNCHANGED file
     \/ /\ sinkOpen /\ s = "file"
        /\ \/ /\ file' = Append(file, Whole(rec[w]))
              /\ Goto(w, "sync") /\ UNCHANGED <<at, ret, faults>>
           \/ SinkFails(w) /\ file' \in {file, Append(file, Torn(rec[w]))}
        /\ UNCHANGED out
  /\ UNCHANGED <<sinks, mu, closed, beat, rec, closeVars, sinkOpen, synced, acked,
                 serial, ticks, crashes>>

\* Slip: fileSink.Write leaves the sync to the operating system.
SyncLater(w) ==
  /\ epc[w] = "sync"
  /\ NextSink(w)
  /\ UNCHANGED <<sinks, mu, closed, beat, rec, closeVars, sinkVars, acked,
                 serial, ticks, crashes>>

\* Slip: the early return for a failed write keeps the mutex.
UnlockOnSuccess(w) ==
  /\ epc[w] = "unlock" /\ ret[w] = "nil"
  /\ mu' = NoOne
  /\ acked' = IF HasFile THEN acked \cup {rec[w]} ELSE acked
  /\ at' = [at EXCEPT ![w] = 1] /\ rec' = [rec EXCEPT ![w] = 0]
  /\ ret' = [ret EXCEPT ![w] = "none"]
  /\ IF w = Beat THEN Goto(w, "idle") /\ beat' = "wait"
                 ELSE Goto(w, "done") /\ UNCHANGED beat
  /\ UNCHANGED <<sinks, closed, closeVars, sinkVars, countVars>>

Sync(w) ==
  /\ epc[w] = "sync"
  /\ \/ NextSink(w) /\ synced' = Len(file)
     \/ SinkFails(w) /\ UNCHANGED synced
  /\ UNCHANGED <<sinks, mu, closed, beat, rec, closeVars, sinkOpen, out, file, acked,
                 serial, ticks, crashes>>

\* The deferred unlock; the heartbeat goroutine goes back to its select.
Unlock(w) ==
  /\ epc[w] = "unlock"
  /\ mu' = NoOne
  /\ acked' = IF ret[w] = "nil" /\ HasFile THEN acked \cup {rec[w]} ELSE acked
  /\ at' = [at EXCEPT ![w] = 1] /\ rec' = [rec EXCEPT ![w] = 0]
  /\ ret' = [ret EXCEPT ![w] = "none"]
  /\ IF w = Beat THEN Goto(w, "idle") /\ beat' = "wait"
                 ELSE Goto(w, "done") /\ UNCHANGED beat
  /\ UNCHANGED <<sinks, closed, closeVars, sinkVars, countVars>>

-----------------------------------------------------------------------------
(* Close *)

\* Slip: the mutex is held until the heartbeat goroutine is gone.
CloseBeginKeepsLock(c) ==
  /\ cpc[c] = "idle" /\ mu = NoOne
  /\ IF closed THEN cpc' = [cpc EXCEPT ![c] = "done"] /\ UNCHANGED <<closed, mu>>
               ELSE cpc' = [cpc EXCEPT ![c] = "stop"] /\ closed' = TRUE /\ mu' = c
  /\ UNCHANGED <<sinks, stop, beat, emitVars, sinkVars, acked, countVars>>

\* Slip: closed is never set.
CloseBeginLeavesOpen(c) ==
  /\ cpc[c] = "idle" /\ mu = NoOne
  /\ cpc' = [cpc EXCEPT ![c] = IF closed THEN "done" ELSE "stop"]
  /\ UNCHANGED <<sinks, closed, mu, stop, beat, emitVars, sinkVars, acked, countVars>>

\* The part under the mutex.  A second Close returns here.
CloseBegin(c) ==
  /\ cpc[c] = "idle" /\ mu = NoOne
  /\ closed' = TRUE
  /\ cpc' = [cpc EXCEPT ![c] = IF closed THEN "done" ELSE "stop"]
  /\ UNCHANGED <<sinks, mu, stop, beat, emitVars, sinkVars, acked, countVars>>

CloseStop(c) ==
  /\ cpc[c] = "stop"
  /\ stop' = Heartbeat
  /\ cpc' = [cpc EXCEPT ![c] = "wait"]
  /\ UNCHANGED <<sinks, mu, closed, beat, emitVars, sinkVars, acked, countVars>>

\* A fan-out in progress holds multiSink.mu.
FanningOut == \E w \in Writers : epc[w] = "sync" \/ (epc[w] = "write" /\ at[w] > 1)

\* <-doneCh, then multiSink.Close.
CloseSinks(c) ==
  /\ cpc[c] = "wait" /\ beat = "done" /\ ~FanningOut
  /\ sinkOpen' = FALSE
  /\ cpc' = [cpc EXCEPT ![c] = "done"]
  /\ UNCHANGED <<sinks, mu, closed, stop, beat, emitVars, out, file, synced, acked,
                 countVars>>

-----------------------------------------------------------------------------
(* Crash and restart *)

\* Slip: the file is opened without O_APPEND and cut to nothing.
ReopenTruncating(kept, safe) == file' = <<>> /\ synced' = 0

\* newFileSink: O_APPEND|O_CREATE.
Reopen(kept, safe) == file' = kept /\ synced' = safe

\* The process or the machine goes down and the proxy starts again.  With the
\* machine, what was not synced may be lost from some point on, the record
\* there cut in two.
Crash ==
  /\ crashes < MaxCrashes /\ crashes' = crashes + 1
  /\ \/ Reopen(file, synced)
     \/ \E k \in synced..Len(file) :
          LET kept == SubSeq(file, 1, k) IN
          \/ Reopen(kept, k)
          \/ k < Len(file) /\ Reopen(Append(kept, Torn(file[k + 1].rec)), k + 1)
  /\ mu' = NoOne /\ closed' = FALSE /\ stop' = FALSE /\ sinkOpen' = TRUE
  /\ beat' = (IF Heartbeat THEN "wait" ELSE "done") /\ ticks' = 0
  /\ epc' = [w \in Writers |-> "idle"] /\ at' = [w \in Writers |-> 1]
  /\ rec' = [w \in Writers |-> 0] /\ ret' = [w \in Writers |-> "none"]
  /\ cpc' = [c \in Closers |-> "idle"]
  /\ UNCHANGED <<sinks, out, acked, serial, faults>>

Next ==
  \/ \E w \in Writers : Emit(w) \/ Lock(w) \/ Write(w) \/ Sync(w) \/ Unlock(w)
  \/ Tick \/ BeatStops
  \/ \E c \in Closers : CloseBegin(c) \/ CloseStop(c) \/ CloseSinks(c)
  \/ Crash

Spec == Init /\ [][Next]_vars

\* Who holds the mutex goes on and gives it back; it is given to each writer
\* in turn (a Go mutex hands over to a waiter that has starved); a Close that
\* is past it goes on; the select of the heartbeat goroutine, which picks
\* among the ready cases at random, takes a closed stopCh in the end.
Fairness ==
  /\ \A w \in Writers : SF_vars(Lock(w))
  /\ WF_vars(\E w \in Writers : Write(w) \/ Sync(w) \/ Unlock(w))
  /\ WF_vars(\E c \in Closers : CloseStop(c) \/ CloseSinks(c))
  /\ SF_vars(BeatStops)

FairSpec == Spec /\ Fairness

-----------------------------------------------------------------------------
(* Properties *)

InEmit(w) == epc[w] \in {"write", "sync", "unlock"}

\* Types; the mutex is held by the one writer inside Emit, and the heartbeat
\* goroutine emits only while it is not in its select.
MutexType ==
  /\ mu \in Writers \cup Closers \cup {NoOne}
  /\ \A w \in Writers : InEmit(w) <=> mu = w
EmitType ==
  /\ sinks \in SinkLists
  /\ epc \in [Writers -> {"idle", "lock", "write", "sync", "unlock", "done"}]
  /\ at \in [Writers -> Nat] /\ rec \in [Writers -> Nat]
  /\ \A w \in Writers : /\ epc[w] \in {"write", "sync"} => at[w] \in DOMAIN sinks
                        /\ ~InEmit(w) => at[w] = 1
  /\ ret \in [Writers -> {"none", "nil", "err"}]
CloseType ==
  /\ cpc \in [Closers -> {"idle", "stop", "wait", "done"}]
  /\ closed \in BOOLEAN /\ stop \in BOOLEAN
BeatType ==
  /\ beat \in {"wait", "emit", "done"}
  /\ beat = "emit" <=> epc[Beat] # "idle"
SinkType ==
  /\ sinkOpen \in BOOLEAN /\ out \in [Streams -> Seq(Nat)]
  /\ file \in Seq([rec: Nat, whole: BOOLEAN]) /\ synced \in 0..Len(file)
CountType ==
  /\ acked \subseteq Nat /\ serial \in Nat
  /\ ticks \in Nat /\ crashes \in Nat /\ faults \in Nat
TypeOK == MutexType /\ EmitType /\ CloseType /\ BeatType /\ SinkType /\ CountType

\* An Emit that returned nil under a file sink has its record on the disk,
\* whatever failed before or crashed since (sink.go: a process crash does not
\* lose audit records).
Durable(n) == \E i \in 1..synced : file[i] = Whole(n)

AcknowledgedIsDurable == \A n \in acked : Durable(n)

\* The sinks tell one story, over failures and restarts: each has its records
\* in the order of the mutex, and a sink has no record that a sink before it in
\* the list has not.
Received(s) == IF s = "file" THEN [i \in DOMAIN file |-> file[i].rec] ELSE out[s]

InOrder(q) == \A a, b \in DOMAIN q : a < b => q[a] < q[b]

SinksAgree ==
  \A i, j \in DOMAIN sinks : i <= j =>
    /\ InOrder(Received(sinks[j]))
    /\ ToSet(Received(sinks[j])) \subseteq ToSet(Received(sinks[i]))

\* Once the sinks are closed nobody writes, and nobody is on the way to: Close
\* has waited for the Emit in progress and for the heartbeat goroutine.
ClosedIsQuiet == ~sinkOpen =>
  /\ beat = "done"
  /\ \A w \in Writers : epc[w] \notin {"write", "sync"}

\* A restart keeps what an earlier process synced.
HistoryIsKept ==
  [][\A i \in 1..synced : i \in DOMAIN file' /\ file'[i] = file[i]]_vars

\* Close returns, with a heartbeat in flight or not.  (One caller at a time is
\* past the mutex.)
Closing == \E c \in Closers : cpc[c] \in {"stop", "wait"}

CloseReturns == Closing ~> ~Closing

\* Emit returns.
EmitReturns ==
  \A w \in Callers : (epc[w] = "lock") ~> (epc[w] \in {"done", "idle"})
=============================================================================
