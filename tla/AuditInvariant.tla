--------------------------- MODULE AuditInvariant ---------------------------
(***************************************************************************)
(* Why the safety properties of AuditEmitter hold: which sinks the record  *)
(* of the writer inside Emit has reached, and what Close has done so far.  *)
(* With TypeOK and the properties themselves they are inductive.           *)
(***************************************************************************)
EXTENDS AuditEmitter

FanOut(w) == epc[w] \in {"write", "sync"}

\* The record in the fan-out is the last one made, and nothing failed yet.
CurrentRecord == \A w \in Writers : FanOut(w) => ret[w] = "nil" /\ rec[w] = serial

\* Close goes on only behind the mutex and behind the heartbeat goroutine.
ClosingInOrder ==
  /\ \A c \in Closers : cpc[c] \in {"stop", "wait"} => closed
  /\ ~sinkOpen => closed /\ beat = "done"
  /\ closed => \A w \in Writers : ~FanOut(w)

\* What stands behind a nil that Emit is about to return: a file sink that the
\* record has passed has it on the disk, and one it is passing has it last.
Kept(w) ==
  /\ epc[w] = "write" =>
       \A j \in DOMAIN sinks : j < at[w] /\ sinks[j] = "file" => Durable(rec[w])
  /\ epc[w] = "sync" =>
       sinks[at[w]] = "file" /\ Len(file) > 0 /\ file[Len(file)] = Whole(rec[w])
  /\ epc[w] = "unlock" /\ ret[w] = "nil" /\ HasFile => Durable(rec[w])

Promised == \A w \in Writers : Kept(w)

\* How far the record in the fan-out has come along the list of sinks.
Passed(w, j) == j < at[w] \/ (j = at[w] /\ epc[w] = "sync")

Below(q, n) == \A a \in DOMAIN q : q[a] < n

Spread ==
  /\ \A j \in DOMAIN sinks : Below(Received(sinks[j]), serial + 1)
  /\ \A w \in Writers, j \in DOMAIN sinks : FanOut(w) =>
       IF Passed(w, j) THEN serial \in ToSet(Received(sinks[j]))
                       ELSE Below(Received(sinks[j]), serial)

\* The inductive invariant of AuditProofs.
IInv ==
  /\ TypeOK /\ CurrentRecord /\ ClosingInOrder
  /\ Promised /\ AcknowledgedIsDurable
  /\ Spread /\ SinksAgree
=============================================================================
