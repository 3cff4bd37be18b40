--------------------------- MODULE ApprovalTypes ---------------------------
(***************************************************************************)
(* internal/approval: the vocabulary the workflow and its channels share.  *)
(* An HMAC is modelled by what it gives: a token that depends on the       *)
(* request id and the secret, and on nothing else.                         *)
(***************************************************************************)
EXTENDS Naturals, Sequences

CONSTANTS Requests,  \* request ids the proxy may ask approval for
          Positions, \* positions of the configured channel sections
          EmptyID,   \* the empty request id
          NoSecret,  \* an empty secret
          NoToken,   \* the empty token
          None       \* no decision, no line, no click

\* One call of Channel.Request: the section whose channel is called, by its
\* position in the configuration, and the request.
Calls == [at: Positions, id: Requests]
Call(j, r) == [at |-> j, id |-> r]

Decisions == {"approve", "deny", "timeout", "error"}

IsDefinitive(d) == d \in {"approve", "deny"}

\* Where a secret comes from stands for its bytes.
Secrets == {"option", "env", "literal"}

Tokens == [id: Requests, secret: Secrets]

SignToken(id, secret) ==
  IF id = EmptyID \/ secret = NoSecret THEN NoToken
                                       ELSE [id |-> id, secret |-> secret]

\* nil error.
VerifyToken(id, presented, secret) ==
  /\ SignToken(id, secret) # NoToken
  /\ presented = SignToken(id, secret)

\* What Channel.Request returns: a decision, and whether the error is non-nil.
Result(d, failed) == [decision |-> d, err |-> failed]
Results == [decision: Decisions, err: BOOLEAN]

\* The placeholders are none of the values they stand in for.
ASSUME TypesAssumption ==
  /\ Positions \subseteq Nat
  /\ NoSecret \notin Secrets /\ NoToken \notin Tokens /\ None \notin Results
=============================================================================
