---------------------------- MODULE ApprovalGate ----------------------------
(***************************************************************************)
(* What the approval workflow promises: a request gets one decision, which *)
(* stands; approve only after somebody approved that very request; and     *)
(* every decision is reported once, as it was returned.                    *)
(***************************************************************************)
EXTENDS Sequences

CONSTANTS Requests

VARIABLES consented, \* requests a human has approved
          decided,   \* per request: "open" or its decision
          reported   \* the decisions the audit hook has seen, in order

vars == <<consented, decided, reported>>

Init ==
  /\ consented = {} /\ reported = <<>>
  /\ decided = [r \in Requests |-> "open"]

Consent(r) ==
  /\ consented' = consented \cup {r}
  /\ UNCHANGED <<decided, reported>>

Decide(r, d) ==
  /\ decided[r] = "open"
  /\ d = "approve" => r \in consented
  /\ decided' = [decided EXCEPT ![r] = d]
  /\ reported' = Append(reported, <<r, d>>)
  /\ UNCHANGED consented

Next == \E r \in Requests :
  \/ Consent(r)
  \/ \E d \in {"approve", "deny", "timeout", "error"} : Decide(r, d)

Spec == Init /\ [][Next]_vars
=============================================================================
