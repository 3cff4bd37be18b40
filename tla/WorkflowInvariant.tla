------------------------- MODULE WorkflowInvariant -------------------------
(***************************************************************************)
(* Why the safety properties of Workflow hold: how far each Approve has    *)
(* come through its channels, and that a yes on its way to a request was   *)
(* said of that request.                                                   *)
(***************************************************************************)
EXTENDS Workflow

\* A call that has not begun.
Untried(k) == tpc[k] = "idle" /\ spc[k] = "idle"

\* A request that is not put to the workflow yet, or to one that does not exist.
Unasked(r) ==
  /\ next[r] = 1 /\ ctx[r] = "none" /\ token[r] = NoToken
  /\ \A j \in Positions : Untried(Call(j, r))

\* Approve has been through the channels before next[r] without an answer that
\* counts, is at or past next[r], and has not tried the others.
Searched(r) ==
  /\ apc[r] = "idle" => Unasked(r)
  /\ apc[r] # "idle" => workflow = "ready"
  /\ apc[r] \in {"loop", "calling"} => token[r] # NoToken
  /\ apc[r] = "done" <=> decided[r] # "open"
  /\ \A j \in DOMAIN channels :
       /\ j < next[r] => /\ Over(Call(j, r))
                         /\ AnswerOf(Call(j, r)) \in {"timeout", "error"}
       /\ j > next[r] => Untried(Call(j, r))
       /\ j = next[r] /\ apc[r] \in {"idle", "loop"} => Untried(Call(j, r))
       /\ j = next[r] /\ apc[r] = "done" /\ token[r] # NoToken =>
            /\ Over(Call(j, r)) /\ IsDefinitive(decided[r])
            /\ AnswerOf(Call(j, r)) = decided[r]
  /\ apc[r] = "done" /\ token[r] # NoToken /\ next[r] \notin DOMAIN channels =>
       decided[r] = "timeout"

Search == \A r \in Requests : Searched(r)

\* A channel works only for an Approve that waits for it.
CalledAs(k, name) ==
  /\ apc[k.id] = "calling" /\ next[k.id] = k.at
  /\ k.at \in DOMAIN channels /\ channels[k.at] = name

Called ==
  \A k \in Calls :
    /\ tpc[k] \notin {"idle", "done"} => CalledAs(k, "terminal")
    /\ spc[k] \notin {"idle", "done"} => CalledAs(k, "slack")

\* A yes with a token is consent to the request the token names.
Meant(l) == l.verb = "y" /\ l.token # NoToken => <<l.token.id, "approve">> \in said

\* So it is for every line on its way, whoever reads it and however late, and
\* every result is consent to its own request.
TerminalConsent ==
  /\ \A i \in DOMAIN typed : Meant(typed[i])
  /\ \A k \in Calls :
       /\ line[k] # None => Meant(line[k])
       /\ tres[k] # None => (tres[k].decision = "approve" => <<k.id, "approve">> \in said)

\* What a click says was said of the request it names.
Clicked(c) == <<c.id, Meaning(c.action)>> \in said

\* So it is for a click, from the event loop to the request's channel and its result.
SlackConsent ==
  /\ \A j \in Positions :
       /\ \A i \in DOMAIN events[j] : Clicked(events[j][i])
       /\ sending[j] # None => Clicked(sending[j])
  /\ \A k \in Calls :
       /\ box[k] # None => <<k.id, Meaning(box[k])>> \in said
       /\ sres[k] # None =>
            /\ sres[k].decision = "approve" => <<k.id, "approve">> \in said
            /\ slackSecret = secret /\ ~sres[k].err => <<k.id, sres[k].decision>> \in said

\* The inductive invariant of WorkflowProofs.
IInv == TypeOK /\ Search /\ Called /\ TerminalConsent /\ SlackConsent
=============================================================================
