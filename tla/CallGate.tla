------------------------------ MODULE CallGate ------------------------------
(***************************************************************************)
(* What the proxy promises about tools/call, without goroutines, pipes or  *)
(* events: each call gets one verdict, taken in one step from the policy   *)
(* of that moment; only a call whose verdict is allow reaches the upstream *)
(* server, only a refused one is answered by the proxy, and each happens   *)
(* at most once.                                                           *)
(***************************************************************************)
CONSTANTS Requests,   \* tools/call requests
          Policies,   \* policies that may be in force
          Permitted   \* per policy, the set of requests it lets through

VARIABLES policy,     \* the policy in force
          verdict,    \* "open", "allow" or "refuse", per request
          upstream,   \* requests handed to the upstream server
          refused     \* requests the proxy has begun to answer itself

vars == <<policy, verdict, upstream, refused>>

Init ==
  /\ policy \in Policies
  /\ verdict = [f \in Requests |-> "open"]
  /\ upstream = {} /\ refused = {}

Swap ==
  /\ policy' \in Policies
  /\ UNCHANGED <<verdict, upstream, refused>>

Decide(f) ==
  /\ verdict[f] = "open"
  /\ verdict' = [verdict EXCEPT ![f] =
                    IF f \in Permitted[policy] THEN "allow" ELSE "refuse"]
  /\ UNCHANGED <<policy, upstream, refused>>

Forward(f) ==
  /\ verdict[f] = "allow" /\ f \notin upstream
  /\ upstream' = upstream \cup {f}
  /\ UNCHANGED <<policy, verdict, refused>>

Refuse(f) ==
  /\ verdict[f] = "refuse" /\ f \notin refused
  /\ refused' = refused \cup {f}
  /\ UNCHANGED <<policy, verdict, upstream>>

Next ==
  \/ Swap
  \/ \E f \in Requests : Decide(f) \/ Forward(f) \/ Refuse(f)

Spec == Init /\ [][Next]_vars
=============================================================================
