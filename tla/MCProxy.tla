------------------------------ MODULE MCProxy ------------------------------
(* Two policies that disagree on isolate_endpoint, one frame of every kind  *)
(* the pumps and the intercept pipeline treat differently.                  *)
EXTENDS ProxyInvariant

CONSTANTS isolate, wipe, query, h1, none

MCTools == {isolate, wipe, query}

Call(id, tool, params, valid, target) ==
  [id |-> id, kind |-> "call", params |-> params, tool |-> tool,
   valid |-> valid, target |-> target]

NonCall(id, kind) ==
  [id |-> id, kind |-> kind, params |-> FALSE, tool |-> query,
   valid |-> FALSE, target |-> none]

isolateCall  == Call(1, isolate, TRUE, TRUE, h1)
wipeCall     == Call(2, wipe, TRUE, TRUE, none)
invalidCall  == Call(3, isolate, TRUE, FALSE, none)
unknownCall  == Call(4, query, TRUE, TRUE, none)
noParamsCall == Call(5, isolate, FALSE, TRUE, none)
listTools    == NonCall(6, "other")
opaque       == NonCall(7, "opaque")
badHeader    == NonCall(8, "bad")

MCFrames == {isolateCall, wipeCall, invalidCall, unknownCall, noParamsCall,
             listTools, opaque, badHeader}

MCSessions == {{isolateCall, wipeCall},
               {listTools, opaque},
               {invalidCall, badHeader},
               {unknownCall}, {noParamsCall}}

MCShortSessions == {{isolateCall, wipeCall}, {badHeader, listTools}}

Rule(tools, decision) ==
  [tool |-> tools, targets |-> {{h1}}, decision |-> decision,
   specificity |-> exactToolSpecificity]

MCPolicies ==
  { [version |-> 1, default |-> "deny",  rules |-> <<Rule({isolate}, "allow")>>],
    [version |-> 2, default |-> "allow", rules |-> <<Rule({isolate}, "deny")>>] }

\* For the liveness run: isolate_endpoint is forwarded, wipe is answered.
MCOnePolicy == {p \in MCPolicies : p.version = 1}
=============================================================================
