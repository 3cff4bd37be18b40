------------------------------ MODULE Backend ------------------------------
(***************************************************************************)
(* internal/backend: the registry that dispatches a tool call to a vendor  *)
(* by action name, and internal/backend/falcon, its one implementation.    *)
(* The vendor (the gofalcon SDK and the service behind it) is external: it *)
(* takes a request and accepts it or answers with an error whose text      *)
(* contains some of the marks mapSDKError looks for.                       *)
(***************************************************************************)
EXTENDS Catalog

CONSTANTS BackendNames,  \* names a backend may be registered under
          BackendConfigs,\* [name, client, secret, cloud, handshake]
          BackendCalls,  \* tool calls [action, args] handed to Execute
          ErrorTexts     \* sets of marks an SDK error's text may contain

VARIABLES backends,  \* Registry.backends: name -> configuration of its client
          call       \* the Execute in progress, up to its return

backendVars == <<backends, call>>

-----------------------------------------------------------------------------
(* Falcon client *)

\* falcon.New and NewClient return a client; the handshake is the SDK's.
NewClientSucceeds(cfg) ==
  /\ cfg.name \in {Blank, "falcon"}
  /\ cfg.client # Blank /\ cfg.secret # Blank
  /\ cfg.cloud \in {Blank, "us-1", "us-2", "eu-1", "us-gov-1"}
  /\ cfg.handshake

\* The first case whose marks the text contains names the error; the order of
\* the cases decides when a text contains several.
mapSDKError(text) ==
  IF text \cap {"401", "403"} # {} THEN "permission_denied"
  ELSE IF "404" \in text THEN "not_found"
  ELSE IF "429" \in text THEN "rate_limited"
  ELSE IF text \cap {"timeout", "deadline exceeded", "context canceled"} # {}
    THEN "timeout"
  ELSE "sdk_error"

-----------------------------------------------------------------------------
(* Dispatch *)

stringArg(args, key) ==
  IF key \in DOMAIN args /\ args[key] # NonString THEN args[key] ELSE Blank

\* What a method of the client does with its arguments: needed are those it
\* refuses to do without, op and id the request it makes, a blank op that it makes
\* none and returns ErrUnavailable.
method(needed, op, id) == [needed |-> needed, op |-> op, id |-> id]

SubmitEDRQuery(query, host) ==
  IF host # Blank THEN method({query}, "GetDeviceDetails", host)
  ELSE method({query}, "QueryDevicesByFilter", query)

\* The cases of Registry.Execute, each with the method of Client it calls.
Dispatch(action, args) ==
  LET arg(key) == stringArg(args, key) IN
  CASE action = "isolate_endpoint" ->
         method({arg("host_id")}, "contain", arg("host_id"))
    [] action = "lift_isolation" ->
         method({arg("host_id")}, "lift_containment", arg("host_id"))
    [] action \in {"block_user_account", "unblock_user_account"} ->
         method({arg("user_id")}, Blank, Blank)
    [] action = "rotate_api_key" -> method({arg("key_id")}, Blank, Blank)
    [] action = "submit_edr_query" ->
         SubmitEDRQuery(arg("query"), arg("host_id"))
    [] action = "enrich_ioc" ->
         method({arg("indicator"), arg("indicator_type")},
                "GetIntelIndicatorEntities", arg("indicator"))

Dispatched == DOMAIN Starter \cup {"lift_isolation", "unblock_user_account"}

-----------------------------------------------------------------------------

BackendInit ==
  /\ backends = [n \in {} |-> n]
  /\ call = [stage |-> "none"]

\* A provider builds its client and registers it; a name taken is overwritten,
\* also under a call that has already fetched the old client.
Register(name, cfg) ==
  /\ NewClientSucceeds(cfg)
  /\ backends' = Assigned(backends, name, cfg)
  /\ UNCHANGED call

Finished(result) == [call EXCEPT !.stage = "done", !.result = result]

\* Registry.Get under the read lock.
ExecuteGet(name, c) ==
  /\ call.stage = "none"
  /\ call' = [ action |-> c.action, args |-> c.args, op |-> Blank, id |-> Blank,
               known |-> name \in DOMAIN backends,
               stage  |-> IF name \in DOMAIN backends THEN "dispatch" ELSE "done",
               result |-> IF name \in DOMAIN backends THEN Blank ELSE "unknown_action" ]
  /\ UNCHANGED backends

ExecuteDispatch ==
  /\ call.stage = "dispatch"
  /\ call' = IF call.action \notin Dispatched THEN Finished("unknown_action")
             ELSE LET m == Dispatch(call.action, call.args)
                  IN  IF Blank \in m.needed THEN Finished("missing_argument")
                      ELSE IF m.op = Blank THEN Finished("unavailable")
                      ELSE [call EXCEPT !.stage = "vendor", !.op = m.op, !.id = m.id]
  /\ UNCHANGED backends

VendorAccepts ==
  /\ call.stage = "vendor"
  /\ call' = Finished("ok")
  /\ UNCHANGED backends

VendorRefuses(text) ==
  /\ call.stage = "vendor"
  /\ call' = Finished(mapSDKError(text))
  /\ UNCHANGED backends

ExecuteReturns ==
  /\ call.stage = "done"
  /\ call' = [stage |-> "none"]
  /\ UNCHANGED backends

BackendNext ==
  \/ \E n \in BackendNames, cfg \in BackendConfigs : Register(n, cfg)
  \/ \E n \in BackendNames, c \in BackendCalls : ExecuteGet(n, c)
  \/ ExecuteDispatch
  \/ VendorAccepts
  \/ \E text \in ErrorTexts : VendorRefuses(text)
  \/ ExecuteReturns

BackendSpec == BackendInit /\ [][BackendNext]_backendVars

-----------------------------------------------------------------------------
(* Properties *)

\* How far an Execute on a known backend has come, and why it ended.
CallFollowsDispatch ==
  LET m == Dispatch(call.action, call.args)
  IN  /\ call = [ action |-> call.action, args |-> call.args, op |-> call.op,
                  id |-> call.id, known |-> call.known, stage |-> call.stage,
                  result |-> call.result ]
      /\ call.stage = "dispatch" => call.known /\ call.op = Blank
      /\ call.stage = "vendor" =>
           /\ call.action \in Dispatched /\ Blank \notin m.needed
           /\ call.op = m.op /\ call.id = m.id
      /\ call.stage = "done" =>
           \/ ~call.known
           \/ call.action \notin Dispatched /\ call.op = Blank
           \/ call.action \in Dispatched /\ Blank \in m.needed /\ call.op = Blank
           \/ /\ call.action \in Dispatched /\ Blank \notin m.needed
              /\ call.result \notin {"unknown_action", "missing_argument"}
              /\ call.op = Blank \/ (call.op = m.op /\ call.id = m.id)

BackendTypeOK ==
  /\ \A n \in DOMAIN backends : NewClientSucceeds(backends[n])
  /\ call.stage \in {"none", "dispatch", "vendor", "done"}
  /\ call.stage # "none" => CallFollowsDispatch

\* The catalog's schema, the proxy's target extraction and the registry's
\* switch name the arguments three times (starter.go, intercept.go:309-322,
\* registry.go:98-131).  For a call the schema of a starter action accepts on a
\* registered backend they agree: Execute knows the action and misses no
\* argument, and what the vendor is asked to act upon is the very target the
\* policy decided about.
ValidatedCallsComplete ==
  (call.stage \in {"vendor", "done"} /\ call.known
     /\ Validate(Starter, call.action, call.args) = "ok") =>
    LET target == extractTarget(Starter[call.action], call.args)
    IN  /\ call.stage = "done" =>
             call.result \notin {"unknown_action", "missing_argument"}
        /\ (call.op # Blank /\ Starter[call.action].primary # Blank) =>
             target # Blank /\ call.id = target
=============================================================================
