---------------------------- MODULE MCLibraries ----------------------------
(* The instance: documents, calls and files of every shape the four         *)
(* packages tell apart.                                                     *)
EXTENDS Libraries, FiniteSets

CONSTANTS isolate, wipe, h1, none

-----------------------------------------------------------------------------
(* Catalog: three custom names, one of them destructive, one of a starter *)

Schema(keys) == [required |-> keys, properties |-> keys, nonEmpty |-> keys]

Page == [ name |-> "page_oncall", blast |-> 2, complete |-> TRUE, severity |-> 2,
          params |-> {"channel"}, primary |-> "channel", text |-> "sound",
          schema |-> Schema({"channel"}) ]
PageHarder == [Page EXCEPT !.blast = 4, !.schema = Schema({"channel", "text"})]
Ticket == [Page EXCEPT !.name = "open_ticket", !.blast = 1, !.primary = "text"]
Wipe == [Page EXCEPT !.name = "wipe_cache", !.blast = 1]
Enrich == [Page EXCEPT !.name = "enrich_ioc", !.blast = 3, !.primary = "indicator",
                       !.params = {"indicator"}]

Multi(decls) == [kind |-> "multi", decls |-> decls]
Single(d) == [kind |-> "single", decls |-> <<d>>]

MCDocuments ==
  { Single(Page), Single(PageHarder), Single(Wipe), Single(Enrich),
    Multi(<<Ticket, Page>>), Multi(<<Ticket, Enrich, Wipe>>),
    Multi(<<Page, PageHarder>>),
    Multi(<<PageHarder, [Ticket EXCEPT !.blast = 6]>>),
    Multi(<<[Ticket EXCEPT !.text = "uncompilable", !.schema = Schema({"x"})], Page>>),
    Single([Page EXCEPT !.text = "blank"]),
    Single([Page EXCEPT !.text = "malformed"]),
    Single([Page EXCEPT !.severity = 7]), Single([Page EXCEPT !.complete = FALSE]),
    Single([Page EXCEPT !.name = ""]),
    Multi(<<>>), [kind |-> "scalar", decls |-> <<>>] }

-----------------------------------------------------------------------------
(* Backend *)

MCBackendConfigs ==
  LET good == [name |-> "falcon", client |-> "id", secret |-> "s",
               cloud |-> "us-1", handshake |-> TRUE]
  IN  { good, [good EXCEPT !.name = "", !.cloud = ""],
        [good EXCEPT !.name = "other"], [good EXCEPT !.secret = ""],
        [good EXCEPT !.cloud = "mars"], [good EXCEPT !.handshake = FALSE] }

ArgNames == {"host_id", "user_id", "key_id", "query", "indicator",
             "indicator_type", "comment"}
ArgValues == {"ipv4", "srv-7", "", NonString}
MCBackendCalls ==
  [ action : Dispatched \cup {"page_oncall"},
    args : UNION {[keys -> ArgValues] :
                    keys \in {k \in SUBSET ArgNames : Cardinality(k) <= 2}} ]

MCErrorTexts == { {}, {"401"}, {"404", "timeout"}, {"429"}, {"deadline exceeded"} }

-----------------------------------------------------------------------------
(* Startup *)

SoundConfig ==
  [ version |-> 1, command |-> <<"server">>, default |-> "deny", rules |-> <<>>,
    timeout |-> 300, channels |-> <<[type |-> "terminal", tokens |-> FALSE,
    secret |-> FALSE]>>, stdout |-> FALSE ]

SomeRules ==
  { [ named |-> n, literal |-> lit, tool |-> t, targets |-> ts, action |-> a,
      wellFormed |-> w ] :
      n \in BOOLEAN, lit \in {TRUE}, t \in {{isolate}, {isolate, wipe}},
      ts \in {{}, {{h1}}}, a \in Actions \cup {"permit"}, w \in BOOLEAN }

MCFiles ==
  {[kind |-> k] : k \in {"missing", "unreadable", "malformed"}} \cup
  {[kind |-> "config", config |-> c] : c \in
    { [SoundConfig EXCEPT !.default = d, !.rules = rs, !.command = cmd] :
        d \in Actions \cup {""}, rs \in {<<>>} \cup {<<r>> : r \in SomeRules},
        cmd \in {<<>>, <<"">>, <<"server">>} }
    \cup { [SoundConfig EXCEPT !.version = 2], [SoundConfig EXCEPT !.timeout = -1] }
    \cup { [SoundConfig EXCEPT !.channels = <<[type |-> t, tokens |-> k, secret |-> s]>>] :
             t \in {"slack", "pager"}, k, s \in BOOLEAN }}

MCInvocations ==
  [explicit : BOOLEAN, override : {<<>>, <<"other">>, <<"">>}, auditStdout : BOOLEAN]
=============================================================================
