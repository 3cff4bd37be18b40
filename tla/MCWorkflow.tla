----------------------------- MODULE MCWorkflow -----------------------------
(***************************************************************************)
(* One request over two sections, of both kinds or of one; two requests at *)
(* a time over one section; a request without an id; and the sections      *)
(* NewWorkflow rejects.                                                    *)
(***************************************************************************)
EXTENDS WorkflowInvariant

CONSTANTS r1, r2

Section(type, env, literal, creds) ==
  [type |-> type, env |-> env, literal |-> literal, creds |-> creds]

terminal == Section("", "none", TRUE, FALSE)
slack    == Section("slack", "set", FALSE, TRUE)

Config(cs, option, asked) == [channels |-> cs, option |-> option, asked |-> asked]

BadConfigs ==
  { Config(cs, FALSE, {r1}) : cs \in
      { <<>>,
        <<Section("terminal", "none", FALSE, FALSE), slack>>,
        <<Section("terminal", "unset", TRUE, FALSE)>>,
        <<terminal, Section("slack", "set", FALSE, FALSE)>>,
        <<Section("pager", "set", TRUE, TRUE)>> } }

\* One request over two sections, two requests over one section.
WorkingConfigs ==
  { Config(<<terminal, slack>>, FALSE, {r1}),
    Config(<<slack, terminal>>, TRUE, {r1}),
    Config(<<terminal, terminal>>, FALSE, {r1}),
    Config(<<slack, slack>>, FALSE, {r1}),
    Config(<<terminal>>, FALSE, {r1, r2}),
    Config(<<slack>>, FALSE, {r1, r2}) }

MCConfigs == BadConfigs \cup WorkingConfigs \cup {Config(<<terminal>>, FALSE, {EmptyID})}
=============================================================================
