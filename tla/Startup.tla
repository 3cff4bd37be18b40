------------------------------ MODULE Startup ------------------------------
(***************************************************************************)
(* From the command line to a proxy that serves: internal/config and the   *)
(* part of cli.runRoot that runs before the pumps.  A configuration file   *)
(* is [kind, config]; a config is [version, command, default, rules,       *)
(* timeout, channels, stdout], its rules those of module Policy with the   *)
(* flag named (id and tool are non-empty), a channel [type, tokens,        *)
(* secret].  A command is a sequence of words, "" among them.              *)
(***************************************************************************)
EXTENDS Integers, Policy

CONSTANTS Files,        \* what the configuration path may hold
          Invocations   \* [explicit, override, auditStdout]

\* What YAML decodes a file to, before anything of it is validated.
FileRules ==
  [ named: BOOLEAN, literal: BOOLEAN, tool: SUBSET Tools,
    targets: SUBSET SUBSET Targets, action: STRING, wellFormed: BOOLEAN ]
FileConfigs ==
  [ version: Int, command: Seq(STRING), default: STRING, rules: Seq(FileRules),
    timeout: Int, channels: Seq([type: STRING, tokens: BOOLEAN, secret: BOOLEAN]),
    stdout: BOOLEAN ]

ASSUME StartupAssumption ==
  /\ Files \subseteq [kind: {"missing", "unreadable", "malformed"}]
                     \cup [kind: {"config"}, config: FileConfigs]
  /\ Invocations \subseteq
       [explicit: BOOLEAN, override: Seq(STRING), auditStdout: BOOLEAN]

VARIABLES stage,   \* how far runRoot is
          opts,    \* the parsed flags and arguments
          file,    \* what config.Load read
          cfg,     \* the config runRoot works on
          warned,  \* the default-allow warning was printed
          engine   \* the compiled policy handed to policy.New

startupVars == <<stage, opts, file, cfg, warned, engine>>

SchemaVersion == 1

-----------------------------------------------------------------------------
(* Config.Validate *)

RuleValid(r) == r.named /\ r.action \in Actions

ChannelValid(ch) ==
  \/ ch.type = "terminal"
  \/ ch.type = "slack" /\ ch.tokens /\ ch.secret

ConfigValid(c) ==
  /\ c.version = SchemaVersion
  /\ c.command # <<>> /\ \A i \in DOMAIN c.command : c.command[i] # ""
  /\ c.default \in {"allow", "deny"}
  /\ \A i \in DOMAIN c.rules : RuleValid(c.rules[i])
  /\ c.timeout >= 0
  /\ \A i \in DOMAIN c.channels : ChannelValid(c.channels[i])

-----------------------------------------------------------------------------
(* cli.runRoot *)

StartupInit ==
  /\ stage = "start"
  /\ opts = <<>> /\ file = <<>> /\ cfg = <<>> /\ engine = <<>>
  /\ warned = FALSE

Invoke(o) ==
  /\ stage = "start"
  /\ stage' = "resolve"
  /\ opts' = o
  /\ UNCHANGED <<file, cfg, warned, engine>>

\* An explicit path is taken as it is; the default one is the XDG library's,
\* which may find no usable directory.
resolveConfigPath ==
  /\ stage = "resolve"
  /\ \/ stage' = "load"
     \/ ~opts.explicit /\ stage' = "failed"
  /\ UNCHANGED <<opts, file, cfg, warned, engine>>

\* Slip: Parse's comment is believed ("decodes YAML bytes ... and validates").
LoadTrustingParse(f) ==
  /\ stage = "load"
  /\ file' = f
  /\ IF f.kind = "config" THEN stage' = "override" /\ cfg' = f.config
     ELSE stage' = "failed" /\ UNCHANGED cfg
  /\ UNCHANGED <<opts, warned, engine>>

\* config.Load: read, parse, validate.
Load(f) ==
  /\ stage = "load"
  /\ file' = f
  /\ IF f.kind = "config" /\ ConfigValid(f.config)
     THEN stage' = "override" /\ cfg' = f.config
     ELSE stage' = "failed" /\ UNCHANGED cfg
  /\ UNCHANGED <<opts, warned, engine>>

\* The overrides come after validation; nothing validates the result again.
ApplyOverrides ==
  /\ stage = "override"
  /\ cfg' = [cfg EXCEPT
               !.command = IF opts.override # <<>> THEN opts.override ELSE @,
               !.stdout = @ \/ opts.auditStdout]
  /\ warned' = (cfg.default = "allow")
  /\ stage' = "compile"
  /\ UNCHANGED <<opts, file, engine>>

\* A pattern that does not compile is only found here.  Version 1 is stamped on
\* the result; proxy.New is given everything it asks for.
CompileAndServe ==
  /\ stage = "compile"
  /\ IF CompileFails(cfg)
     THEN stage' = "failed" /\ UNCHANGED engine
     ELSE stage' = "serving" /\ engine' = [Compile(cfg) EXCEPT !.version = 1]
  /\ UNCHANGED <<opts, file, cfg, warned>>

\* main returns; the operator may start it again.
Exit ==
  /\ stage \in {"failed", "serving"}
  /\ stage' = "start"
  /\ opts' = <<>> /\ file' = <<>> /\ cfg' = <<>> /\ engine' = <<>>
  /\ warned' = FALSE

StartupNext ==
  \/ \E o \in Invocations : Invoke(o)
  \/ resolveConfigPath
  \/ \E f \in Files : Load(f)
  \/ ApplyOverrides
  \/ CompileAndServe
  \/ Exit

StartupSpec == StartupInit /\ [][StartupNext]_startupVars

-----------------------------------------------------------------------------
(* Properties *)

\* What the overrides make of a config.
Overridden(c) ==
  [c EXCEPT !.command = IF opts.override # <<>> THEN opts.override ELSE @,
            !.stdout = @ \/ opts.auditStdout]

\* How far startup has come, and from what: every config it works on is the
\* validated file's, and a policy is handed to the engine whole.
StartupTypeOK ==
  /\ stage \in {"start", "resolve", "load", "override", "compile",
                "serving", "failed"}
  /\ stage \in {"resolve", "load", "override", "compile", "serving"} =>
       opts \in Invocations
  /\ stage \in {"override", "compile", "serving"} =>
       file \in Files /\ file.kind = "config" /\ ConfigValid(file.config)
  /\ stage = "override" => cfg = file.config
  /\ stage \in {"compile", "serving"} =>
       cfg = Overridden(file.config) /\ warned = (file.config.default = "allow")
  /\ stage = "serving" =>
       /\ ~CompileFails(cfg) /\ engine = [Compile(cfg) EXCEPT !.version = 1]
       /\ engine \in CompiledPolicy

\* config/loader.go:52-54 and root.go:111-124: a config that does not validate
\* never starts the proxy.  What serves is the validated file with the command
\* of the command line, if it gives one, and the audit flag added; the warning
\* was printed if and only if the file allows by default; and the engine answers
\* every call as the file, read by itself, says.
ServesWhatWasConfigured ==
  stage = "serving" =>
    LET c == file.config
    IN  /\ file.kind = "config" /\ ConfigValid(c)
        /\ cfg = [c EXCEPT !.command = cfg.command, !.stdout = cfg.stdout]
        /\ cfg.command # <<>>
        /\ cfg.command = IF opts.override # <<>> THEN opts.override ELSE c.command
        /\ cfg.stdout <=> c.stdout \/ opts.auditStdout
        /\ warned <=> c.default = "allow"
        /\ \A call \in Calls : EvaluatePolicy(engine, call) = Says(c, call)
=============================================================================
