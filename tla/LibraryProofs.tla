---------------------------- MODULE LibraryProofs ----------------------------
(***************************************************************************)
(* The packages that are called and keep no goroutine: what startup lets   *)
(* serve, that a built event does not change, and what dispatch does with  *)
(* a validated call.                                                       *)
(***************************************************************************)
EXTENDS Libraries, PolicyProofs

-----------------------------------------------------------------------------
(* Startup *)

\* A file that parses has the types YAML gives it.
LEMMA FileTyped ==
  ASSUME NEW f \in Files, f.kind = "config"
  PROVE  f.config \in FileConfigs
BY StartupAssumption DEF StartupAssumption

\* The overrides leave the default action, the rules and the channels alone.
LEMMA OverridesKeep ==
  ASSUME NEW c \in FileConfigs, opts \in Invocations
  PROVE  /\ Overridden(c) \in FileConfigs
         /\ Overridden(c).rules = c.rules /\ Overridden(c).default = c.default
         /\ Overridden(c).channels = c.channels
         /\ Overridden(c).command = IF opts.override # <<>> THEN opts.override ELSE c.command
<1>1. opts.override \in Seq(STRING) /\ opts.auditStdout \in BOOLEAN
  BY StartupAssumption DEF StartupAssumption
<1>2. c.command \in Seq(STRING) /\ c.stdout \in BOOLEAN
  BY DEF FileConfigs
<1> QED  BY <1>1, <1>2 DEF Overridden, FileConfigs

\* A config with those types is one module Policy's Compile reads.
LEMMA FileWritten ==
  ASSUME NEW c \in FileConfigs
  PROVE  Written(c)
<1>1. c.rules \in Seq(FileRules)
  BY DEF FileConfigs
<1>2. Len(c.rules) \in Nat /\ DOMAIN c.rules = 1..Len(c.rules)
      /\ \A i \in DOMAIN c.rules : c.rules[i] \in FileRules
  BY <1>1
<1> QED  BY <1>2 DEF Written, FileRules

LEMMA StartupSteps == StartupTypeOK /\ [StartupNext]_startupVars => StartupTypeOK'
<1> SUFFICES ASSUME StartupTypeOK, [StartupNext]_startupVars PROVE StartupTypeOK'
  OBVIOUS
<1>1. ASSUME NEW o \in Invocations, Invoke(o) PROVE StartupTypeOK'
  BY <1>1 DEF Invoke, StartupTypeOK
<1>2. CASE resolveConfigPath
  BY <1>2 DEF resolveConfigPath, StartupTypeOK
<1>3. ASSUME NEW f \in Files, Load(f) PROVE StartupTypeOK'
  BY <1>3 DEF Load, StartupTypeOK
<1>4. CASE ApplyOverrides
  <2>1. /\ stage = "override" /\ stage' = "compile" /\ UNCHANGED <<opts, file, engine>>
        /\ cfg' = Overridden(cfg) /\ warned' = (cfg.default = "allow")
    BY <1>4 DEF ApplyOverrides, Overridden
  <2>2. /\ cfg = file.config /\ opts \in Invocations
        /\ file \in Files /\ file.kind = "config" /\ ConfigValid(file.config)
    BY <2>1 DEF StartupTypeOK
  <2> QED  BY <2>1, <2>2 DEF StartupTypeOK, Overridden
<1>5. CASE CompileAndServe
  <2>1. /\ stage = "compile" /\ UNCHANGED <<opts, file, cfg, warned>>
        /\ \/ stage' = "failed"
           \/ /\ ~CompileFails(cfg) /\ stage' = "serving"
              /\ engine' = [Compile(cfg) EXCEPT !.version = 1]
    BY <1>5 DEF CompileAndServe
  <2>2. /\ opts \in Invocations /\ file \in Files /\ file.kind = "config"
        /\ cfg = Overridden(file.config)
    BY <2>1 DEF StartupTypeOK
  <2>3. cfg \in FileConfigs
    BY <2>2, FileTyped, OverridesKeep
  <2>4. ~CompileFails(cfg) => [Compile(cfg) EXCEPT !.version = 1] \in CompiledPolicy
    <3>1. ~CompileFails(cfg) => Compile(cfg) \in CompiledPolicy
      BY <2>3, FileWritten, CompileType
    <3> QED  BY <3>1 DEF CompiledPolicy
  <2> QED  BY <2>1, <2>4 DEF StartupTypeOK, Overridden
<1>6. CASE Exit
  BY <1>6 DEF Exit, StartupTypeOK
<1>7. CASE UNCHANGED startupVars
  BY <1>7 DEF startupVars, StartupTypeOK, Overridden
<1> QED  BY <1>1, <1>2, <1>3, <1>4, <1>5, <1>6, <1>7 DEF StartupNext

LEMMA StartupInvariant == StartupSpec => []StartupTypeOK
<1>1. StartupInit => StartupTypeOK
  BY DEF StartupInit, StartupTypeOK
<1> QED  BY <1>1, StartupSteps, PTL DEF StartupSpec

\* The version Compile's caller stamps and the fields startup overrides are not
\* read by Evaluate: the engine answers as the file says.
LEMMA EngineAsWritten ==
  ASSUME NEW c \in FileConfigs, NEW d \in FileConfigs,
         d.rules = c.rules, d.default = c.default, ~CompileFails(d), NEW k \in Calls
  PROVE  EvaluatePolicy([Compile(d) EXCEPT !.version = 1], k) = Says(c, k)
<1> DEFINE p == Compile(d)
           q == [Compile(d) EXCEPT !.version = 1]
<1>1. q.rules = p.rules /\ q.default = p.default
  BY DEF Compile
<1> HIDE DEF p, q
<1>2. EvaluatePolicy(q, k) = EvaluatePolicy(p, k)
  BY <1>1 DEF EvaluatePolicy, MatchingRules
<1>3. EvaluatePolicy(p, k) = Says(d, k)
  BY FileWritten, EvaluateAsPromised DEF p
<1>4. Says(d, k) = Says(c, k)
  BY DEF Says, Outranks
<1> QED  BY <1>2, <1>3, <1>4 DEF q

\* What serves is one validated file, its command and its audit flag overridden
\* by the command line and nothing else, warned of if it allows by default, and
\* an engine that answers each call as that file says; no prefix of startup
\* serves anything else (loader.go, root.go).
THEOREM ServesTheFile == StartupSpec => []ServesWhatWasConfigured
<1>1. StartupTypeOK => ServesWhatWasConfigured
  <2> SUFFICES ASSUME StartupTypeOK, stage = "serving" PROVE ServesWhatWasConfigured
    BY DEF ServesWhatWasConfigured
  <2> DEFINE c == file.config
  <2>1. /\ opts \in Invocations /\ file \in Files /\ file.kind = "config" /\ ConfigValid(c)
        /\ cfg = Overridden(c) /\ warned = (c.default = "allow") /\ ~CompileFails(cfg)
        /\ engine = [Compile(cfg) EXCEPT !.version = 1]
    BY DEF StartupTypeOK
  <2>2. c \in FileConfigs /\ c.command # <<>>
    BY <2>1, FileTyped DEF ConfigValid
  <2> HIDE DEF c
  <2>3. /\ cfg \in FileConfigs /\ cfg.rules = c.rules /\ cfg.default = c.default
        /\ cfg.command = IF opts.override # <<>> THEN opts.override ELSE c.command
    BY <2>1, <2>2, OverridesKeep
  <2>4. cfg.command # <<>>
    BY <2>2, <2>3
  <2>5. /\ cfg = [c EXCEPT !.command = cfg.command, !.stdout = cfg.stdout]
        /\ cfg.stdout <=> c.stdout \/ opts.auditStdout
    BY <2>1, <2>2 DEF Overridden, FileConfigs
  <2>6. \A k \in Calls : EvaluatePolicy(engine, k) = Says(c, k)
    BY <2>1, <2>2, <2>3, EngineAsWritten
  <2> QED  BY <2>1, <2>3, <2>4, <2>5, <2>6 DEF ServesWhatWasConfigured, c
<1> QED  BY <1>1, StartupInvariant, PTL
-----------------------------------------------------------------------------
(* The event builder *)

\* Two sequences that agree up to n have the same first n elements.
LEMMA SameFront ==
  ASSUME NEW V, NEW s \in Seq(V), NEW t \in Seq(V), NEW n \in Nat,
         n <= Len(s), n <= Len(t), \A i \in 1..n : s[i] = t[i]
  PROVE  SubSeq(s, 1, n) = SubSeq(t, 1, n)
<1> DEFINE u == SubSeq(s, 1, n)
           v == SubSeq(t, 1, n)
<1>1. u \in Seq(V) /\ Len(u) = n /\ \A i \in 1..n : u[i] = s[i]
  <2>1. \A i \in 1..n : s[i] \in V
    OBVIOUS
  <2>2. /\ u \in Seq(V) /\ Len(u) = IF 1 <= n THEN n - 1 + 1 ELSE 0
        /\ \A i \in 1..(n - 1 + 1) : u[i] = s[1 + i - 1]
    BY <2>1, SubSeqProperties
  <2> HIDE DEF u
  <2> QED  BY <2>2
<1>2. v \in Seq(V) /\ Len(v) = n /\ \A i \in 1..n : v[i] = t[i]
  <2>1. \A i \in 1..n : t[i] \in V
    OBVIOUS
  <2>2. /\ v \in Seq(V) /\ Len(v) = IF 1 <= n THEN n - 1 + 1 ELSE 0
        /\ \A i \in 1..(n - 1 + 1) : v[i] = t[1 + i - 1]
    BY <2>1, SubSeqProperties
  <2> HIDE DEF v
  <2> QED  BY <2>2
<1> HIDE DEF u, v
<1>3. u = v
  BY <1>1, <1>2, SeqEqual
<1> QED  BY <1>3 DEF u, v

\* The step leaves the cells e reads as they are.
ReadsSame(e) ==
  /\ e.resources.array # nil =>
       \A k \in 1..e.resources.len :
         arrays'[e.resources.array][k] = arrays[e.resources.array][k]
  /\ e.actor # nil => actors'[e.actor] = actors[e.actor]

\* Every step leaves what built events read, and Build only adds one.
EventStep ==
  /\ \A i \in DOMAIN built : ReadsSame(built[i].event)
  /\ Len(built) <= Len(built') /\ \A i \in DOMAIN built : built'[i] = built[i]

\* An event that points into the heap still does in a larger one.
LEMMA StillPoints ==
  ASSUME NEW e \in Events, PointsIntoHeap(e), ReadsSame(e),
         Len(arrays) \in Nat, Len(arrays') \in Nat, Len(arrays) <= Len(arrays'),
         Len(actors) \in Nat, Len(actors') \in Nat, Len(actors) <= Len(actors'),
         \A i \in 1..Len(arrays) :
           Len(arrays[i]) \in Nat /\ Len(arrays'[i]) = Len(arrays[i])
  PROVE  PointsIntoHeap(e)'
<1>1. e.resources.array \in Nat /\ e.resources.len \in Nat /\ e.actor \in Nat
  BY DEF Events
<1>2. e.resources.array # nil => e.resources.array \in 1..Len(arrays)
  BY <1>1 DEF PointsIntoHeap, nil
<1>3. CASE e.resources.array = nil
  BY <1>1, <1>3 DEF PointsIntoHeap, nil
<1>4. CASE e.resources.array # nil
  <2> DEFINE a == e.resources.array
  <2>1. /\ a \in 1..Len(arrays) /\ e.resources.len <= Len(arrays[a])
        /\ \A k \in 1..e.resources.len : arrays[a][k] \in ToolNames
        /\ \A k \in 1..e.resources.len : arrays'[a][k] = arrays[a][k]
        /\ e.resources.len <= MaxResources /\ e.actor \in 0..Len(actors)
    BY <1>2, <1>4 DEF PointsIntoHeap, ReadsSame
  <2>2. Len(arrays'[a]) = Len(arrays[a]) /\ a \in 0..Len(arrays') /\ e.actor \in 0..Len(actors')
    BY <2>1
  <2> QED  BY <1>4, <2>1, <2>2 DEF PointsIntoHeap
<1> QED  BY <1>3, <1>4

\* The invariant in terms of the types of what it speaks of.
LEMMA EventTyped ==
  ASSUME EventTypeOK
  PROVE  /\ Len(arrays) \in Nat /\ Len(actors) \in Nat /\ Len(built) \in Nat
         /\ DOMAIN built = 1..Len(built)
         /\ \A i \in 1..Len(arrays) : /\ arrays[i] \in Seq(ToolNames \cup {Unwritten})
                                      /\ Len(arrays[i]) \in Nat
         /\ \A i \in DOMAIN built : built[i].event \in Events /\ built[i].time \in Times
         /\ ev \in Events /\ ev.resources.array \in Nat /\ ev.resources.len \in Nat
         /\ ev.actor \in Nat
<1>1. /\ arrays \in Seq(Seq(ToolNames \cup {Unwritten})) /\ actors \in Seq(AgentIDs)
      /\ built \in Seq([event: Events, time: Times]) /\ ev \in Events
  BY DEF EventTypeOK
<1>2. \A i \in 1..Len(arrays) : /\ arrays[i] \in Seq(ToolNames \cup {Unwritten})
                                /\ Len(arrays[i]) \in Nat
  BY <1>1
<1>3. ev.resources.array \in Nat /\ ev.resources.len \in Nat /\ ev.actor \in Nat
  BY <1>1 DEF Events
<1>4. \A i \in DOMAIN built : built[i] \in [event: Events, time: Times]
  <2> DEFINE X == [event: Events, time: Times]
  <2>1. built \in Seq(X)
    BY <1>1
  <2> HIDE DEF X
  <2>2. \A i \in DOMAIN built : built[i] \in X
    BY <2>1
  <2> QED  BY <2>2 DEF X
<1> QED  BY <1>1, <1>2, <1>3, <1>4

\* What an event reads is in the heap.
LEMMA PointsTyped ==
  ASSUME EventTypeOK, NEW e \in Events, PointsIntoHeap(e)
  PROVE  /\ e.resources.array \in Nat /\ e.resources.len \in Nat
         /\ e.resources.array # Len(arrays) + 1 /\ e.resources.array \in 0..Len(arrays)
         /\ e.resources.array # nil =>
              /\ e.resources.array \in 1..Len(arrays)
              /\ e.resources.len <= Len(arrays[e.resources.array])
              /\ \A k \in 1..e.resources.len : arrays[e.resources.array][k] \in ToolNames
         /\ e.resources.array = nil => e.resources.len = 0
<1>1. e.resources.array \in Nat /\ e.resources.len \in Nat
  BY DEF Events
<1>2. e.resources.array \in 0..Len(arrays) /\ Len(arrays) \in Nat
  BY EventTyped DEF PointsIntoHeap
<1>3. e.resources.array # nil => e.resources.array \in 1..Len(arrays)
  BY <1>2 DEF nil
<1>4. e.resources.array # nil =>
        /\ e.resources.len <= Len(arrays[e.resources.array])
        /\ \A k \in 1..e.resources.len : arrays[e.resources.array][k] \in ToolNames
  BY DEF PointsIntoHeap
<1>5. e.resources.array = nil => e.resources.len = 0
  BY DEF PointsIntoHeap
<1> QED  BY <1>1, <1>2, <1>3, <1>4, <1>5

\* The labels WithVerdict writes.
LEMMA VerdictLabels ==
  ASSUME NEW v \in Verdicts
  PROVE  VerdictString(v) \in {"Allow", "Deny", "RequireApproval"} /\ v # 0
<1>1. v = 1 \/ v = 2 \/ v = 3
  BY EventAssumption DEF EventAssumption
<1>2. /\ v = 1 => VerdictString(v) = "Allow"
      /\ v = 2 => VerdictString(v) = "Deny"
      /\ v = 3 => VerdictString(v) = "RequireApproval"
  BY DEF VerdictString
<1> QED  BY <1>1, <1>2

\* A setter that writes neither the heap nor what the builder points to.
LEMMA SetterHolds ==
  ASSUME EventTypeOK, UNCHANGED <<arrays, actors, built>>, now' \in Times \cup {0},
         ev' \in Events, Labelled(ev)',
         ev'.resources = ev.resources, ev'.actor = ev.actor
  PROVE  EventTypeOK' /\ EventStep
<1>1. PointsIntoHeap(ev)'
  BY DEF EventTypeOK, PointsIntoHeap
<1>2. \A i \in DOMAIN built : PointsIntoHeap(built[i].event)' /\ Labelled(built[i].event)'
  BY DEF EventTypeOK, PointsIntoHeap, Labelled
<1>3. EventStep
  BY EventTyped DEF EventStep, ReadsSame
<1> QED  BY <1>1, <1>2, <1>3 DEF EventTypeOK

LEMMA WithTimeHolds ==
  ASSUME EventTypeOK, NEW t \in Times \cup {0}, WithTime(t)
  PROVE  EventTypeOK' /\ EventStep
<1>1. ev \in Events /\ Labelled(ev)
  BY DEF EventTypeOK
<1>2. /\ UNCHANGED <<arrays, actors, built>> /\ now' = t /\ ev' = ev
      /\ Labelled(ev)' /\ ev'.resources = ev.resources /\ ev'.actor = ev.actor
  BY <1>1 DEF WithTime, Labelled
<1> QED  BY <1>1, <1>2, SetterHolds

LEMMA WithFieldHolds ==
  ASSUME EventTypeOK, NEW f \in Fields, NEW x \in FieldValues, WithField(f, x)
  PROVE  EventTypeOK' /\ EventStep
<1>1. ev \in Events /\ Labelled(ev) /\ now \in Times \cup {0}
  BY DEF EventTypeOK
<1>2. UNCHANGED <<arrays, actors, built, now>> /\ ev' = [ev EXCEPT !.fields[f] = x]
  BY DEF WithField
<1>3. ev' \in Events /\ Labelled(ev)' /\ ev'.resources = ev.resources /\ ev'.actor = ev.actor
  <2>1. ev.fields \in [Fields -> FieldValues \cup {Unset}]
    BY <1>1 DEF Events
  <2> QED  BY <1>1, <1>2, <2>1 DEF Events, Labelled
<1> QED  BY <1>1, <1>2, <1>3, SetterHolds

LEMMA WithVerdictHolds ==
  ASSUME EventTypeOK, NEW v \in Verdicts, WithVerdict(v)
  PROVE  EventTypeOK' /\ EventStep
<1>1. ev \in Events /\ now \in Times \cup {0}
  BY DEF EventTypeOK
<1>2. UNCHANGED <<arrays, actors, built, now>>
      /\ ev' = [ev EXCEPT !.verdict = VerdictString(v), !.verdictID = v]
  BY DEF WithVerdict
<1>3. ev' \in Events /\ Labelled(ev)' /\ ev'.resources = ev.resources /\ ev'.actor = ev.actor
  BY <1>1, <1>2, VerdictLabels DEF Events, Labelled
<1> QED  BY <1>1, <1>2, <1>3, SetterHolds

\* WithActor points the builder to a new cell; the old one stays.
LEMMA WithActorHolds ==
  ASSUME EventTypeOK, NEW id \in AgentIDs, WithActor(id)
  PROVE  EventTypeOK' /\ EventStep
<1>1. /\ ev \in Events /\ now \in Times \cup {0} /\ actors \in Seq(AgentIDs)
      /\ PointsIntoHeap(ev) /\ Labelled(ev)
      /\ \A i \in DOMAIN built : PointsIntoHeap(built[i].event) /\ Labelled(built[i].event)
  BY DEF EventTypeOK
<1>2. /\ UNCHANGED <<now, arrays, built>> /\ actors' = Append(actors, id)
      /\ ev' = [ev EXCEPT !.actor = Len(actors) + 1]
  BY DEF WithActor
<1>3. /\ actors' \in Seq(AgentIDs) /\ Len(actors') = Len(actors) + 1
      /\ \A k \in 1..Len(actors) : actors'[k] = actors[k]
  BY <1>1, <1>2, AppendProperties
<1>4. ASSUME NEW e \in Events, PointsIntoHeap(e) PROVE ReadsSame(e) /\ PointsIntoHeap(e)'
  <2>1. e.actor \in 0..Len(actors) /\ e.actor \in Nat
    BY <1>4 DEF PointsIntoHeap, Events
  <2>2. ReadsSame(e)
    BY <1>2, <1>3, <2>1, EventTyped DEF ReadsSame, nil
  <2> QED  BY <1>2, <1>3, <1>4, <2>2, EventTyped, StillPoints
<1>5. /\ ev' \in Events /\ Labelled(ev)' /\ ev'.resources = ev.resources
      /\ ev'.actor = Len(actors')
  <2>1. Len(actors) + 1 \in Nat /\ Len(actors) + 1 = Len(actors')
    BY <1>3, EventTyped
  <2>2. ev' \in Events
    BY <1>1, <1>2, <2>1 DEF Events
  <2>3. ev'.verdict = ev.verdict /\ ev'.verdictID = ev.verdictID
        /\ ev'.resources = ev.resources /\ ev'.actor = Len(actors) + 1
    BY <1>1, <1>2 DEF Events
  <2> QED  BY <1>1, <2>1, <2>2, <2>3 DEF Labelled
<1>6. PointsIntoHeap(ev)'
  <2>1. ev'.actor \in 0..Len(actors')
    BY <1>3, <1>5, EventTyped
  <2> QED  BY <1>1, <1>2, <1>5, <2>1 DEF PointsIntoHeap
<1>7. \A i \in DOMAIN built : /\ ReadsSame(built[i].event)
                              /\ PointsIntoHeap(built[i].event)'
                              /\ Labelled(built[i].event)'
  <2> SUFFICES ASSUME NEW i \in DOMAIN built
               PROVE  /\ ReadsSame(built[i].event) /\ PointsIntoHeap(built[i].event)'
                      /\ Labelled(built[i].event)'
    OBVIOUS
  <2>1. ReadsSame(built[i].event)
    BY <1>1, <1>4, EventTyped
  <2>2. PointsIntoHeap(built[i].event)'
    <3>1. PICK e \in Events : e = built[i].event
      BY EventTyped
    <3>2. PointsIntoHeap(e)' /\ built'[i].event = e
      BY <1>1, <1>2, <1>4, <3>1
    <3> QED  BY <3>2 DEF PointsIntoHeap
  <2> QED  BY <1>1, <1>2, <2>1, <2>2 DEF Labelled
<1>8. EventStep
  BY <1>2, <1>7, EventTyped DEF EventStep
<1> QED  BY <1>1, <1>2, <1>3, <1>5, <1>6, <1>7, <1>8 DEF EventTypeOK

\* Build adds the event the builder holds; they share what they point to.
LEMMA BuildHolds ==
  ASSUME EventTypeOK, Build
  PROVE  EventTypeOK' /\ EventStep
<1>1. /\ ev \in Events /\ now \in Times \cup {0} /\ built \in Seq([event: Events, time: Times])
      /\ PointsIntoHeap(ev) /\ Labelled(ev)
  BY DEF EventTypeOK
<1>2. PICK clock \in Times :
        built' = Append(built, [event |-> ev, time |-> IF now = 0 THEN clock ELSE now])
  BY DEF Build
<1> DEFINE r == [event |-> ev, time |-> IF now = 0 THEN clock ELSE now]
           X == [event: Events, time: Times]
<1>3. r \in X /\ r.event = ev
  BY <1>1
<1> HIDE DEF r, X
<1>4. /\ built' \in Seq(X) /\ Len(built') = Len(built) + 1
      /\ \A i \in 1..Len(built) : built'[i] = built[i]
      /\ built'[Len(built) + 1] = r
  <2>1. built \in Seq(X) /\ built' = Append(built, r)
    BY <1>1, <1>2 DEF r, X
  <2> QED  BY <1>3, <2>1, AppendProperties
<1>5. UNCHANGED <<now, ev, arrays, actors>>
  BY DEF Build
<1>6. ASSUME NEW i \in DOMAIN built'
      PROVE  /\ PointsIntoHeap(built[i].event)' /\ Labelled(built[i].event)'
             /\ built'[i].event.resources.array = ev.resources.array =>
                  built'[i].event.resources.len <= ev.resources.len
  <2>1. i \in 1..(Len(built) + 1) /\ Len(built) \in Nat /\ DOMAIN built = 1..Len(built)
    BY <1>4, EventTyped
  <2>2. CASE i = Len(built) + 1
    <3>1. built'[i].event = ev
      BY <1>3, <1>4, <2>2
    <3>2. PointsIntoHeap(ev) /\ Labelled(ev) /\ ev.resources.len <= ev.resources.len
      BY <1>1, EventTyped
    <3> QED  BY <1>5, <3>1, <3>2 DEF PointsIntoHeap, Labelled
  <2>3. CASE i # Len(built) + 1
    <3>1. i \in DOMAIN built /\ built'[i] = built[i]
      BY <1>4, <2>1, <2>3
    <3>2. /\ PointsIntoHeap(built[i].event) /\ Labelled(built[i].event)
          /\ built[i].event.resources.array = ev.resources.array =>
               built[i].event.resources.len <= ev.resources.len
      BY <3>1 DEF EventTypeOK
    <3> QED  BY <1>5, <3>1, <3>2 DEF PointsIntoHeap, Labelled
  <2> QED  BY <2>1, <2>2, <2>3
<1>7. EventStep
  BY <1>4, <1>5, EventTyped DEF EventStep, ReadsSame
<1>8. now' \in Times \cup {0} /\ ev' \in Events /\ PointsIntoHeap(ev)' /\ Labelled(ev)'
      /\ arrays' \in Seq(Seq(ToolNames \cup {Unwritten})) /\ actors' \in Seq(AgentIDs)
      /\ built' \in Seq([event: Events, time: Times])
  BY <1>4, <1>5 DEF EventTypeOK, PointsIntoHeap, Labelled, X
<1> QED  BY <1>5, <1>6, <1>7, <1>8 DEF EventTypeOK

\* An append with room writes behind every event that shares the array.
LEMMA AppendInPlace ==
  ASSUME EventTypeOK, NEW tool \in ToolNames, WithResource(tool),
         ev.resources.len < Capacity(ev.resources)
  PROVE  EventTypeOK' /\ EventStep
<1> DEFINE a == ev.resources.array
           n == ev.resources.len + 1
           Cells == ToolNames \cup {Unwritten}
<1>1. /\ ev \in Events /\ now \in Times \cup {0} /\ actors \in Seq(AgentIDs)
      /\ arrays \in Seq(Seq(Cells)) /\ built \in Seq([event: Events, time: Times])
      /\ PointsIntoHeap(ev) /\ Labelled(ev)
  BY DEF EventTypeOK
<1>2. /\ UNCHANGED <<now, actors, built>> /\ n <= MaxResources
      /\ arrays' = [arrays EXCEPT ![a][n] = tool]
      /\ ev' = [ev EXCEPT !.resources.len = n]
  BY DEF WithResource
<1>3. /\ a \in 1..Len(arrays) /\ n \in 1..Len(arrays[a]) /\ n \in Nat
      /\ arrays[a] \in Seq(Cells) /\ \A k \in 1..ev.resources.len : arrays[a][k] \in ToolNames
  <2>0. ev.resources.len \in Nat
    BY EventTyped
  <2>1. a # nil
    BY <2>0 DEF Capacity, nil
  <2>2. a \in 1..Len(arrays) /\ \A k \in 1..ev.resources.len : arrays[a][k] \in ToolNames
    BY <1>1, <2>1, PointsTyped
  <2>3. ev.resources.len < Len(arrays[a])
    BY <2>1 DEF Capacity
  <2>4. arrays[a] \in Seq(Cells) /\ Len(arrays[a]) \in Nat
    BY <2>2, EventTyped
  <2>5. n \in Nat /\ n \in 1..Len(arrays[a])
    BY <2>0, <2>3, <2>4
  <2> QED  BY <2>2, <2>4, <2>5
<1> DEFINE row == [arrays[a] EXCEPT ![n] = tool]
<1>4. /\ row \in Seq(Cells) /\ Len(row) = Len(arrays[a]) /\ row[n] = tool
      /\ \A k \in 1..Len(arrays[a]) : k # n => row[k] = arrays[a][k]
  BY <1>3
<1> HIDE DEF Cells, row
<1>5. /\ arrays' \in Seq(Seq(Cells)) /\ Len(arrays') = Len(arrays) /\ arrays'[a] = row
      /\ \A i \in 1..Len(arrays) : i # a => arrays'[i] = arrays[i]
  <2>1. arrays' = [arrays EXCEPT ![a] = row]
    BY <1>2 DEF row
  <2> HIDE DEF a, n
  <2> QED  BY <1>1, <1>3, <1>4, <2>1
<1>6. ASSUME NEW i \in DOMAIN built
      PROVE  /\ ReadsSame(built[i].event)
             /\ PointsIntoHeap(built[i].event)' /\ Labelled(built[i].event)'
             /\ built'[i].event.resources.array = ev.resources.array =>
                  built'[i].event.resources.len <= ev.resources.len
  <2>1. PICK e \in Events : e = built[i].event
    BY EventTyped
  <2>2. /\ PointsIntoHeap(e) /\ Labelled(e) /\ built'[i].event = e
        /\ e.resources.array = a => e.resources.len <= ev.resources.len
    BY <1>2, <2>1 DEF EventTypeOK
  <2>3. /\ e.resources.array \in Nat /\ e.resources.len \in Nat
        /\ e.resources.array # nil =>
             e.resources.array \in 1..Len(arrays)
               /\ e.resources.len <= Len(arrays[e.resources.array])
    BY <2>2, PointsTyped
  <2>4. ReadsSame(e)
    <3>1. ASSUME NEW k \in 1..e.resources.len, e.resources.array # nil
          PROVE  arrays'[e.resources.array][k] = arrays[e.resources.array][k]
      <4>1. CASE e.resources.array = a
        <5>1. k \in 1..Len(arrays[a]) /\ k # n
          <6>1. ev.resources.len \in Nat /\ Len(arrays[a]) \in Nat
            BY <1>3, EventTyped
          <6>2. k \in Nat /\ 1 <= k /\ k <= ev.resources.len
            BY <2>2, <2>3, <4>1, <6>1
          <6> QED  BY <1>3, <6>1, <6>2
        <5> QED  BY <1>4, <1>5, <4>1, <5>1
      <4>2. CASE e.resources.array # a
        BY <1>5, <2>3, <3>1, <4>2
      <4> QED  BY <4>1, <4>2
    <3> QED  BY <1>2, <3>1 DEF ReadsSame
  <2>5. PointsIntoHeap(e)'
    <3>1. \A j \in 1..Len(arrays) : Len(arrays[j]) \in Nat /\ Len(arrays'[j]) = Len(arrays[j])
      BY <1>4, <1>5, EventTyped
    <3> QED  BY <1>2, <1>5, <2>2, <2>4, <3>1, EventTyped, StillPoints
  <2> QED  BY <2>1, <2>2, <2>4, <2>5 DEF PointsIntoHeap, Labelled
<1>7. /\ ev' \in Events /\ ev'.resources.array = a /\ ev'.resources.len = n
      /\ ev'.actor = ev.actor /\ ev'.verdict = ev.verdict /\ ev'.verdictID = ev.verdictID
  BY <1>1, <1>2, <1>3 DEF Events
<1>8. PointsIntoHeap(ev)'
  <2>1. \A k \in 1..n : arrays'[a][k] \in ToolNames
    <3> SUFFICES ASSUME NEW k \in 1..n PROVE arrays'[a][k] \in ToolNames
      OBVIOUS
    <3>1. k = n \/ (k # n /\ k \in 1..ev.resources.len /\ k \in 1..Len(arrays[a]))
      <4>1. ev.resources.len \in Nat /\ Len(arrays[a]) \in Nat
        BY <1>3, EventTyped
      <4> QED  BY <1>3, <4>1
    <3> QED  BY <1>3, <1>4, <1>5, <3>1
  <2>2. /\ a \in 0..Len(arrays') /\ a # nil /\ n <= Len(arrays'[a])
        /\ ev.actor \in 0..Len(actors')
    BY <1>1, <1>2, <1>3, <1>4, <1>5, EventTyped DEF PointsIntoHeap, nil
  <2> HIDE DEF a, n
  <2> QED  BY <1>2, <1>7, <2>1, <2>2 DEF PointsIntoHeap
<1>9. Labelled(ev)'
  BY <1>1, <1>7 DEF Labelled
<1>10. EventStep
  BY <1>2, <1>6, EventTyped DEF EventStep
<1>11. \A i \in DOMAIN built :
         built'[i].event.resources.array = ev'.resources.array =>
           built'[i].event.resources.len <= ev'.resources.len
  <2> SUFFICES ASSUME NEW i \in DOMAIN built, built[i].event.resources.array = a
               PROVE  built[i].event.resources.len <= n
    BY <1>2, <1>7
  <2>1. built[i].event.resources.len <= ev.resources.len
    BY <1>2, <1>6
  <2>2. built[i].event.resources.len \in Nat
    BY EventTyped DEF Events
  <2> QED  BY <2>1, <2>2, EventTyped
<1> QED  BY <1>1, <1>2, <1>5, <1>6, <1>7, <1>8, <1>9, <1>10, <1>11 DEF EventTypeOK, Cells

\* A full array is copied into a longer one that no built event knows.
LEMMA AppendIntoCopy ==
  ASSUME EventTypeOK, NEW tool \in ToolNames, WithResource(tool),
         ~(ev.resources.len < Capacity(ev.resources))
  PROVE  EventTypeOK' /\ EventStep
<1> DEFINE s == ev.resources
           n == s.len + 1
           Cells == ToolNames \cup {Unwritten}
           row == [k \in 1..Grown(s.len) |->
                     IF k <= s.len THEN arrays[s.array][k]
                     ELSE IF k = n THEN tool ELSE Unwritten]
<1>1. /\ ev \in Events /\ now \in Times \cup {0} /\ actors \in Seq(AgentIDs)
      /\ arrays \in Seq(Seq(Cells)) /\ built \in Seq([event: Events, time: Times])
      /\ PointsIntoHeap(ev) /\ Labelled(ev) /\ s.len \in Nat
  BY EventTyped DEF EventTypeOK
<1>2. /\ UNCHANGED <<now, actors, built>> /\ n <= MaxResources
      /\ arrays' = Append(arrays, row)
      /\ ev' = [ev EXCEPT !.resources = [array |-> Len(arrays) + 1, len |-> n]]
  BY DEF WithResource
<1>3. Grown(s.len) \in Nat /\ n \in 1..Grown(s.len)
  BY <1>1 DEF Grown
<1>4. \A k \in 1..s.len : arrays[s.array][k] \in ToolNames
  <2>1. CASE s.array = nil
    BY <1>1, <2>1 DEF PointsIntoHeap
  <2>2. CASE s.array # nil
    BY <1>1, <2>2 DEF PointsIntoHeap
  <2> QED  BY <2>1, <2>2
<1>5. /\ row \in Seq(Cells) /\ Len(row) = Grown(s.len)
      /\ \A k \in 1..n : row[k] \in ToolNames
  <2>1. \A k \in 1..Grown(s.len) : row[k] \in Cells /\ (k <= n => row[k] \in ToolNames)
    <3> SUFFICES ASSUME NEW k \in 1..Grown(s.len)
                 PROVE  row[k] \in Cells /\ (k <= n => row[k] \in ToolNames)
      OBVIOUS
    <3>1. CASE k <= s.len
      BY <1>1, <1>3, <1>4, <3>1
    <3>2. CASE ~(k <= s.len)
      BY <1>1, <1>3, <3>2
    <3> QED  BY <3>1, <3>2
  <2>2. row = [k \in 1..Grown(s.len) |-> row[k]]
    OBVIOUS
  <2> HIDE DEF row, Cells
  <2>3. row \in [1..Grown(s.len) -> Cells]
    BY <2>1, <2>2
  <2>4. row \in Seq(Cells) /\ Len(row) = Grown(s.len)
    BY <1>3, <2>3
  <2>5. \A k \in 1..n : k \in 1..Grown(s.len) /\ k <= n
    BY <1>3
  <2> QED  BY <2>1, <2>4, <2>5
<1> HIDE DEF row, Cells
<1>6. /\ arrays' \in Seq(Seq(Cells)) /\ Len(arrays') = Len(arrays) + 1
      /\ arrays'[Len(arrays) + 1] = row
      /\ \A i \in 1..Len(arrays) : arrays'[i] = arrays[i]
  BY <1>1, <1>2, <1>5, AppendProperties
<1>7. ASSUME NEW i \in DOMAIN built
      PROVE  /\ ReadsSame(built[i].event)
             /\ PointsIntoHeap(built[i].event)' /\ Labelled(built[i].event)'
             /\ built'[i].event.resources.array # Len(arrays) + 1
  <2>1. PICK e \in Events : e = built[i].event
    BY EventTyped
  <2>2. PointsIntoHeap(e) /\ Labelled(e) /\ built'[i].event = e
    BY <1>2, <2>1 DEF EventTypeOK
  <2>3. /\ e.resources.array \in 0..Len(arrays) /\ e.resources.array \in Nat
        /\ e.resources.array # nil => e.resources.array \in 1..Len(arrays)
        /\ e.resources.array # Len(arrays) + 1
    BY <2>2, PointsTyped
  <2>4. ReadsSame(e)
    BY <1>2, <1>6, <2>3 DEF ReadsSame
  <2>5. PointsIntoHeap(e)'
    <3>1. \A j \in 1..Len(arrays) : Len(arrays[j]) \in Nat /\ Len(arrays'[j]) = Len(arrays[j])
      BY <1>6, EventTyped
    <3>2. /\ Len(arrays) \in Nat /\ Len(arrays') \in Nat /\ Len(arrays) <= Len(arrays')
          /\ Len(actors) \in Nat /\ Len(actors') \in Nat /\ Len(actors) <= Len(actors')
      BY <1>2, <1>6, EventTyped
    <3> QED  BY <2>2, <2>4, <3>1, <3>2, StillPoints
  <2> QED  BY <2>1, <2>2, <2>3, <2>4, <2>5 DEF PointsIntoHeap, Labelled
<1>8. /\ ev' \in Events /\ ev'.resources = [array |-> Len(arrays) + 1, len |-> n]
      /\ ev'.actor = ev.actor /\ ev'.verdict = ev.verdict /\ ev'.verdictID = ev.verdictID
  <2>1. [array |-> Len(arrays) + 1, len |-> n] \in [array: Nat, len: Nat]
    BY <1>1, EventTyped
  <2> QED  BY <1>1, <1>2, <2>1 DEF Events
<1>9. PointsIntoHeap(ev)'
  <2> DEFINE b == Len(arrays) + 1
  <2>1. /\ b \in 0..Len(arrays') /\ b # nil /\ n <= Len(arrays'[b]) /\ ev.actor \in 0..Len(actors')
        /\ \A k \in 1..n : arrays'[b][k] \in ToolNames
    BY <1>1, <1>2, <1>3, <1>5, <1>6, EventTyped DEF PointsIntoHeap, nil
  <2>2. ev'.resources.array = b /\ ev'.resources.len = n
    BY <1>8
  <2> HIDE DEF b, n
  <2> QED  BY <1>2, <1>8, <2>1, <2>2 DEF PointsIntoHeap
<1>10. Labelled(ev)'
  BY <1>1, <1>8 DEF Labelled
<1>11. EventStep
  BY <1>2, <1>7, EventTyped DEF EventStep
<1>12. \A i \in DOMAIN built : built'[i].event.resources.array # ev'.resources.array
  BY <1>7, <1>8
<1> QED  BY <1>1, <1>2, <1>6, <1>7, <1>8, <1>9, <1>10, <1>11, <1>12 DEF EventTypeOK, Cells

LEMMA EventSteps ==
  EventTypeOK /\ [EventNext]_eventVars => EventTypeOK' /\ (EventStep \/ UNCHANGED eventVars)
<1> SUFFICES ASSUME EventTypeOK, [EventNext]_eventVars
             PROVE  EventTypeOK' /\ (EventStep \/ UNCHANGED eventVars)
  OBVIOUS
<1>1. ASSUME NEW t \in Times \cup {0}, WithTime(t) PROVE EventTypeOK' /\ EventStep
  BY <1>1, WithTimeHolds
<1>2. ASSUME NEW f \in Fields, NEW x \in FieldValues, WithField(f, x)
      PROVE  EventTypeOK' /\ EventStep
  BY <1>2, WithFieldHolds
<1>3. ASSUME NEW v \in Verdicts, WithVerdict(v) PROVE EventTypeOK' /\ EventStep
  BY <1>3, WithVerdictHolds
<1>4. ASSUME NEW tool \in ToolNames, WithResource(tool) PROVE EventTypeOK' /\ EventStep
  BY <1>4, AppendInPlace, AppendIntoCopy
<1>5. ASSUME NEW id \in AgentIDs, WithActor(id) PROVE EventTypeOK' /\ EventStep
  BY <1>5, WithActorHolds
<1>6. ASSUME Build PROVE EventTypeOK' /\ EventStep
  BY <1>6, BuildHolds
<1>7. ASSUME UNCHANGED eventVars PROVE EventTypeOK'
  BY <1>7 DEF eventVars, EventTypeOK, PointsIntoHeap, Labelled
<1> QED  BY <1>1, <1>2, <1>3, <1>4, <1>5, <1>6, <1>7 DEF EventNext

LEMMA EventInvariant == EventSpec => []EventTypeOK
<1>1. EventInit => EventTypeOK
  <2> SUFFICES ASSUME EventInit PROVE EventTypeOK
    OBVIOUS
  <2>1. /\ now = 0 /\ arrays = <<>> /\ actors = <<>> /\ built = <<>>
        /\ ev = [ fields |-> [f \in Fields |-> Unset], verdict |-> "", verdictID |-> 0,
                  resources |-> [array |-> nil, len |-> 0], actor |-> nil ]
    BY DEF EventInit
  <2>2. ev \in Events /\ Labelled(ev)
    BY <2>1 DEF Events, Labelled, nil
  <2>3. PointsIntoHeap(ev)
    <3>1. ev.resources.array = 0 /\ ev.resources.len = 0 /\ ev.actor = 0
      BY <2>1 DEF nil
    <3>2. Len(arrays) = 0 /\ Len(actors) = 0
      <4>1. arrays = <<>> /\ actors = <<>> /\ Len(<<>>) = 0
        BY <2>1
      <4> QED  BY <4>1
    <3>3. 0 <= MaxResources
      BY EventAssumption DEF EventAssumption
    <3> QED  BY <3>1, <3>2, <3>3 DEF PointsIntoHeap, nil
  <2>4. /\ arrays \in Seq(Seq(ToolNames \cup {Unwritten})) /\ actors \in Seq(AgentIDs)
        /\ built \in Seq([event: Events, time: Times]) /\ DOMAIN built = {}
    <3>1. arrays = <<>> /\ actors = <<>> /\ built = <<>>
      BY <2>1
    <3> HIDE DEF Unwritten
    <3>2. \A X : <<>> \in Seq(X)
      OBVIOUS
    <3>3. DOMAIN <<>> = {}
      OBVIOUS
    <3> QED  BY <3>1, <3>2, <3>3
  <2> QED  BY <2>1, <2>2, <2>3, <2>4 DEF EventTypeOK
<1> QED  BY <1>1, EventSteps, PTL DEF EventSpec

\* An event whose cells a step leaves alone reads the same after it.
LEMMA ReadsAlike ==
  ASSUME EventTypeOK, EventTypeOK', NEW e \in [event: Events, time: Times],
         PointsIntoHeap(e.event), PointsIntoHeap(e.event)', ReadsSame(e.event)
  PROVE  Seen(e)' = Seen(e)
<1> DEFINE r == e.event.resources
           Cells == ToolNames \cup {Unwritten}
<1>0. e.event \in Events /\ e.event.actor \in Nat
  BY DEF Events
<1>1. r.array # nil => SubSeq(arrays[r.array], 1, r.len) = SubSeq(arrays'[r.array], 1, r.len)
  <2> SUFFICES ASSUME r.array # nil
               PROVE  SubSeq(arrays[r.array], 1, r.len) = SubSeq(arrays'[r.array], 1, r.len)
    OBVIOUS
  <2>1. /\ r.len \in Nat /\ r.array \in 1..Len(arrays) /\ r.len <= Len(arrays[r.array])
    BY <1>0, PointsTyped
  <2>2. r.len <= Len(arrays'[r.array]) /\ r.array \in 0..Len(arrays')
    BY DEF PointsIntoHeap
  <2>3. arrays[r.array] \in Seq(Cells)
    BY <2>1, EventTyped
  <2>4. arrays'[r.array] \in Seq(Cells)
    <3>1. arrays' \in Seq(Seq(Cells))
      BY DEF EventTypeOK
    <3> HIDE DEF Cells
    <3>2. Len(arrays') \in Nat /\ r.array \in 1..Len(arrays')
      BY <2>1, <2>2, <3>1
    <3> QED  BY <3>1, <3>2
  <2>5. \A k \in 1..r.len : arrays[r.array][k] = arrays'[r.array][k]
    BY DEF ReadsSame
  <2> HIDE DEF r, Cells
  <2> QED  BY <2>1, <2>2, <2>3, <2>4, <2>5, SameFront
<1>2. e.event.actor # nil => actors'[e.event.actor] = actors[e.event.actor]
  BY DEF ReadsSame
<1> QED  BY <1>1, <1>2 DEF Seen

\* A step that leaves what the built events read leaves what is seen of them.
LEMMA SeenKept ==
  EventTypeOK /\ [EventNext]_eventVars => [IsPrefix(SeenBuilt, SeenBuilt')]_eventVars
<1> SUFFICES ASSUME EventTypeOK, [EventNext]_eventVars, ~(UNCHANGED eventVars)
             PROVE  IsPrefix(SeenBuilt, SeenBuilt')
  OBVIOUS
<1>1. EventTypeOK' /\ EventStep
  BY EventSteps
<1>2. /\ Len(built) \in Nat /\ DOMAIN built = 1..Len(built)
      /\ Len(built) <= Len(built') /\ \A i \in DOMAIN built : built'[i] = built[i]
  BY <1>1, EventTyped DEF EventStep
<1>3. Len(built') \in Nat /\ DOMAIN built' = 1..Len(built')
  <2> DEFINE X == [event: Events, time: Times]
  <2>1. built' \in Seq(X)
    BY <1>1 DEF EventTypeOK
  <2> HIDE DEF X
  <2> QED  BY <2>1
<1>4. ASSUME NEW i \in DOMAIN built PROVE SeenBuilt[i] = SeenBuilt'[i]
  <2>1. i \in DOMAIN built' /\ built'[i] = built[i]
    BY <1>2, <1>3
  <2>2. PICK e \in [event: Events, time: Times] : e = built[i]
    <3> DEFINE X == [event: Events, time: Times]
    <3>1. built \in Seq(X)
      BY DEF EventTypeOK
    <3> HIDE DEF X
    <3>2. built[i] \in X
      BY <3>1
    <3> QED  BY <3>2 DEF X
  <2>3. PointsIntoHeap(e.event) /\ ReadsSame(e.event)
    BY <1>1, <2>2 DEF EventTypeOK, EventStep
  <2>4. PointsIntoHeap(e.event)'
    <3>1. PointsIntoHeap(built[i].event)'
      BY <1>1, <2>1 DEF EventTypeOK
    <3> QED  BY <2>1, <2>2, <3>1 DEF PointsIntoHeap
  <2>5. Seen(e)' = Seen(e)
    BY <1>1, <2>3, <2>4, ReadsAlike
  <2>6. SeenBuilt[i] = Seen(e)
    BY <2>2 DEF SeenBuilt
  <2>7. SeenBuilt'[i] = Seen(e)'
    <3>1. SeenBuilt'[i] = Seen(built[i])'
      BY <2>1 DEF SeenBuilt
    <3> QED  BY <2>1, <2>2, <3>1 DEF Seen
  <2> QED  BY <2>5, <2>6, <2>7
<1> DEFINE s == SeenBuilt
           t == SeenBuilt'
           V == {s[i] : i \in DOMAIN built} \cup {t[i] : i \in DOMAIN built'}
<1>5. /\ s = [i \in 1..Len(built) |-> s[i]]
      /\ t = [i \in 1..Len(built') |-> t[i]]
  BY <1>2, <1>3 DEF SeenBuilt
<1>6. \A i \in 1..Len(built) : s[i] = t[i]
  BY <1>2, <1>4
<1> HIDE DEF s, t
<1>7. s \in [1..Len(built) -> V] /\ t \in [1..Len(built') -> V]
  BY <1>2, <1>3, <1>5
<1> HIDE DEF V
<1>8. s \in Seq(V) /\ t \in Seq(V) /\ Len(s) = Len(built) /\ Len(t) = Len(built')
  BY <1>2, <1>3, <1>7
<1>9. SubSeq(s, 1, Len(s)) = SubSeq(t, 1, Len(s))
  <2>1. /\ Len(s) \in Nat /\ Len(s) <= Len(s) /\ Len(s) <= Len(t)
        /\ \A i \in 1..Len(s) : s[i] = t[i]
    BY <1>2, <1>3, <1>6, <1>8
  <2> QED  BY <1>8, <2>1, SameFront
<1>10. IsPrefix(s, t)
  BY <1>2, <1>8, <1>9 DEF IsPrefix
<1> QED  BY <1>10 DEF s, t

\* An event that Build has returned reads the same for ever, whatever setters
\* the builder runs after it: appends in place write behind it, an append that
\* grows writes elsewhere, and WithActor never writes through the old pointer.
THEOREM BuiltEventsStay == EventSpec => BuiltEventsAreFrozen
BY EventInvariant, SeenKept, PTL DEF EventSpec, BuiltEventsAreFrozen

-----------------------------------------------------------------------------
(* The backend registry *)

\* What a blank is not.
LEMMA BlankIs ==
  /\ Blank \notin IndicatorTypes /\ Blank # "host_id" /\ Blank # "indicator"
BY Zenon DEF Blank, IndicatorTypes

LEMMA BackendSteps == BackendTypeOK /\ [BackendNext]_backendVars => BackendTypeOK'
<1> SUFFICES ASSUME BackendTypeOK, [BackendNext]_backendVars PROVE BackendTypeOK'
  OBVIOUS
<1>1. ASSUME NEW n \in BackendNames, NEW c \in BackendConfigs, Register(n, c)
      PROVE  BackendTypeOK'
  <2>1. /\ NewClientSucceeds(c) /\ UNCHANGED call
        /\ DOMAIN backends' = DOMAIN backends \cup {n}
        /\ \A b \in DOMAIN backends' : backends'[b] = IF b = n THEN c ELSE backends[b]
    BY <1>1 DEF Register, Assigned
  <2> QED  BY <2>1 DEF BackendTypeOK, CallFollowsDispatch
<1>2. ASSUME NEW n \in BackendNames, NEW c \in BackendCalls, ExecuteGet(n, c)
      PROVE  BackendTypeOK'
  BY <1>2 DEF ExecuteGet, BackendTypeOK, CallFollowsDispatch
<1>3. CASE ExecuteDispatch
  <2>1. /\ call.stage = "dispatch" /\ CallFollowsDispatch /\ UNCHANGED backends
    BY <1>3 DEF ExecuteDispatch, BackendTypeOK
  <2> DEFINE m == Dispatch(call.action, call.args)
  <2>2. CASE call.action \notin Dispatched
    <3>1. call' = Finished("unknown_action")
      BY <1>3, <2>2 DEF ExecuteDispatch
    <3> QED  BY <2>1, <2>2, <3>1 DEF Finished, BackendTypeOK, CallFollowsDispatch
  <2>3. CASE call.action \in Dispatched /\ Blank \in m.needed
    <3>1. call' = Finished("missing_argument")
      BY <1>3, <2>3 DEF ExecuteDispatch
    <3> QED  BY <2>1, <2>3, <3>1 DEF Finished, BackendTypeOK, CallFollowsDispatch
  <2>4. CASE call.action \in Dispatched /\ Blank \notin m.needed /\ m.op = Blank
    <3>1. call' = Finished("unavailable")
      BY <1>3, <2>4 DEF ExecuteDispatch
    <3>2. call' = [ action |-> call.action, args |-> call.args, op |-> call.op,
                    id |-> call.id, known |-> call.known, stage |-> "done",
                    result |-> "unavailable" ]
      BY <2>1, <3>1 DEF Finished, CallFollowsDispatch
    <3>3. Dispatch(call.action, call.args)' = m /\ call.op = Blank
      BY <2>1, <3>2 DEF CallFollowsDispatch
    <3>4. CallFollowsDispatch'
      <4>1. call'.stage = "done" /\ call'.op = Blank /\ call'.action = call.action
            /\ call'.result \notin {"unknown_action", "missing_argument"}
        BY <3>2, <3>3
      <4>2. call' = [ action |-> call'.action, args |-> call'.args, op |-> call'.op,
                      id |-> call'.id, known |-> call'.known, stage |-> call'.stage,
                      result |-> call'.result ]
        BY <3>2
      <4>3. Blank \notin Dispatch(call.action, call.args)'.needed
        BY <2>4, <3>3
      <4> HIDE DEF m
      <4> QED  BY <2>4, <4>1, <4>2, <4>3 DEF CallFollowsDispatch
    <3> QED  BY <2>1, <3>2, <3>4 DEF BackendTypeOK
  <2>5. CASE call.action \in Dispatched /\ Blank \notin m.needed /\ m.op # Blank
    <3>1. call' = [call EXCEPT !.stage = "vendor", !.op = m.op, !.id = m.id]
      BY <1>3, <2>5 DEF ExecuteDispatch
    <3>2. call' = [ action |-> call.action, args |-> call.args, op |-> m.op, id |-> m.id,
                    known |-> call.known, stage |-> "vendor", result |-> call.result ]
      <4> HIDE DEF m
      <4> QED  BY <2>1, <3>1 DEF CallFollowsDispatch
    <3>3. Dispatch(call.action, call.args)' = m
      BY <3>2
    <3> QED  BY <2>1, <2>5, <3>2, <3>3 DEF BackendTypeOK, CallFollowsDispatch
  <2> QED  BY <2>2, <2>3, <2>4, <2>5
<1>4. ASSUME NEW result, result \notin {"unknown_action", "missing_argument"},
             call.stage = "vendor", call' = Finished(result), UNCHANGED backends
      PROVE  BackendTypeOK'
  <2>1. CallFollowsDispatch
    BY <1>4 DEF BackendTypeOK
  <2> QED  BY <1>4, <2>1 DEF Finished, BackendTypeOK, CallFollowsDispatch
<1>5. CASE VendorAccepts
  BY <1>4, <1>5 DEF VendorAccepts
<1>6. ASSUME NEW text \in ErrorTexts, VendorRefuses(text) PROVE BackendTypeOK'
  <2>1. mapSDKError(text) \notin {"unknown_action", "missing_argument"}
    BY DEF mapSDKError
  <2> QED  BY <1>4, <1>6, <2>1 DEF VendorRefuses
<1>7. CASE ExecuteReturns
  BY <1>7 DEF ExecuteReturns, BackendTypeOK
<1>8. CASE UNCHANGED backendVars
  BY <1>8 DEF backendVars, BackendTypeOK, CallFollowsDispatch
<1> QED  BY <1>1, <1>2, <1>3, <1>5, <1>6, <1>7, <1>8 DEF BackendNext

LEMMA BackendInvariant == BackendSpec => []BackendTypeOK
<1>1. BackendInit => BackendTypeOK
  BY DEF BackendInit, BackendTypeOK
<1> QED  BY <1>1, BackendSteps, PTL DEF BackendSpec

\* What each entry of the starter catalog requires and designates.
LEMMA StarterIs ==
  /\ DOMAIN Starter = StarterNames
  /\ Starter["isolate_endpoint"].schema.required = {"host_id"}
  /\ Starter["isolate_endpoint"].primary = "host_id"
  /\ Starter["block_user_account"].schema.required = {"user_id"}
  /\ Starter["rotate_api_key"].schema.required = {"key_id"}
  /\ Starter["submit_edr_query"].schema.required = {"query"}
  /\ Starter["submit_edr_query"].primary = Blank
  /\ Starter["enrich_ioc"].schema.required = {"indicator", "indicator_type"}
  /\ Starter["enrich_ioc"].primary = "indicator"
  /\ \A n \in StarterNames :
       Starter[n].schema.nonEmpty = Starter[n].schema.required \ {"indicator_type"}
<1>1. /\ DOMAIN Starter = StarterNames
      /\ Starter["isolate_endpoint"] = starter(5, 5, {"host_id"}, {"comment"}, "host_id")
      /\ Starter["block_user_account"] = starter(4, 4, {"user_id"}, {"comment"}, "user_id")
      /\ Starter["rotate_api_key"] = starter(3, 3, {"key_id"}, {"reason"}, "key_id")
      /\ Starter["submit_edr_query"] = starter(1, 2, {"query"}, {"host_id", "time_range"}, Blank)
      /\ Starter["enrich_ioc"] =
           starter(1, 2, {"indicator", "indicator_type"}, {}, "indicator")
  BY DEF Starter, StarterNames
<1>2. \A n \in StarterNames :
        Starter[n].schema.nonEmpty = Starter[n].schema.required \ {"indicator_type"}
  <2> DEFINE Strings(n) ==
               Starter[n].schema.nonEmpty = Starter[n].schema.required \ {"indicator_type"}
  <2>1. Strings("isolate_endpoint")
    BY <1>1 DEF starter
  <2>2. Strings("block_user_account")
    BY <1>1 DEF starter
  <2>3. Strings("rotate_api_key")
    BY <1>1 DEF starter
  <2>4. Strings("submit_edr_query")
    BY <1>1 DEF starter
  <2>5. Strings("enrich_ioc")
    BY <1>1 DEF starter
  <2> HIDE DEF Strings
  <2>6. \A n \in StarterNames : Strings(n)
    BY <2>1, <2>2, <2>3, <2>4, <2>5 DEF StarterNames
  <2> QED  BY <2>6 DEF Strings
<1>3. /\ Starter["isolate_endpoint"].schema.required = {"host_id"}
      /\ Starter["isolate_endpoint"].primary = "host_id"
  BY <1>1 DEF starter
<1>4. Starter["block_user_account"].schema.required = {"user_id"}
  BY <1>1 DEF starter
<1>5. Starter["rotate_api_key"].schema.required = {"key_id"}
  BY <1>1 DEF starter
<1>6. /\ Starter["submit_edr_query"].schema.required = {"query"}
      /\ Starter["submit_edr_query"].primary = Blank
  BY <1>1 DEF starter
<1>7. /\ Starter["enrich_ioc"].schema.required = {"indicator", "indicator_type"}
      /\ Starter["enrich_ioc"].primary = "indicator"
  BY <1>1 DEF starter
<1> QED  BY <1>1, <1>2, <1>3, <1>4, <1>5, <1>6, <1>7

\* What Execute does with each starter action.
LEMMA DispatchIs ==
  ASSUME NEW args
  PROVE  /\ LET m == Dispatch("isolate_endpoint", args)
            IN  m.needed = {stringArg(args, "host_id")} /\ m.id = stringArg(args, "host_id")
         /\ LET m == Dispatch("block_user_account", args)
            IN  m.needed = {stringArg(args, "user_id")} /\ m.op = Blank
         /\ LET m == Dispatch("rotate_api_key", args)
            IN  m.needed = {stringArg(args, "key_id")} /\ m.op = Blank
         /\ Dispatch("submit_edr_query", args).needed = {stringArg(args, "query")}
         /\ LET m == Dispatch("enrich_ioc", args)
            IN  /\ m.needed = {stringArg(args, "indicator"), stringArg(args, "indicator_type")}
                /\ m.id = stringArg(args, "indicator")
BY DEF Dispatch, SubmitEDRQuery, method

\* The entries of the starter catalog that a validated call may name, each with
\* what its schema makes sure of and what Execute does with it.
LEMMA ValidatedStarter ==
  ASSUME NEW action, NEW args, Validate(Starter, action, args) = "ok"
  PROVE  /\ action \in Dispatched
         /\ Blank \notin Dispatch(action, args).needed
         /\ Starter[action].primary # Blank /\ Dispatch(action, args).op # Blank =>
              LET target == extractTarget(Starter[action], args)
              IN  target # Blank /\ Dispatch(action, args).id = target
<1> DEFINE required == Starter[action].schema.required
<1>1. action \in StarterNames /\ accepts(Starter[action].schema, args)
  BY StarterIs DEF Validate
<1>2. action \in Dispatched
  BY <1>1, StarterIs DEF Dispatched
<1>3. ASSUME NEW k \in required
      PROVE  k \in DOMAIN args /\ args[k] # NonString /\ args[k] # Blank /\ stringArg(args, k) = args[k]
  <2>1. k \in DOMAIN args /\ args[k] # NonString
    BY <1>1 DEF accepts
  <2>2. k = "indicator_type" => args[k] \in IndicatorTypes
    BY <1>1, <2>1 DEF accepts
  <2>3. k # "indicator_type" => args[k] # Blank
    <3>1. k # "indicator_type" => k \in Starter[action].schema.nonEmpty
      <4>1. Starter[action].schema.nonEmpty = required \ {"indicator_type"}
        BY <1>1, StarterIs
      <4> QED  BY <1>3, <4>1
    <3> QED  BY <1>1, <2>1, <3>1 DEF accepts
  <2>4. Blank \notin IndicatorTypes
    BY BlankIs
  <2> QED  BY <2>1, <2>2, <2>3, <2>4 DEF stringArg
<1>4. ASSUME NEW k \in required, Starter[action].primary = k, k # Blank
      PROVE  extractTarget(Starter[action], args) = args[k]
  BY <1>3, <1>4 DEF extractTarget
<1>5. CASE action = "isolate_endpoint"
  <2>1. "host_id" \in required /\ Starter[action].primary = "host_id"
    BY <1>5, StarterIs
  <2>2. Dispatch(action, args).needed = {stringArg(args, "host_id")}
        /\ Dispatch(action, args).id = stringArg(args, "host_id")
    BY <1>5, DispatchIs
  <2> HIDE DEF required
  <2>3. stringArg(args, "host_id") # Blank /\ extractTarget(Starter[action], args) = stringArg(args, "host_id")
    BY <1>3, <1>4, <2>1, BlankIs
  <2> QED  BY <1>2, <2>2, <2>3
<1>6. CASE action = "block_user_account"
  <2>1. "user_id" \in required
    BY <1>6, StarterIs
  <2>2. Dispatch(action, args).needed = {stringArg(args, "user_id")} /\ Dispatch(action, args).op = Blank
    BY <1>6, DispatchIs
  <2> QED  BY <1>2, <1>3, <2>1, <2>2
<1>7. CASE action = "rotate_api_key"
  <2>1. "key_id" \in required
    BY <1>7, StarterIs
  <2>2. Dispatch(action, args).needed = {stringArg(args, "key_id")} /\ Dispatch(action, args).op = Blank
    BY <1>7, DispatchIs
  <2> QED  BY <1>2, <1>3, <2>1, <2>2
<1>8. CASE action = "submit_edr_query"
  <2>1. "query" \in required /\ Starter[action].primary = Blank
    BY <1>8, StarterIs
  <2>2. Dispatch(action, args).needed = {stringArg(args, "query")}
    BY <1>8, DispatchIs
  <2> QED  BY <1>2, <1>3, <2>1, <2>2
<1>9. CASE action = "enrich_ioc"
  <2>1. {"indicator", "indicator_type"} \subseteq required /\ Starter[action].primary = "indicator"
    BY <1>9, StarterIs
  <2>2. Dispatch(action, args).needed =
          {stringArg(args, "indicator"), stringArg(args, "indicator_type")}
        /\ Dispatch(action, args).id = stringArg(args, "indicator")
    BY <1>9, DispatchIs
  <2> HIDE DEF required
  <2>3. /\ stringArg(args, "indicator") # Blank /\ stringArg(args, "indicator_type") # Blank
        /\ extractTarget(Starter[action], args) = stringArg(args, "indicator")
    BY <1>3, <1>4, <2>1, BlankIs
  <2> QED  BY <1>2, <2>2, <2>3
<1> QED  BY <1>1, <1>5, <1>6, <1>7, <1>8, <1>9 DEF StarterNames

\* A call the schema of a starter action accepts is one Execute knows, with no
\* argument missing, and the vendor is asked to act upon the very target the
\* policy decided about (starter.go, intercept.go and registry.go agree).
THEOREM ValidatedCallsDispatch == BackendSpec => []ValidatedCallsComplete
<1>1. BackendTypeOK => ValidatedCallsComplete
  <2> SUFFICES ASSUME BackendTypeOK, call.stage \in {"vendor", "done"}, call.known,
                      Validate(Starter, call.action, call.args) = "ok"
               PROVE  ValidatedCallsComplete
    BY DEF ValidatedCallsComplete
  <2>1. CallFollowsDispatch
    BY DEF BackendTypeOK
  <2> DEFINE m == Dispatch(call.action, call.args)
             target == extractTarget(Starter[call.action], call.args)
  <2>2. /\ call.action \in Dispatched /\ Blank \notin m.needed
        /\ Starter[call.action].primary # Blank /\ m.op # Blank => target # Blank /\ m.id = target
    BY ValidatedStarter
  <2> HIDE DEF m, target
  <2>3. /\ call.op = Blank \/ (call.op = m.op /\ call.id = m.id)
        /\ call.stage = "done" => call.result \notin {"unknown_action", "missing_argument"}
    BY <2>1, <2>2 DEF CallFollowsDispatch, m
  <2>4. call.stage = "done" => call.result \notin {"unknown_action", "missing_argument"}
    BY <2>3
  <2>5. call.op # Blank /\ Starter[call.action].primary # Blank => target # Blank /\ call.id = target
    BY <2>2, <2>3
  <2> QED  BY <2>4, <2>5 DEF ValidatedCallsComplete, target
<1> QED  BY <1>1, BackendInvariant, PTL

-----------------------------------------------------------------------------
(* The catalog: parsing a document, and inserting what was parsed *)

\* The loop of parseCustomYAML, up to the n-th declaration.
IsParseOf(g, start, decls, n) ==
  /\ g = [i \in 0..n |-> g[i]]
  /\ g[0] = start
  /\ \A i \in 1..n : g[i] = decodeSingle(g[i - 1], decls[i])

LEMMA ParseExists ==
  ASSUME NEW start, NEW decls, NEW n \in Nat
  PROVE  \E g : IsParseOf(g, start, decls, n)
<1> DEFINE V == {i \in 1..n : \E g : IsParseOf(g, start, decls, i)}
<1>0. IsParseOf([i \in 0..0 |-> start], start, decls, 0)
  BY DEF IsParseOf
<1>1. ASSUME NEW i \in 1..n, \A j \in 1..n : j < i => j \in V PROVE i \in V
  <2>1. PICK g : IsParseOf(g, start, decls, i - 1)
    <3>1. CASE i = 1
      BY <1>0, <3>1
    <3>2. CASE i # 1
      <4>1. i - 1 \in V
        BY <1>1, <3>2
      <4> QED  BY <4>1
    <3> QED  BY <3>1, <3>2
  <2> DEFINE h == [k \in 0..i |-> IF k < i THEN g[k] ELSE decodeSingle(g[i - 1], decls[i])]
  <2>2. IsParseOf(h, start, decls, i)
    <3>1. h = [k \in 0..i |-> h[k]] /\ h[0] = start
      BY <2>1 DEF IsParseOf
    <3>2. ASSUME NEW k \in 1..i PROVE h[k] = decodeSingle(h[k - 1], decls[k])
      <4>1. k - 1 \in 0..i /\ k - 1 < i /\ k \in 0..i
        OBVIOUS
      <4>2. h[k - 1] = g[k - 1]
        BY <4>1
      <4>3. CASE k = i
        BY <4>1, <4>2, <4>3
      <4>4. CASE k < i
        <5>1. k \in 1..(i - 1) /\ h[k] = g[k]
          BY <4>1, <4>4
        <5> QED  BY <2>1, <4>2, <5>1 DEF IsParseOf
      <4> QED  BY <4>3, <4>4
    <3> HIDE DEF h
    <3> QED  BY <3>1, <3>2 DEF IsParseOf
  <2> QED  BY <2>2
<1>2. V = 1..n
  <2> HIDE DEF V
  <2>1. V \in SUBSET (1..n)
    BY DEF V
  <2> QED  BY <1>1, <2>1, UpTo
<1> QED  BY <1>0, <1>2

\* What parseCustomYAML returns is the last of them.
LEMMA ParseIsLast ==
  ASSUME NEW start, NEW decls, Len(decls) \in Nat
  PROVE  \E g : /\ IsParseOf(g, start, decls, Len(decls))
                /\ decodeAll(start, decls) = g[Len(decls)]
<1> DEFINE n == Len(decls)
           decoded[i \in 0..n] == IF i = 0 THEN start ELSE decodeSingle(decoded[i - 1], decls[i])
<1>1. decodeAll(start, decls) = decoded[n]
  BY DEF decodeAll
<1>2. PICK g : IsParseOf(g, start, decls, n)
  BY ParseExists
<1>3. g = [i \in 0..n |-> IF i = 0 THEN start ELSE decodeSingle(g[i - 1], decls[i])]
  <2>1. \A i \in 0..n : g[i] = IF i = 0 THEN start ELSE decodeSingle(g[i - 1], decls[i])
    <3> SUFFICES ASSUME NEW i \in 0..n
                 PROVE  g[i] = IF i = 0 THEN start ELSE decodeSingle(g[i - 1], decls[i])
      OBVIOUS
    <3>1. i = 0 \/ i \in 1..n
      OBVIOUS
    <3> QED  BY <1>2, <3>1 DEF IsParseOf
  <2>2. g = [i \in 0..n |-> g[i]]
    BY <1>2 DEF IsParseOf
  <2> HIDE DEF n
  <2> QED  BY <2>1, <2>2
<1>4. decoded = [i \in 0..n |-> IF i = 0 THEN start ELSE decodeSingle(decoded[i - 1], decls[i])]
  BY <1>3
<1>5. IsParseOf(decoded, start, decls, n)
  <2> HIDE DEF decoded
  <2>1. decoded = [i \in 0..n |-> decoded[i]]
    BY <1>4
  <2>2. decoded[0] = start
    BY <1>4
  <2>3. \A i \in 1..n : decoded[i] = decodeSingle(decoded[i - 1], decls[i])
    BY <1>4
  <2> QED  BY <2>1, <2>2, <2>3 DEF IsParseOf
<1> QED  BY <1>1, <1>5

ParsedAs(d) == [name |-> d.name, action |-> Decoded(d)]
ParsedOf(decls, n) == [k \in 1..n |-> ParsedAs(decls[k])]

\* A declaration that decodes is sound, and the action carries its schema,
\* whatever the compiler had under its URL before.
LEMMA DecodeStep ==
  ASSUME NEW d \in Declarations, NEW s, ~decodeSingle(s, d).failed
  PROVE  /\ ~s.failed /\ Sound(d) /\ ActionValid(d.name, Decoded(d))
         /\ decodeSingle(s, d).parsed = Append(s.parsed, ParsedAs(d))
<1> DEFINE url == schemaURL("custom/" \o d.name)
           registered == IF d.text \in {"uncompilable", "sound"}
                         THEN registerSchema(s.resources, d.name, d.schema)
                         ELSE s.resources
           a == IF d.text = "sound" THEN [Decoded(d) EXCEPT !.schema = registered[url]]
                                    ELSE Decoded(d)
<1>1. ~s.failed
  BY DEF decodeSingle
<1>2. decodeSingle(s, d) = [ failed    |-> d.text # "sound" \/ ~ActionValid(d.name, a),
                             parsed    |-> Append(s.parsed, [name |-> d.name, action |-> a]),
                             resources |-> registered ]
  BY <1>1 DEF decodeSingle
<1>3. d.text = "sound" /\ ActionValid(d.name, a)
  <2> DEFINE bad == d.text # "sound" \/ ~ActionValid(d.name, a)
  <2> HIDE DEF a, registered
  <2>1. bad \in BOOLEAN
    OBVIOUS
  <2>2. decodeSingle(s, d) = [ failed    |-> bad,
                               parsed    |-> Append(s.parsed, [name |-> d.name, action |-> a]),
                               resources |-> registered ]
    BY <1>2
  <2> HIDE DEF bad
  <2>3. ~bad
    BY <2>1, <2>2
  <2> QED  BY <2>3, Zenon DEF bad
<1>4. a = Decoded(d)
  <2>1. registered = Assigned(s.resources, url, d.schema)
    BY <1>3 DEF registerSchema
  <2>2. registered[url] = d.schema
    <3> HIDE DEF url, registered
    <3> QED  BY <2>1 DEF Assigned
  <2>3. a = [Decoded(d) EXCEPT !.schema = registered[url]]
    BY <1>3
  <2> HIDE DEF url, registered, a
  <2> QED  BY <2>2, <2>3 DEF Decoded
<1> HIDE DEF a, registered, url
<1>5. Sound(d)
  BY <1>3, <1>4 DEF Sound, ActionValid, Decoded, validSeverity
<1> QED  BY <1>1, <1>2, <1>3, <1>4, <1>5 DEF ParsedAs

LEMMA ParsedGrows ==
  ASSUME NEW decls \in Seq(Declarations), NEW i \in 1..Len(decls)
  PROVE  Append(ParsedOf(decls, i - 1), ParsedAs(decls[i])) = ParsedOf(decls, i)
<1> DEFINE S == {ParsedAs(d) : d \in Declarations}
           s == ParsedOf(decls, i - 1)
           e == ParsedAs(decls[i])
<1>1. \A k \in 1..i : decls[k] \in Declarations
  OBVIOUS
<1>2. i - 1 \in Nat /\ s = [k \in 1..(i - 1) |-> ParsedAs(decls[k])]
      /\ \A k \in 1..(i - 1) : ParsedAs(decls[k]) \in S
  <2>1. \A k \in 1..(i - 1) : k \in 1..i
    OBVIOUS
  <2> QED  BY <1>1, <2>1 DEF ParsedOf
<1> HIDE DEF S, s, e
<1>3. s \in Seq(S) /\ Len(s) = i - 1 /\ \A k \in 1..(i - 1) : s[k] = ParsedAs(decls[k])
  <2>1. s \in [1..(i - 1) -> S]
    BY <1>2
  <2>2. ASSUME NEW T, NEW m \in Nat, NEW f \in [1..m -> T] PROVE f \in Seq(T) /\ Len(f) = m
    OBVIOUS
  <2> QED  BY <1>2, <2>1, <2>2
<1>4. Append(s, e) = [k \in 1..(Len(s) + 1) |-> IF k <= Len(s) THEN s[k] ELSE e]
  <2>1. e \in S
    BY <1>1 DEF e, S
  <2>2. ASSUME NEW T, NEW q \in Seq(T), NEW x \in T
        PROVE  Append(q, x) = [k \in 1..(Len(q) + 1) |-> IF k <= Len(q) THEN q[k] ELSE x]
    <3>1. Append(q, x) \in Seq(T) /\ Len(Append(q, x)) = Len(q) + 1 /\ Len(q) \in Nat
      OBVIOUS
    <3>2. \A k \in 1..(Len(q) + 1) : Append(q, x)[k] = IF k <= Len(q) THEN q[k] ELSE x
      OBVIOUS
    <3>3. Append(q, x) = [k \in 1..(Len(q) + 1) |-> Append(q, x)[k]]
      <4>1. ASSUME NEW f \in Seq(T) PROVE f = [k \in 1..Len(f) |-> f[k]]
        OBVIOUS
      <4> QED  BY <3>1, <4>1
    <3> QED  BY <3>2, <3>3
  <2> QED  BY <1>3, <2>1, <2>2
<1>5. ParsedOf(decls, i) = [k \in 1..i |-> ParsedAs(decls[k])]
  BY DEF ParsedOf
<1>6. \A k \in 1..i : (IF k <= Len(s) THEN s[k] ELSE e) = ParsedAs(decls[k])
  <2> SUFFICES ASSUME NEW k \in 1..i
               PROVE  (IF k <= Len(s) THEN s[k] ELSE e) = ParsedAs(decls[k])
    OBVIOUS
  <2>1. k \in 1..(i - 1) \/ k = i
    OBVIOUS
  <2> QED  BY <1>3, <2>1 DEF e
<1>7. Len(s) + 1 = i
  BY <1>3
<1> QED  BY <1>4, <1>5, <1>6, <1>7 DEF s, e

\* A document that parses is one of sound declarations only, each parsed as
\* written but for its primary argument.
LEMMA ParseIs ==
  ASSUME NEW doc \in Documents, ~parseCustomYAML(doc).failed
  PROVE  /\ doc.decls \in Seq(Declarations) /\ Len(doc.decls) # 0
         /\ parseCustomYAML(doc).parsed = ParsedOf(doc.decls, Len(doc.decls))
         /\ \A k \in 1..Len(doc.decls) :
              /\ Sound(doc.decls[k])
              /\ ActionValid(doc.decls[k].name, Decoded(doc.decls[k]))
<1> DEFINE decls == doc.decls
           n == Len(decls)
           start == [failed |-> FALSE, parsed |-> <<>>, resources |-> resources]
<1>1. decls \in Seq(Declarations)
  BY DocumentAssumption DEF DocumentAssumption
<1>2. decls # <<>> /\ parseCustomYAML(doc) = decodeAll(start, decls)
  BY DEF parseCustomYAML
<1>3. n \in Nat /\ n # 0 /\ \A i \in 1..n : decls[i] \in Declarations
  BY <1>1, <1>2
<1>4. PICK g : IsParseOf(g, start, decls, n) /\ decodeAll(start, decls) = g[n]
  BY <1>3, ParseIsLast
<1>5. ~g[n].failed
  BY <1>2, <1>4
<1> DEFINE Good(i) == /\ g[i].parsed = ParsedOf(decls, i)
                      /\ \A k \in 1..i : /\ Sound(decls[k])
                                         /\ ActionValid(decls[k].name, Decoded(decls[k]))
           V == {i \in 1..n : ~g[i].failed => Good(i)}
<1>6. ASSUME NEW i \in 1..n, \A j \in 1..n : j < i => j \in V PROVE i \in V
  <2> SUFFICES ASSUME ~g[i].failed PROVE Good(i)
    OBVIOUS
  <2>1. g[i] = decodeSingle(g[i - 1], decls[i])
    BY <1>4 DEF IsParseOf
  <2>2. /\ ~g[i - 1].failed /\ Sound(decls[i]) /\ ActionValid(decls[i].name, Decoded(decls[i]))
        /\ g[i].parsed = Append(g[i - 1].parsed, ParsedAs(decls[i]))
    BY <1>3, <2>1, DecodeStep
  <2>3. Good(i - 1)
    <3>1. CASE i = 1
      <4>1. g[0].parsed = <<>>
        BY <1>4 DEF IsParseOf
      <4>2. ParsedOf(decls, 0) = <<>>
        BY DEF ParsedOf
      <4> QED  BY <3>1, <4>1, <4>2
    <3>2. CASE i # 1
      <4>1. i - 1 \in V
        BY <1>6, <3>2
      <4> QED  BY <2>2, <4>1
    <3> QED  BY <3>1, <3>2
  <2>4. g[i].parsed = ParsedOf(decls, i)
    BY <1>1, <2>2, <2>3, ParsedGrows
  <2>5. \A k \in 1..i : k = i \/ k \in 1..(i - 1)
    OBVIOUS
  <2> QED  BY <2>2, <2>3, <2>4, <2>5
<1>7. V = 1..n
  <2> HIDE DEF V, n
  <2>1. V \in SUBSET (1..n)
    BY DEF V
  <2> QED  BY <1>3, <1>6, <2>1, UpTo
<1>8. Good(n)
  <2>1. n \in V
    BY <1>3, <1>7
  <2> QED  BY <1>5, <2>1
<1> QED  BY <1>1, <1>2, <1>3, <1>4, <1>8

\* The loop of LoadCustomBytes, up to the n-th of what was parsed.
IsInsertionOf(g, start, parsed, n) ==
  /\ g = [i \in 0..n |-> g[i]]
  /\ g[0] = start
  /\ \A i \in 1..n : g[i] = addValidated(g[i - 1], parsed[i])

LEMMA InsertionExists ==
  ASSUME NEW start, NEW parsed, NEW n \in Nat
  PROVE  \E g : IsInsertionOf(g, start, parsed, n)
<1> DEFINE V == {i \in 1..n : \E g : IsInsertionOf(g, start, parsed, i)}
<1>0. IsInsertionOf([i \in 0..0 |-> start], start, parsed, 0)
  BY DEF IsInsertionOf
<1>1. ASSUME NEW i \in 1..n, \A j \in 1..n : j < i => j \in V PROVE i \in V
  <2>1. PICK g : IsInsertionOf(g, start, parsed, i - 1)
    <3>1. CASE i = 1
      BY <1>0, <3>1
    <3>2. CASE i # 1
      <4>1. i - 1 \in V
        BY <1>1, <3>2
      <4> QED  BY <4>1
    <3> QED  BY <3>1, <3>2
  <2> DEFINE h == [k \in 0..i |-> IF k < i THEN g[k] ELSE addValidated(g[i - 1], parsed[i])]
  <2>2. IsInsertionOf(h, start, parsed, i)
    <3>1. h = [k \in 0..i |-> h[k]] /\ h[0] = start
      BY <2>1 DEF IsInsertionOf
    <3>2. ASSUME NEW k \in 1..i PROVE h[k] = addValidated(h[k - 1], parsed[k])
      <4>1. k - 1 \in 0..i /\ k - 1 < i /\ k \in 0..i
        OBVIOUS
      <4>2. h[k - 1] = g[k - 1]
        BY <4>1
      <4>3. CASE k = i
        BY <4>1, <4>2, <4>3
      <4>4. CASE k < i
        <5>1. k \in 1..(i - 1) /\ h[k] = g[k]
          BY <4>1, <4>4
        <5> QED  BY <2>1, <4>2, <5>1 DEF IsInsertionOf
      <4> QED  BY <4>3, <4>4
    <3> HIDE DEF h
    <3> QED  BY <3>1, <3>2 DEF IsInsertionOf
  <2> QED  BY <2>2
<1>2. V = 1..n
  <2> HIDE DEF V
  <2>1. V \in SUBSET (1..n)
    BY DEF V
  <2> QED  BY <1>1, <2>1, UpTo
<1> QED  BY <1>0, <1>2

\* What the load returns is the last of them.
LEMMA InsertionIsLast ==
  ASSUME NEW start, NEW parsed, Len(parsed) \in Nat
  PROVE  \E g : /\ IsInsertionOf(g, start, parsed, Len(parsed))
                /\ addAll(start, parsed) = g[Len(parsed)]
<1> DEFINE n == Len(parsed)
           added[i \in 0..n] == IF i = 0 THEN start ELSE addValidated(added[i - 1], parsed[i])
<1>1. addAll(start, parsed) = added[n]
  BY DEF addAll
<1>2. PICK g : IsInsertionOf(g, start, parsed, n)
  BY InsertionExists
<1>3. g = [i \in 0..n |-> IF i = 0 THEN start ELSE addValidated(g[i - 1], parsed[i])]
  <2>1. \A i \in 0..n : g[i] = IF i = 0 THEN start ELSE addValidated(g[i - 1], parsed[i])
    <3> SUFFICES ASSUME NEW i \in 0..n
                 PROVE  g[i] = IF i = 0 THEN start ELSE addValidated(g[i - 1], parsed[i])
      OBVIOUS
    <3>1. i = 0 \/ i \in 1..n
      OBVIOUS
    <3> QED  BY <1>2, <3>1 DEF IsInsertionOf
  <2>2. g = [i \in 0..n |-> g[i]]
    BY <1>2 DEF IsInsertionOf
  <2> HIDE DEF n
  <2> QED  BY <2>1, <2>2
<1>4. added = [i \in 0..n |-> IF i = 0 THEN start ELSE addValidated(added[i - 1], parsed[i])]
  BY <1>3
<1>5. IsInsertionOf(added, start, parsed, n)
  <2> HIDE DEF added
  <2>1. added = [i \in 0..n |-> added[i]]
    BY <1>4
  <2>2. added[0] = start
    BY <1>4
  <2>3. \A i \in 1..n : added[i] = addValidated(added[i - 1], parsed[i])
    BY <1>4
  <2> QED  BY <2>1, <2>2, <2>3 DEF IsInsertionOf
<1> QED  BY <1>1, <1>5

NamesUpTo(decls, k) == {decls[i].name : i \in 1..k}

\* After i declarations the first j of them stand in the map acts became, and
\* the insertion stopped there, or it is not done with them.
InsertedTo(acts, s, decls, i, j) ==
  /\ NamesUpTo(decls, j) \cap DOMAIN acts = {}
  /\ DOMAIN s.actions = DOMAIN acts \cup NamesUpTo(decls, j)
  /\ \A n \in DOMAIN acts : s.actions[n] = acts[n]
  /\ \A n \in NamesUpTo(decls, j) :
       \E k \in 1..j : decls[k].name = n /\ s.actions[n] = Decoded(decls[k])
  /\ \/ s.result = "ok" /\ j = i
     \/ s.result = "exists" /\ j < i /\ decls[j + 1].name \in DOMAIN acts \cup NamesUpTo(decls, j)

LEMMA InsertionStep ==
  ASSUME NEW acts, NEW decls \in Seq(Declarations), NEW i \in 1..Len(decls),
         NEW s, DOMAIN s = {"actions", "result"}, s = [x \in {"actions", "result"} |-> s[x]],
         NEW j \in 0..(i - 1), InsertedTo(acts, s, decls, i - 1, j),
         ActionValid(decls[i].name, Decoded(decls[i])),
         NEW t, t = addValidated(s, ParsedAs(decls[i]))
  PROVE  /\ DOMAIN t = {"actions", "result"} /\ t = [x \in {"actions", "result"} |-> t[x]]
         /\ \E k \in 0..i : InsertedTo(acts, t, decls, i, k)
<1> DEFINE nm == decls[i].name
           p == ParsedAs(decls[i])
<1>0. p.name = nm /\ p.action = Decoded(decls[i])
  BY DEF ParsedAs
<1>1. CASE s.result # "ok"
  <2>1. t = s
    BY <1>1 DEF addValidated
  <2>2. j \in 0..i /\ s.result = "exists" /\ j < i
    BY <1>1 DEF InsertedTo
  <2>3. InsertedTo(acts, s, decls, i, j)
    BY <2>2 DEF InsertedTo
  <2> QED  BY <2>1, <2>2, <2>3
<1>2. CASE s.result = "ok" /\ nm \in DOMAIN s.actions
  <2>1. t = [s EXCEPT !.result = "exists"]
    BY <1>0, <1>2 DEF addValidated
  <2>2. /\ DOMAIN t = {"actions", "result"} /\ t = [x \in {"actions", "result"} |-> t[x]]
        /\ t.actions = s.actions /\ t.result = "exists"
    BY <2>1
  <2>3. j = i - 1 /\ j \in 0..i /\ j < i /\ j + 1 = i
    BY <1>2 DEF InsertedTo
  <2>4. InsertedTo(acts, t, decls, i, j)
    <3>1. decls[j + 1].name \in DOMAIN acts \cup NamesUpTo(decls, j)
      BY <1>2, <2>3 DEF InsertedTo
    <3>2. /\ NamesUpTo(decls, j) \cap DOMAIN acts = {}
          /\ DOMAIN t.actions = DOMAIN acts \cup NamesUpTo(decls, j)
          /\ \A n \in DOMAIN acts : t.actions[n] = acts[n]
          /\ \A n \in NamesUpTo(decls, j) :
               \E k \in 1..j : decls[k].name = n /\ t.actions[n] = Decoded(decls[k])
      <4>1. /\ NamesUpTo(decls, j) \cap DOMAIN acts = {}
            /\ DOMAIN s.actions = DOMAIN acts \cup NamesUpTo(decls, j)
            /\ \A n \in DOMAIN acts : s.actions[n] = acts[n]
            /\ \A n \in NamesUpTo(decls, j) :
                 \E k \in 1..j : decls[k].name = n /\ s.actions[n] = Decoded(decls[k])
        BY DEF InsertedTo
      <4>2. t.actions = s.actions
        BY <2>2
      <4> DEFINE m == t.actions
      <4>3. m = s.actions
        BY <4>2
      <4> HIDE DEF m
      <4>4. \A n \in NamesUpTo(decls, j) :
              \E k \in 1..j : decls[k].name = n /\ m[n] = Decoded(decls[k])
        BY <4>1, <4>3
      <4>5. /\ NamesUpTo(decls, j) \cap DOMAIN acts = {}
            /\ DOMAIN m = DOMAIN acts \cup NamesUpTo(decls, j)
            /\ \A n \in DOMAIN acts : m[n] = acts[n]
        BY <4>1, <4>3
      <4> QED  BY <4>4, <4>5 DEF m
    <3> QED  BY <2>2, <2>3, <3>1, <3>2 DEF InsertedTo
  <2> QED  BY <2>2, <2>3, <2>4
<1>3. CASE s.result = "ok" /\ nm \notin DOMAIN s.actions
  <2>1. t = [s EXCEPT !.actions = Assigned(@, nm, Decoded(decls[i]))]
    BY <1>0, <1>3 DEF addValidated
  <2>2. /\ DOMAIN t = {"actions", "result"} /\ t = [x \in {"actions", "result"} |-> t[x]]
        /\ t.actions = Assigned(s.actions, nm, Decoded(decls[i])) /\ t.result = "ok"
    BY <1>3, <2>1
  <2>3. /\ DOMAIN t.actions = DOMAIN s.actions \cup {nm}
        /\ t.actions[nm] = Decoded(decls[i])
        /\ \A n \in DOMAIN s.actions : t.actions[n] = s.actions[n]
    BY <1>3, <2>2 DEF Assigned
  <2>4. j = i - 1
    BY <1>3 DEF InsertedTo
  <2>5. NamesUpTo(decls, i) = NamesUpTo(decls, j) \cup {nm}
    <3>1. \A k : k \in 1..i <=> k \in 1..j \/ k = i
      BY <2>4
    <3> QED  BY <3>1 DEF NamesUpTo
  <2>6. i \in 0..i /\ \A k \in 1..j : k \in 1..i
    BY <2>4
  <2>7. \A n \in NamesUpTo(decls, i) :
          \E k \in 1..i : decls[k].name = n /\ t.actions[n] = Decoded(decls[k])
    <3> SUFFICES ASSUME NEW n \in NamesUpTo(decls, i)
                 PROVE  \E k \in 1..i : decls[k].name = n /\ t.actions[n] = Decoded(decls[k])
      OBVIOUS
    <3>1. CASE n = nm
      <4>1. i \in 1..i
        OBVIOUS
      <4> QED  BY <2>3, <3>1, <4>1
    <3>2. CASE n # nm
      <4>1. n \in NamesUpTo(decls, j)
        BY <2>5, <3>2
      <4>2. PICK k \in 1..j : decls[k].name = n /\ s.actions[n] = Decoded(decls[k])
        BY <4>1 DEF InsertedTo
      <4>3. n \in DOMAIN s.actions
        BY <4>1 DEF InsertedTo
      <4> QED  BY <2>3, <2>6, <4>2, <4>3
    <3> QED  BY <3>1, <3>2
  <2>8. InsertedTo(acts, t, decls, i, i)
    <3>1. nm \notin DOMAIN acts
      BY <1>3 DEF InsertedTo
    <3>2. \A n \in DOMAIN acts : n \in DOMAIN s.actions /\ s.actions[n] = acts[n]
      BY DEF InsertedTo
    <3>3. /\ NamesUpTo(decls, j) \cap DOMAIN acts = {}
          /\ DOMAIN s.actions = DOMAIN acts \cup NamesUpTo(decls, j)
      BY DEF InsertedTo
    <3> QED  BY <2>2, <2>3, <2>5, <2>7, <3>1, <3>2, <3>3 DEF InsertedTo
  <2> QED  BY <2>2, <2>6, <2>8
<1> QED  BY <1>1, <1>2, <1>3
\* A load that gets past parsing has inserted the first k of its declarations.
Inserted(decls, t, k) ==
  /\ decls \in Seq(Declarations) /\ Len(decls) # 0 /\ k \in 0..Len(decls)
  /\ \A i \in 1..Len(decls) : Sound(decls[i]) /\ ActionValid(decls[i].name, Decoded(decls[i]))
  /\ InsertedTo(actions, t, decls, Len(decls), k)

LEMMA LoadIs ==
  ASSUME NEW doc \in Documents, LoadCustom(doc)
  PROVE  /\ outcome'.op = "Load" /\ outcome'.doc = doc
         /\ \/ outcome'.result = "unsound" /\ actions' = actions
            \/ \E t, k : /\ Inserted(doc.decls, t, k)
                         /\ actions' = t.actions /\ outcome'.result = t.result
<1> DEFINE decls == doc.decls
           n == Len(decls)
           p == parseCustomYAML(doc)
           start == [actions |-> actions, result |-> "ok"]
<1>1. CASE p.failed
  <2>1. outcome' = [op |-> "Load", result |-> "unsound", doc |-> doc] /\ actions' = actions
    BY <1>1 DEF LoadCustom
  <2> QED  BY <2>1
<1>2. CASE ~p.failed
  <2>1. /\ decls \in Seq(Declarations) /\ n # 0 /\ p.parsed = ParsedOf(decls, n)
        /\ \A k \in 1..n : Sound(decls[k]) /\ ActionValid(decls[k].name, Decoded(decls[k]))
    BY <1>2, ParseIs
  <2>2. /\ outcome' = [op |-> "Load", result |-> addAll(start, p.parsed).result, doc |-> doc]
        /\ actions' = addAll(start, p.parsed).actions
    BY <1>2 DEF LoadCustom
  <2>3. n \in Nat /\ Len(p.parsed) = n /\ \A k \in 1..n : p.parsed[k] = ParsedAs(decls[k])
    <3>1. n \in Nat
      BY <2>1
    <3>2. ASSUME NEW f, f = [k \in 1..n |-> ParsedAs(decls[k])]
          PROVE  Len(f) = n /\ \A k \in 1..n : f[k] = ParsedAs(decls[k])
      <4> HIDE DEF n
      <4>1. f \in [1..n -> {ParsedAs(decls[k]) : k \in 1..n}]
        BY <3>2
      <4>2. ASSUME NEW T, NEW h \in [1..n -> T] PROVE Len(h) = n
        BY <3>1
      <4> QED  BY <3>2, <4>1, <4>2
    <3> HIDE DEF n, p
    <3> QED  BY <2>1, <3>1, <3>2 DEF ParsedOf
  <2> HIDE DEF p
  <2>4. PICK g : IsInsertionOf(g, start, p.parsed, n) /\ addAll(start, p.parsed) = g[n]
    BY <2>3, InsertionIsLast
  <2> DEFINE Holds(i) == /\ DOMAIN g[i] = {"actions", "result"}
                         /\ g[i] = [x \in {"actions", "result"} |-> g[i][x]]
                         /\ \E k \in 0..i : InsertedTo(actions, g[i], decls, i, k)
             V == {i \in 1..n : Holds(i)}
  <2>5. Holds(0)
    <3>1. g[0] = start
      BY <2>4 DEF IsInsertionOf
    <3>2. NamesUpTo(decls, 0) = {}
      BY DEF NamesUpTo
    <3>3. InsertedTo(actions, start, decls, 0, 0)
      BY <3>2 DEF InsertedTo
    <3>4. DOMAIN start = {"actions", "result"} /\ start = [x \in {"actions", "result"} |-> start[x]]
      OBVIOUS
    <3>5. 0 \in 0..0
      OBVIOUS
    <3> HIDE DEF start
    <3> QED  BY <3>1, <3>3, <3>4, <3>5
  <2>6. ASSUME NEW i \in 1..n, \A j \in 1..n : j < i => j \in V PROVE i \in V
    <3>1. Holds(i - 1)
      <4>1. CASE i = 1
        BY <2>5, <4>1
      <4>2. CASE i # 1
        <5>1. i - 1 \in V
          BY <2>6, <4>2
        <5> QED  BY <5>1
      <4> QED  BY <4>1, <4>2
    <3>2. g[i] = addValidated(g[i - 1], ParsedAs(decls[i]))
      BY <2>3, <2>4 DEF IsInsertionOf
    <3>3. PICK j \in 0..(i - 1) : InsertedTo(actions, g[i - 1], decls, i - 1, j)
      BY <3>1
    <3>4. ActionValid(decls[i].name, Decoded(decls[i]))
      BY <2>1
    <3>5. Holds(i)
      <4>1. /\ DOMAIN g[i - 1] = {"actions", "result"}
            /\ g[i - 1] = [x \in {"actions", "result"} |-> g[i - 1][x]]
        BY <3>1
      <4>2. /\ DOMAIN g[i] = {"actions", "result"}
            /\ g[i] = [x \in {"actions", "result"} |-> g[i][x]]
            /\ \E k \in 0..i : InsertedTo(actions, g[i], decls, i, k)
        <5>1. decls \in Seq(Declarations) /\ i \in 1..Len(decls)
          BY <2>1
        <5> HIDE DEF decls, n, start
        <5> QED  BY <3>2, <3>3, <3>4, <4>1, <5>1, InsertionStep
      <4> QED  BY <4>2
    <3> QED  BY <3>5
  <2>7. V = 1..n
    <3> HIDE DEF V, n
    <3>1. V \in SUBSET (1..n)
      BY DEF V
    <3> QED  BY <2>3, <2>6, <3>1, UpTo
  <2>8. Holds(n)
    <3>1. n \in 1..n
      BY <2>1, <2>3
    <3>2. n \in V
      <4> HIDE DEF V, n
      <4> QED  BY <2>7, <3>1
    <3> QED  BY <3>2
  <2>9. PICK k \in 0..n : InsertedTo(actions, g[n], decls, n, k)
    BY <2>8
  <2>10. Inserted(decls, g[n], k)
    BY <2>1, <2>9 DEF Inserted
  <2> HIDE DEF V, Holds, start, n, decls
  <2>11. actions' = g[n].actions /\ outcome'.result = g[n].result
         /\ outcome'.op = "Load" /\ outcome'.doc = doc
    BY <2>2, <2>4
  <2> QED  BY <2>10, <2>11 DEF decls
<1> QED  BY <1>1, <1>2

\* What Inserted says of one name.
LEMMA InsertedName ==
  ASSUME NEW decls, NEW t, NEW k, Inserted(decls, t, k)
  PROVE  /\ DOMAIN t.actions = DOMAIN actions \cup NamesUpTo(decls, k)
         /\ NamesUpTo(decls, k) \cap DOMAIN actions = {}
         /\ \A n \in DOMAIN actions : t.actions[n] = actions[n]
         /\ \A n \in DOMAIN t.actions \ DOMAIN actions :
              \E i \in DOMAIN decls :
                /\ decls[i].name = n /\ t.actions[n] = Decoded(decls[i])
                /\ Sound(decls[i]) /\ ActionValid(n, t.actions[n])
         /\ t.result \in {"ok", "exists"}
<1>1. /\ decls \in Seq(Declarations) /\ k \in 0..Len(decls)
      /\ \A i \in 1..Len(decls) : Sound(decls[i]) /\ ActionValid(decls[i].name, Decoded(decls[i]))
      /\ InsertedTo(actions, t, decls, Len(decls), k)
  BY DEF Inserted
<1>2. DOMAIN decls = 1..Len(decls) /\ \A i \in 1..k : i \in 1..Len(decls)
  BY <1>1
<1>3. ASSUME NEW n \in DOMAIN t.actions \ DOMAIN actions
      PROVE  \E i \in DOMAIN decls :
               /\ decls[i].name = n /\ t.actions[n] = Decoded(decls[i])
               /\ Sound(decls[i]) /\ ActionValid(n, t.actions[n])
  <2>1. n \in NamesUpTo(decls, k)
    BY <1>1 DEF InsertedTo
  <2>2. PICK i \in 1..k : decls[i].name = n /\ t.actions[n] = Decoded(decls[i])
    BY <1>1, <2>1 DEF InsertedTo
  <2> QED  BY <1>1, <1>2, <2>2
<1>4. /\ DOMAIN t.actions = DOMAIN actions \cup NamesUpTo(decls, k)
      /\ NamesUpTo(decls, k) \cap DOMAIN actions = {}
      /\ \A n \in DOMAIN actions : t.actions[n] = actions[n]
      /\ t.result \in {"ok", "exists"}
  BY <1>1 DEF InsertedTo
<1> QED  BY <1>3, <1>4

LEMMA CatalogSteps == CatalogTypeOK /\ [CatalogNext]_catalogVars => CatalogTypeOK'
<1> SUFFICES ASSUME CatalogTypeOK, [CatalogNext]_catalogVars PROVE CatalogTypeOK'
  OBVIOUS
<1>1. ASSUME NEW doc \in Documents, LoadCustom(doc) PROVE CatalogTypeOK'
  <2>1. CASE outcome'.result = "unsound" /\ actions' = actions
    BY <2>1 DEF CatalogTypeOK
  <2>2. ASSUME NEW t, NEW k, Inserted(doc.decls, t, k),
               actions' = t.actions, outcome'.result = t.result
        PROVE  CatalogTypeOK'
    <3>1. /\ \A n \in DOMAIN actions : t.actions[n] = actions[n]
          /\ \A n \in DOMAIN t.actions \ DOMAIN actions :
               \E i \in DOMAIN doc.decls :
                 doc.decls[i].name = n /\ ActionValid(n, t.actions[n])
          /\ t.result \in {"ok", "exists"}
      BY <2>2, InsertedName
    <3>2. ASSUME NEW i \in DOMAIN doc.decls PROVE doc.decls[i].name \in CatalogNames
      <4>1. doc.decls[i] \in ToSet(doc.decls)
        BY DEF ToSet
      <4> QED  BY <4>1 DEF CatalogNames, DeclaredNames
    <3>3. ASSUME NEW n \in DOMAIN t.actions
          PROVE  n \in CatalogNames /\ ActionValid(n, t.actions[n])
      BY <3>1, <3>2 DEF CatalogTypeOK
    <3> QED  BY <2>2, <3>1, <3>3 DEF CatalogTypeOK
  <2> QED  BY <1>1, <2>1, <2>2, LoadIs
<1>2. CASE LoadCustomFileUnreadable
  BY <1>2 DEF LoadCustomFileUnreadable, CatalogTypeOK
<1>3. ASSUME NEW name \in Removals, RemoveAction(name) PROVE CatalogTypeOK'
  <2>1. /\ DOMAIN actions' \subseteq DOMAIN actions
        /\ \A n \in DOMAIN actions' : actions'[n] = actions[n]
        /\ outcome'.result \in {"ok", "not_found"}
    BY <1>3 DEF RemoveAction
  <2> QED  BY <2>1 DEF CatalogTypeOK
<1>4. CASE UNCHANGED catalogVars
  BY <1>4 DEF catalogVars, CatalogTypeOK
<1> QED  BY <1>1, <1>2, <1>3, <1>4 DEF CatalogNext

LEMMA CatalogStart == CatalogInit => CatalogTypeOK
<1> SUFFICES ASSUME CatalogInit PROVE CatalogTypeOK
  OBVIOUS
<1>1. actions = Starter /\ outcome.result = "ok"
  BY DEF CatalogInit
<1>2. \A n \in DOMAIN Starter : ActionValid(n, Starter[n])
  BY StarterAssumption DEF StarterAssumption
<1> QED  BY <1>1, <1>2 DEF CatalogTypeOK, CatalogNames

\* A load adds the front of its document, in order, and says how far it came:
\* for documents of any length, whatever is in the catalog.
THEOREM LoadsInsertAPrefix == CatalogSpec => LoadKeepsAPrefix
<1> DEFINE A == outcome'.op = "Load" =>
       LET decls == outcome'.doc.decls
           upTo(k) == {decls[i].name : i \in 1..k}
       IN  \E k \in 0..Len(decls) :
             /\ DOMAIN actions' = DOMAIN actions \cup upTo(k)
             /\ upTo(k) \cap DOMAIN actions = {}
             /\ \/ /\ outcome'.result = "ok"
                   /\ k = Len(decls) /\ k > 0
                   /\ \A i \in 1..k : Sound(decls[i])
                \/ /\ outcome'.result = "exists"
                   /\ k < Len(decls)
                   /\ decls[k + 1].name \in DOMAIN actions \cup upTo(k)
                   /\ \A i \in DOMAIN decls : Sound(decls[i])
                \/ outcome'.result = "unsound" /\ k = 0
<1>1. ASSUME NEW doc \in Documents, LoadCustom(doc) PROVE A
  <2> DEFINE decls == doc.decls
  <2>0. outcome'.op = "Load" /\ outcome'.doc = doc /\ decls \in Seq(Declarations)
    BY <1>1, LoadIs, DocumentAssumption DEF DocumentAssumption
  <2>1. CASE outcome'.result = "unsound" /\ actions' = actions
    <3>1. 0 \in 0..Len(decls) /\ {decls[i].name : i \in 1..0} = {}
      BY <2>0
    <3> QED  BY <2>0, <2>1, <3>1
  <2>2. ASSUME NEW t, NEW k, Inserted(decls, t, k),
               actions' = t.actions, outcome'.result = t.result
        PROVE  A
    <3>1. /\ k \in 0..Len(decls) /\ Len(decls) # 0 /\ Len(decls) \in Nat
          /\ DOMAIN decls = 1..Len(decls)
          /\ \A i \in 1..Len(decls) : Sound(decls[i])
          /\ InsertedTo(actions, t, decls, Len(decls), k)
      BY <2>0, <2>2 DEF Inserted
    <3>2. /\ DOMAIN actions' = DOMAIN actions \cup NamesUpTo(decls, k)
          /\ NamesUpTo(decls, k) \cap DOMAIN actions = {}
          /\ \/ outcome'.result = "ok" /\ k = Len(decls)
             \/ /\ outcome'.result = "exists" /\ k < Len(decls)
                /\ decls[k + 1].name \in DOMAIN actions \cup NamesUpTo(decls, k)
      BY <2>2, <3>1 DEF InsertedTo
    <3>3. \A i \in 1..k : Sound(decls[i])
      BY <3>1
    <3> QED  BY <2>0, <3>1, <3>2, <3>3 DEF NamesUpTo
  <2> QED  BY <1>1, <2>1, <2>2, LoadIs
<1>2. ASSUME LoadCustomFileUnreadable PROVE A
  <2>1. outcome'.op = "Read"
    BY <1>2 DEF LoadCustomFileUnreadable
  <2> QED  BY <2>1
<1>3. ASSUME NEW name \in Removals, RemoveAction(name) PROVE A
  <2>1. outcome'.op = "Remove"
    BY <1>3 DEF RemoveAction
  <2> QED  BY <2>1
<1>4. [CatalogNext]_catalogVars => [A]_catalogVars
  <2> HIDE DEF A
  <2> QED  BY <1>1, <1>2, <1>3 DEF CatalogNext
<1> QED  BY <1>4, PTL DEF CatalogSpec, LoadKeepsAPrefix

\* A name becomes fail-open only in the load of a harmless declaration of it.
THEOREM OpenedByDeclaration == CatalogSpec => OpensOnlyByDeclaration
<1> DEFINE A == \A n \in CatalogNames :
       (Classify(actions, n) = "fail_closed" /\ Classify(actions', n) = "fail_open")
         => /\ outcome'.op = "Load"
            /\ n \notin DestructiveNames \cup DOMAIN actions
            /\ \E i \in DOMAIN outcome'.doc.decls :
                 LET d == outcome'.doc.decls[i]
                 IN  d.name = n /\ Sound(d) /\ d.blast \in 1..2
<1>1. ASSUME NEW n, Classify(actions, n) = "fail_closed", Classify(actions', n) = "fail_open"
      PROVE  /\ n \notin DestructiveNames /\ n \in DOMAIN actions' /\ ~(actions'[n].blast >= 3)
             /\ n \in DOMAIN actions => actions[n].blast >= 3
  BY <1>1 DEF Classify
<1>2. ASSUME \A n \in DOMAIN actions' : n \in DOMAIN actions /\ actions'[n] = actions[n]
      PROVE  A
  BY <1>1, <1>2
<1>3. ASSUME NEW doc \in Documents, LoadCustom(doc) PROVE A
  <2>0. outcome'.op = "Load" /\ outcome'.doc = doc
    BY <1>3, LoadIs
  <2>1. CASE outcome'.result = "unsound" /\ actions' = actions
    <3> HIDE DEF A
    <3> QED  BY <1>2, <2>1
  <2>2. ASSUME NEW t, NEW k, Inserted(doc.decls, t, k), actions' = t.actions
        PROVE  A
    <3> SUFFICES ASSUME NEW n \in CatalogNames, Classify(actions, n) = "fail_closed",
                        Classify(actions', n) = "fail_open"
                 PROVE  /\ n \notin DestructiveNames \cup DOMAIN actions
                        /\ \E i \in DOMAIN doc.decls :
                             /\ doc.decls[i].name = n /\ Sound(doc.decls[i])
                             /\ doc.decls[i].blast \in 1..2
      BY <2>0
    <3>1. /\ n \notin DestructiveNames /\ n \in DOMAIN actions' /\ ~(actions'[n].blast >= 3)
          /\ n \in DOMAIN actions => actions[n].blast >= 3
      BY <1>1
    <3>2. n \notin DOMAIN actions
      BY <2>2, <3>1, InsertedName
    <3>3. PICK i \in DOMAIN doc.decls : /\ doc.decls[i].name = n /\ Sound(doc.decls[i])
                                        /\ t.actions[n] = Decoded(doc.decls[i])
      BY <2>2, <3>1, <3>2, InsertedName
    <3>4. actions'[n].blast = doc.decls[i].blast
      BY <2>2, <3>3 DEF Decoded
    <3>5. doc.decls[i].blast \in 1..5
      BY <3>3 DEF Sound
    <3> QED  BY <3>1, <3>2, <3>3, <3>4, <3>5
  <2> HIDE DEF A
  <2> QED  BY <1>3, <2>1, <2>2, LoadIs
<1>4. ASSUME LoadCustomFileUnreadable PROVE A
  <2>1. actions' = actions
    BY <1>4 DEF LoadCustomFileUnreadable
  <2> HIDE DEF A
  <2> QED  BY <1>2, <2>1
<1>5. ASSUME NEW name \in Removals, RemoveAction(name) PROVE A
  <2>1. \A n \in DOMAIN actions' : n \in DOMAIN actions /\ actions'[n] = actions[n]
    BY <1>5 DEF RemoveAction
  <2> HIDE DEF A
  <2> QED  BY <1>2, <2>1
<1>6. [CatalogNext]_catalogVars => [A]_catalogVars
  <2> HIDE DEF A
  <2> QED  BY <1>3, <1>4, <1>5 DEF CatalogNext
<1> QED  BY <1>6, PTL DEF CatalogSpec, OpensOnlyByDeclaration
-----------------------------------------------------------------------------
(* The catalog implements Bindings *)

\* What Bindings sees of the map.
Bound == [n \in DOMAIN actions |-> Meaning(actions[n].blast, actions[n].schema)]

Declared == UNION {ToSet(doc.decls) : doc \in Documents}

MeaningsOf ==
  {<<n, Meaning(Starter[n].blast, Starter[n].schema)>> : n \in DOMAIN Starter}
  \cup {<<d.name, Meaning(d.blast, d.schema)>> : d \in {e \in Declared : Sound(e)}}

\* A step that keeps what is bound and adds sound declarations is a Bind.
LEMMA GrowsIsBind ==
  ASSUME DOMAIN actions' \subseteq CatalogNames, DOMAIN actions \subseteq DOMAIN actions',
         \A n \in DOMAIN actions : actions'[n] = actions[n],
         \A n \in DOMAIN actions' \ DOMAIN actions :
           <<n, Meaning(actions'[n].blast, actions'[n].schema)>> \in MeaningsOf
  PROVE  Promise!Next
<1> DEFINE added == DOMAIN Bound' \ DOMAIN Bound
           new == [n \in added |-> Bound'[n]]
<1>1. /\ DOMAIN Bound = DOMAIN actions /\ DOMAIN Bound' = DOMAIN actions'
      /\ \A n \in DOMAIN actions : Bound[n] = Meaning(actions[n].blast, actions[n].schema)
      /\ \A n \in DOMAIN actions' : Bound'[n] = Meaning(actions'[n].blast, actions'[n].schema)
      /\ Bound' = [n \in DOMAIN actions' |-> Bound'[n]]
  BY DEF Bound
<1>2. DOMAIN new \subseteq CatalogNames \ DOMAIN Bound
  BY <1>1
<1>3. \A n \in DOMAIN new : <<n, new[n]>> \in MeaningsOf
  BY <1>1
<1>4. Bound' = [n \in DOMAIN Bound \cup DOMAIN new |->
                  IF n \in DOMAIN Bound THEN Bound[n] ELSE new[n]]
  <2>1. DOMAIN Bound \cup DOMAIN new = DOMAIN actions'
    BY <1>1
  <2>2. \A n \in DOMAIN actions' :
          Bound'[n] = IF n \in DOMAIN Bound THEN Bound[n] ELSE new[n]
    BY <1>1
  <2> HIDE DEF new
  <2> QED  BY <1>1, <2>1, <2>2
<1>5. Promise!Bind(new)
  BY <1>2, <1>3, <1>4 DEF Promise!Bind, Bound, MeaningsOf, Declared
<1> QED  BY <1>5 DEF Promise!Next, Bound

LEMMA BindingsStep ==
  CatalogTypeOK /\ CatalogTypeOK' /\ [CatalogNext]_catalogVars => [Promise!Next]_Bound
<1> SUFFICES ASSUME CatalogTypeOK, CatalogTypeOK', [CatalogNext]_catalogVars
             PROVE  [Promise!Next]_Bound
  OBVIOUS
<1>1. ASSUME NEW doc \in Documents, LoadCustom(doc) PROVE [Promise!Next]_Bound
  <2>1. CASE actions' = actions
    BY <2>1 DEF Bound
  <2>2. ASSUME NEW t, NEW k, Inserted(doc.decls, t, k), actions' = t.actions
        PROVE  Promise!Next
    <3>1. ASSUME NEW n \in DOMAIN actions' \ DOMAIN actions
          PROVE  <<n, Meaning(actions'[n].blast, actions'[n].schema)>> \in MeaningsOf
      <4>1. PICK i \in DOMAIN doc.decls :
              /\ doc.decls[i].name = n /\ t.actions[n] = Decoded(doc.decls[i])
              /\ Sound(doc.decls[i])
        BY <2>2, <3>1, InsertedName
      <4> DEFINE d == doc.decls[i]
      <4>2. d \in Declared /\ Sound(d)
        BY <4>1 DEF Declared, ToSet
      <4>3. actions'[n].blast = d.blast /\ actions'[n].schema = d.schema /\ d.name = n
        BY <2>2, <4>1 DEF Decoded
      <4> HIDE DEF d
      <4> QED  BY <4>2, <4>3 DEF MeaningsOf
    <3>2. /\ DOMAIN actions \subseteq DOMAIN actions'
          /\ \A n \in DOMAIN actions : actions'[n] = actions[n]
      BY <2>2, InsertedName
    <3>3. DOMAIN actions' \subseteq CatalogNames
      BY DEF CatalogTypeOK
    <3> QED  BY <3>1, <3>2, <3>3, GrowsIsBind
  <2> QED  BY <1>1, <2>1, <2>2, LoadIs
<1>2. ASSUME NEW name \in Removals, RemoveAction(name) PROVE [Promise!Next]_Bound
  <2>1. actions' = [n \in DOMAIN actions \ {name} |-> actions[n]]
    BY <1>2 DEF RemoveAction
  <2>2. Bound' = [n \in DOMAIN Bound \ {name} |-> Bound[n]]
    <3>1. DOMAIN Bound = DOMAIN actions /\ DOMAIN actions' = DOMAIN actions \ {name}
      BY <2>1 DEF Bound
    <3>2. \A n \in DOMAIN actions' :
            Meaning(actions'[n].blast, actions'[n].schema) = Bound[n]
      BY <2>1 DEF Bound
    <3>3. Bound' = [n \in DOMAIN actions' |-> Meaning(actions'[n].blast, actions'[n].schema)]
      BY DEF Bound
    <3> QED  BY <3>1, <3>2, <3>3
  <2>3. CASE name \in DOMAIN Bound
    <3>1. name \in CatalogNames
      BY <2>3 DEF Bound, CatalogTypeOK
    <3>2. Promise!Unbind(name)
      BY <2>2, <2>3 DEF Promise!Unbind, Bound
    <3> QED  BY <3>1, <3>2 DEF Promise!Next
  <2>4. CASE name \notin DOMAIN Bound
    <3>1. DOMAIN Bound \ {name} = DOMAIN Bound
      BY <2>4
    <3>2. Bound = [n \in DOMAIN Bound |-> Bound[n]]
      BY DEF Bound
    <3> QED  BY <2>2, <3>1, <3>2
  <2> QED  BY <2>3, <2>4
<1>3. CASE LoadCustomFileUnreadable \/ UNCHANGED catalogVars
  <2>1. actions' = actions
    BY <1>3 DEF LoadCustomFileUnreadable, catalogVars
  <2> QED  BY <2>1 DEF Bound
<1> QED  BY <1>1, <1>2, <1>3 DEF CatalogNext

LEMMA CatalogInvariant == CatalogSpec => []CatalogTypeOK
BY CatalogStart, CatalogSteps, PTL DEF CatalogSpec

\* The catalog implements Bindings, for any documents and removals: whatever
\* failed half-way and whatever the compiler still remembers, a name stands for
\* what one sound declaration gives it, until it is taken out.
THEOREM CatalogImplementsBindings == CatalogSpec => ImplementsBindings
<1>1. CatalogInit => Promise!Init
  BY DEF CatalogInit, Promise!Init
<1>2. CatalogTypeOK /\ CatalogTypeOK' /\ [CatalogNext]_catalogVars => [Promise!Next]_Bound
  BY BindingsStep
<1> QED
  BY <1>1, <1>2, CatalogInvariant, PTL DEF CatalogSpec, ImplementsBindings, Promise!Spec, Bound

-----------------------------------------------------------------------------
(* The packages together *)

\* They share nothing, so each behaves as if it were alone: what is proved of
\* each holds of all of them.
LEMMA EachOnItsOwn == Spec => CatalogSpec /\ BackendSpec /\ EventSpec /\ StartupSpec
<1>1. Init => CatalogInit /\ BackendInit /\ EventInit /\ StartupInit
  BY DEF Init
<1>2. [Next]_vars => /\ [CatalogNext]_catalogVars /\ [BackendNext]_backendVars
                     /\ [EventNext]_eventVars /\ [StartupNext]_startupVars
  BY DEF Next, vars
<1> QED
  BY <1>1, <1>2, PTL DEF Spec, CatalogSpec, BackendSpec, EventSpec, StartupSpec

\* The invariants of the four packages hold in every state of the four together.
THEOREM PackagesStaySound == Spec => []TypeOK
BY EachOnItsOwn, CatalogInvariant, BackendInvariant, EventInvariant, StartupInvariant,
   PTL DEF TypeOK
=============================================================================
