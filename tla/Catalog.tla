------------------------------ MODULE Catalog ------------------------------
(***************************************************************************)
(* internal/catalog: the five starter actions, the loader of custom        *)
(* actions, and what is read from the catalog: argument validation, the    *)
(* target of a call (proxy/intercept.go) and the fail-open posture         *)
(* (errors/posture.go).                                                    *)
(*                                                                         *)
(* A custom declaration is [name, blast, complete, severity, params,       *)
(* primary, text, schema]: complete says that the audit shape has a title  *)
(* and a type, text how far its input_schema gets ("blank", "malformed"    *)
(* JSON, "uncompilable" or "sound") and schema what it then accepts.  A    *)
(* document is [kind, decls].  An arguments object is a function from      *)
(* argument names to values; NonString stands for any value of another     *)
(* JSON type.                                                              *)
(***************************************************************************)
EXTENDS Integers, Sequences, SequencesExt, TLC

CONSTANTS Documents,        \* what an operator may load
          Removals,         \* names an operator may pass to Remove
          DestructiveNames  \* names for which IsDestructiveTool is true

\* A declaration with the types its fields have in the code, sound or not.
Declarations ==
  [ name: STRING, blast: Int, complete: BOOLEAN, severity: Int,
    params: SUBSET STRING, primary: STRING,
    text: {"blank", "malformed", "uncompilable", "sound"},
    schema: [required: SUBSET STRING, properties: SUBSET STRING,
             nonEmpty: SUBSET STRING] ]

ASSUME DocumentAssumption ==
  Documents \subseteq [kind: STRING, decls: Seq(Declarations)]

\* A Go map after m[k] = v.
Assigned(m, k, v) == [x \in DOMAIN m \cup {k} |-> IF x = k THEN v ELSE m[x]]

\* The zero value of a Go string.
Blank == ""

NonString == "<not a string>"
IndicatorTypes == {"ipv4", "ipv6", "domain", "url", "sha256", "md5", "email"}

VARIABLES actions,    \* Catalog.Actions
          resources,  \* schemaCompiler: URL -> registered schema
          outcome     \* what the last operation returned, and for what

catalogVars == <<actions, resources, outcome>>

-----------------------------------------------------------------------------
(* Actions *)

\* additionalProperties is false and every property is a string.
accepts(schema, args) ==
  /\ schema.required \subseteq DOMAIN args
  /\ DOMAIN args \subseteq schema.properties
  /\ \A k \in DOMAIN args :
       /\ args[k] # NonString
       /\ k \in schema.nonEmpty => args[k] # Blank
       /\ k = "indicator_type" => args[k] \in IndicatorTypes

\* Slip: the required strings have no minLength.
starterWithoutMinLength(blast, severity, required, optional, primary) ==
  [ blast |-> blast, severity |-> severity, complete |-> TRUE,
    params |-> required \cup optional, primary |-> primary,
    schema |-> [required |-> required, properties |-> required \cup optional,
                nonEmpty |-> {}] ]

starter(blast, severity, required, optional, primary) ==
  [ blast |-> blast, severity |-> severity, complete |-> TRUE,
    params |-> required \cup optional, primary |-> primary,
    schema |-> [required |-> required, properties |-> required \cup optional,
                nonEmpty |-> required \ {"indicator_type"}] ]

StarterNames == { "isolate_endpoint", "block_user_account", "rotate_api_key",
                  "submit_edr_query", "enrich_ioc" }

Starter ==
  [n \in StarterNames |->
     CASE n = "isolate_endpoint"   -> starter(5, 5, {"host_id"}, {"comment"}, "host_id")
       [] n = "block_user_account" -> starter(4, 4, {"user_id"}, {"comment"}, "user_id")
       [] n = "rotate_api_key"     -> starter(3, 3, {"key_id"}, {"reason"}, "key_id")
       [] n = "submit_edr_query"   ->
            starter(1, 2, {"query"}, {"host_id", "time_range"}, Blank)
       [] n = "enrich_ioc"         ->
            starter(1, 2, {"indicator", "indicator_type"}, {}, "indicator")]

validSeverity(id) == id \in 0..6 \cup {99}

\* Action.Validate, for an action whose schema compiled.
ActionValid(name, a) ==
  /\ name # Blank
  /\ a.blast \in 1..5
  /\ a.complete
  /\ validSeverity(a.severity)
  /\ a.primary # Blank => a.primary \in a.params

\* The package's init panics unless this holds.
ASSUME StarterAssumption == \A n \in DOMAIN Starter : ActionValid(n, Starter[n])

-----------------------------------------------------------------------------
(* Parsing a document *)

schemaURL(name) == "mem://catalog/" \o name

\* The struct decodeSingleInto unmarshals into has no primary_arg: what the
\* declaration says of it is dropped.
Decoded(d) ==
  [ blast |-> d.blast, severity |-> d.severity, complete |-> d.complete,
    params |-> d.params, primary |-> Blank, schema |-> d.schema ]

\* Slip: a URL that is taken keeps the schema it has.
registerSchemaOnce(registered, name, schema) ==
  IF schemaURL("custom/" \o name) \in DOMAIN registered THEN registered
  ELSE Assigned(registered, schemaURL("custom/" \o name), schema)

\* AddResource: a second registration under one URL replaces the first.
registerSchema(registered, name, schema) ==
  Assigned(registered, schemaURL("custom/" \o name), schema)

\* One declaration: its schema is registered once its text is JSON, whether or
\* not it then compiles or the action turns out unsound, and the action takes
\* what the URL compiles to.
decodeSingle(s, d) ==
  IF s.failed THEN s
  ELSE LET registered == IF d.text \in {"uncompilable", "sound"}
                         THEN registerSchema(s.resources, d.name, d.schema)
                         ELSE s.resources
           a == IF d.text = "sound"
                THEN [Decoded(d) EXCEPT
                        !.schema = registered[schemaURL("custom/" \o d.name)]]
                ELSE Decoded(d)
       IN  [ failed    |-> d.text # "sound" \/ ~ActionValid(d.name, a),
             parsed    |-> Append(s.parsed, [name |-> d.name, action |-> a]),
             resources |-> registered ]

\* The loop over the declarations, the first n of them decoded.
decodeAll(start, decls) ==
  LET decoded[n \in 0..Len(decls)] ==
        IF n = 0 THEN start ELSE decodeSingle(decoded[n - 1], decls[n])
  IN  decoded[Len(decls)]

\* Every declaration is decoded before any is inserted.
parseCustomYAML(doc) ==
  LET start == [failed |-> FALSE, parsed |-> <<>>, resources |-> resources]
  IN  IF doc.kind \in {"single", "multi"} /\ doc.decls # <<>>
      THEN decodeAll(start, doc.decls)
      ELSE [start EXCEPT !.failed = TRUE]

-----------------------------------------------------------------------------
(* Operations *)

CatalogInit ==
  /\ actions = Starter
  /\ resources = [u \in {schemaURL(n) : n \in DOMAIN Starter} |->
                    Starter[CHOOSE n \in DOMAIN Starter : schemaURL(n) = u].schema]
  /\ outcome = [op |-> "New", result |-> "ok"]

\* Slip: a collision skips that action and the load goes on.
addValidatedSkipping(s, p) ==
  IF p.name \in DOMAIN s.actions THEN [s EXCEPT !.result = "exists"]
  ELSE [s EXCEPT !.actions = Assigned(@, p.name, p.action)]

addValidated(s, p) ==
  IF s.result # "ok" THEN s
  ELSE IF p.name \in DOMAIN s.actions THEN [s EXCEPT !.result = "exists"]
  ELSE IF ~ActionValid(p.name, p.action) THEN [s EXCEPT !.result = "unsound"]
  ELSE [s EXCEPT !.actions = Assigned(@, p.name, p.action)]

\* The loop over what was parsed.
addAll(start, parsed) ==
  LET added[n \in 0..Len(parsed)] ==
        IF n = 0 THEN start ELSE addValidated(added[n - 1], parsed[n])
  IN  added[Len(parsed)]

\* LoadCustomBytes, and LoadCustomFile once the file is read.  There is no
\* rollback: what was inserted before a collision stays.
LoadCustom(doc) ==
  LET p == parseCustomYAML(doc)
      inserted == IF p.failed THEN [actions |-> actions, result |-> "unsound"]
                  ELSE addAll([actions |-> actions, result |-> "ok"], p.parsed)
  IN  /\ resources' = p.resources
      /\ actions' = inserted.actions
      /\ outcome' = [op |-> "Load", result |-> inserted.result, doc |-> doc]

LoadCustomFileUnreadable ==
  /\ outcome' = [op |-> "Read", result |-> "unreadable"]
  /\ UNCHANGED <<actions, resources>>

RemoveAction(name) ==
  /\ outcome' = [op |-> "Remove", name |-> name,
                 result |-> IF name \in DOMAIN actions THEN "ok" ELSE "not_found"]
  /\ actions' = [n \in DOMAIN actions \ {name} |-> actions[n]]
  /\ UNCHANGED resources

DeclaredNames ==
  {d.name : d \in UNION {ToSet(doc.decls) : doc \in Documents}}
CatalogNames == DOMAIN Starter \cup DeclaredNames

CatalogNext ==
  \/ \E doc \in Documents : LoadCustom(doc)
  \/ LoadCustomFileUnreadable
  \/ \E n \in Removals : RemoveAction(n)

CatalogSpec == CatalogInit /\ [][CatalogNext]_catalogVars

-----------------------------------------------------------------------------
(* Readers *)

\* Catalog.Validate on the catalog acts.
Validate(acts, name, args) ==
  IF name \notin DOMAIN acts THEN "not_found"
  ELSE IF accepts(acts[name].schema, args) THEN "ok" ELSE "violation"

extractTarget(action, args) ==
  IF /\ action.primary # Blank /\ action.primary \in DOMAIN args
     /\ args[action.primary] # NonString
  THEN args[action.primary] ELSE Blank

\* Slip: an action the catalog lacks has the zero blast radius.
ClassifyUnknownAsZero(acts, name) ==
  IF \/ name \in DestructiveNames
     \/ name \in DOMAIN acts /\ acts[name].blast >= 3
  THEN "fail_closed" ELSE "fail_open"

Classify(acts, name) ==
  IF \/ name \in DestructiveNames
     \/ name \notin DOMAIN acts
     \/ acts[name].blast >= 3
  THEN "fail_closed" ELSE "fail_open"

-----------------------------------------------------------------------------
(* Properties *)

\* A declaration as the operator wrote it is sound.
Sound(d) ==
  d.name # Blank /\ d.blast \in 1..5 /\ d.complete /\ d.text = "sound"
    /\ d.severity \in 0..6 \cup {99}

CatalogTypeOK ==
  /\ DOMAIN actions \subseteq CatalogNames
  /\ \A n \in DOMAIN actions : ActionValid(n, actions[n])
  /\ outcome.result \in {"ok", "unsound", "exists", "not_found", "unreadable"}

Meaning(blast, schema) == [blast |-> blast, schema |-> schema]

Promise == INSTANCE Bindings WITH
  Names    <- CatalogNames,
  Meanings <- {<<n, Meaning(Starter[n].blast, Starter[n].schema)>> :
                 n \in DOMAIN Starter}
              \cup {<<d.name, Meaning(d.blast, d.schema)>> :
                 d \in {e \in UNION {ToSet(doc.decls) : doc \in Documents} : Sound(e)}},
  Seeded   <- [n \in DOMAIN Starter |->
                 Meaning(Starter[n].blast, Starter[n].schema)],
  bound    <- [n \in DOMAIN actions |->
                 Meaning(actions[n].blast, actions[n].schema)]

\* Load, remove, load again, documents that fail half-way and one compiler
\* whose registrations outlive them all: a name always means what one sound
\* declaration says, and changes its meaning only after a Remove.
ImplementsBindings == Promise!Spec

\* loader.go:96-101: a load adds exactly a prefix of its document, in order.
\* It is the whole document iff the load returned nil; it is empty if any
\* declaration is unsound; and it stops only before a name already taken.
LoadKeepsAPrefix ==
  [][outcome'.op = "Load" =>
       LET decls == outcome'.doc.decls
           upTo(k) == {decls[i].name : i \in 1..k}
       IN  \E k \in 0..Len(decls) :
             /\ DOMAIN actions' = DOMAIN actions \cup upTo(k)
             /\ upTo(k) \cap DOMAIN actions = {}
             /\ \/ /\ outcome'.result = "ok"
                   /\ k = Len(decls) /\ k > 0
                   /\ \A i \in 1..k : Sound(decls[i])
                \/ /\ outcome'.result = "exists"
                   /\ k < Len(decls)
                   /\ decls[k + 1].name \in DOMAIN actions \cup upTo(k)
                   /\ \A i \in DOMAIN decls : Sound(decls[i])
                \/ outcome'.result = "unsound" /\ k = 0]_catalogVars

\* posture.go Classify against a moving catalog: a tool becomes fail-open only
\* in the step that adds it, by a declaration (or starter) of blast radius 1 or
\* 2 under a name that carries no destructive verb.
OpensOnlyByDeclaration ==
  [][\A n \in CatalogNames :
       (Classify(actions, n) = "fail_closed" /\ Classify(actions', n) = "fail_open")
         => /\ outcome'.op = "Load"
            /\ n \notin DestructiveNames \cup DOMAIN actions
            /\ \E i \in DOMAIN outcome'.doc.decls :
                 LET d == outcome'.doc.decls[i]
                 IN  d.name = n /\ Sound(d) /\ d.blast \in 1..2]_catalogVars

\* types.go:130-131 says that the proxy extracts args[PrimaryArg] as the target
\* when an action declares one: for a custom action, what its declaration
\* designates.
DeclaredPrimaryArgIsTarget ==
  \A n \in DOMAIN actions \cap DeclaredNames :
    \E d \in UNION {ToSet(doc.decls) : doc \in Documents} :
      /\ d.name = n
      /\ d.primary # Blank =>
           extractTarget(actions[n], [k \in {d.primary} |-> "srv-7"]) = "srv-7"
=============================================================================
