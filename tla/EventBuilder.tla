---------------------------- MODULE EventBuilder ----------------------------
(***************************************************************************)
(* audit.EventBuilder (internal/audit/event.go): a builder that is reused  *)
(* after Build.  Build copies the event's struct, which shares with the    *)
(* builder's the array behind Resources and the Actor it points to.  Both  *)
(* are modelled as cells of a heap, a slice being [array, len] into one.   *)
(* Fields that hold a plain value are alike and are named by a constant.   *)
(***************************************************************************)
EXTENDS Naturals, Sequences, SequencesExt

CONSTANTS Fields,        \* plain fields, "verdict_id" not among them
          FieldValues,   \* values a caller gives them
          ToolNames,     \* tools named by WithResource
          AgentIDs,      \* identities given to WithActor
          Verdicts,      \* verdicts given to WithVerdict, among 1..3
          Times,         \* timestamps other than the zero time, 0
          MaxResources,  \* bound: WithResource calls
          MaxActors,     \* bound: WithActor calls
          MaxBuilt       \* bound: Build calls

ASSUME EventAssumption ==
  /\ 0 \notin Times /\ Verdicts \subseteq 1..3
  /\ MaxResources \in Nat

VARIABLES now,     \* EventBuilder.now
          ev,      \* EventBuilder.ev
          arrays,  \* heap: the arrays behind Resources, each of fixed length
          actors,  \* heap: the Actor structs
          built    \* events returned by Build, in order

eventVars == <<now, ev, arrays, actors, built>>

Unset == "unset"
Unwritten == "unwritten"
nil == 0

\* Verdict.String
VerdictString(v) ==
  CASE v = 1 -> "Allow" [] v = 2 -> "Deny" [] v = 3 -> "RequireApproval"

-----------------------------------------------------------------------------

EventInit ==
  /\ now = 0
  /\ ev = [ fields |-> [f \in Fields |-> Unset], verdict |-> "", verdictID |-> 0,
            resources |-> [array |-> nil, len |-> 0], actor |-> nil ]
  /\ arrays = <<>>
  /\ actors = <<>>
  /\ built = <<>>

\* Now and WithTime.
WithTime(t) ==
  /\ now' = t
  /\ UNCHANGED <<ev, arrays, actors, built>>

\* The setters that assign one plain field each.
WithField(f, x) ==
  /\ ev' = [ev EXCEPT !.fields[f] = x]
  /\ UNCHANGED <<now, arrays, actors, built>>

\* Slip: the label without its id.
WithVerdictLabel(v) ==
  /\ ev' = [ev EXCEPT !.verdict = VerdictString(v)]
  /\ UNCHANGED <<now, arrays, actors, built>>

WithVerdict(v) ==
  /\ ev' = [ev EXCEPT !.verdict = VerdictString(v), !.verdictID = v]
  /\ UNCHANGED <<now, arrays, actors, built>>

Capacity(slice) == IF slice.array = nil THEN 0 ELSE Len(arrays[slice.array])

\* What the runtime grows a full slice of two-string elements to.
Grown(capacity) == IF capacity = 0 THEN 1 ELSE 2 * capacity

\* append: in place while the array has room, else into a copy twice as long.
WithResource(tool) ==
  LET s == ev.resources
      n == s.len + 1
  IN  /\ n <= MaxResources
      /\ IF s.len < Capacity(s)
         THEN /\ arrays' = [arrays EXCEPT ![s.array][n] = tool]
              /\ ev' = [ev EXCEPT !.resources.len = n]
         ELSE /\ arrays' = Append(arrays,
                   [k \in 1..Grown(s.len) |->
                      IF k <= s.len THEN arrays[s.array][k]
                      ELSE IF k = n THEN tool ELSE Unwritten])
              /\ ev' = [ev EXCEPT !.resources =
                          [array |-> Len(arrays) + 1, len |-> n]]
      /\ UNCHANGED <<now, actors, built>>

\* Slip: a second call writes through the pointer.
WithActorInPlace(id) ==
  /\ IF ev.actor = nil
     THEN /\ actors' = Append(actors, id)
          /\ ev' = [ev EXCEPT !.actor = Len(actors) + 1]
     ELSE /\ actors' = [actors EXCEPT ![ev.actor] = id]
          /\ UNCHANGED ev
  /\ UNCHANGED <<now, arrays, built>>

\* A fresh Actor each time; the old one stays with the events that point to it.
WithActor(id) ==
  /\ Len(actors) < MaxActors
  /\ actors' = Append(actors, id)
  /\ ev' = [ev EXCEPT !.actor = Len(actors) + 1]
  /\ UNCHANGED <<now, arrays, built>>

\* Build returns a shallow copy; a builder without a time stamps the clock's.
Build ==
  /\ Len(built) < MaxBuilt
  /\ \E clock \in Times :
       built' = Append(built, [event |-> ev, time |-> IF now = 0 THEN clock ELSE now])
  /\ UNCHANGED <<now, ev, arrays, actors>>

EventNext ==
  \/ \E t \in Times \cup {0} : WithTime(t)
  \/ \E f \in Fields, x \in FieldValues : WithField(f, x)
  \/ \E v \in Verdicts : WithVerdict(v)
  \/ \E tool \in ToolNames : WithResource(tool)
  \/ \E id \in AgentIDs : WithActor(id)
  \/ Build

EventSpec == EventInit /\ [][EventNext]_eventVars

-----------------------------------------------------------------------------
(* Properties *)

\* What a reader of a built event sees when it is marshalled now.
Seen(e) ==
  [ time |-> e.time, fields |-> e.event.fields,
    verdict |-> e.event.verdict, verdictID |-> e.event.verdictID,
    resources |-> IF e.event.resources.array = nil THEN <<>>
                  ELSE SubSeq(arrays[e.event.resources.array],
                              1, e.event.resources.len),
    actor |-> IF e.event.actor = nil THEN Unset ELSE actors[e.event.actor] ]

SeenBuilt == [i \in DOMAIN built |-> Seen(built[i])]

\* The constants an event is made of.
Events ==
  [ fields: [Fields -> FieldValues \cup {Unset}],
    verdict: {"", "Allow", "Deny", "RequireApproval"}, verdictID: Verdicts \cup {0},
    resources: [array: Nat, len: Nat], actor: Nat ]

\* What e points to is there, and the cells it reads have been written.
PointsIntoHeap(e) ==
  LET s == e.resources
  IN  /\ s.array \in 0..Len(arrays) /\ s.len <= MaxResources
      /\ IF s.array = nil THEN s.len = 0
         ELSE /\ s.len <= Len(arrays[s.array])
              /\ \A k \in 1..s.len : arrays[s.array][k] \in ToolNames
      /\ e.actor \in 0..Len(actors)

Labelled(e) ==
  e.verdict = IF e.verdictID = 0 THEN "" ELSE VerdictString(e.verdictID)

\* An event that shares its array with the builder ends where the builder does
\* or before, so that appending in place writes behind it.
EventTypeOK ==
  /\ now \in Times \cup {0}
  /\ ev \in Events /\ PointsIntoHeap(ev) /\ Labelled(ev)
  /\ arrays \in Seq(Seq(ToolNames \cup {Unwritten})) /\ actors \in Seq(AgentIDs)
  /\ built \in Seq([event: Events, time: Times])
  /\ \A i \in DOMAIN built :
       /\ PointsIntoHeap(built[i].event) /\ Labelled(built[i].event)
       /\ built[i].event.resources.array = ev.resources.array =>
            built[i].event.resources.len <= ev.resources.len

\* event.go:442-447: Build does not mutate the builder and a builder may be
\* reused.  So whatever setters run after it, appends into an array with room
\* among them, an event once built reads the same for ever.
BuiltEventsAreFrozen == [][IsPrefix(SeenBuilt, SeenBuilt')]_eventVars
=============================================================================
