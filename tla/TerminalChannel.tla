-------------------------- MODULE TerminalChannel --------------------------
(***************************************************************************)
(* approval.TerminalChannel: a prompt on the operator's terminal and one   *)
(* line back.  Each Request starts a goroutine that reads the line; the    *)
(* Request itself waits for the line, for a timer or for its context.  The *)
(* goroutine cannot be stopped: it stays at the terminal after a timeout   *)
(* and takes a line nobody waits for any more.  Several sections of the    *)
(* configuration are several channels on the one terminal of the process.  *)
(***************************************************************************)
EXTENDS ApprovalTypes

VARIABLES
  ctx,       \* per request, its context: "none", "live", "done"
  token,     \* per request, its Token field
  termSecret,\* TerminalChannel.secret
  tpc,       \* per call: "idle", "prompt", "wait", "done"
  tres,      \* per call: what Request returned, or None
  prompted,  \* requests whose prompt the terminal shows
  typed,     \* lines typed, not yet read
  ttyOpen,   \* the terminal has not hung up
  readers,   \* calls whose goroutine is inside ReadString
  line       \* per call: what its goroutine put into the result channel

givenVars  == <<ctx, token, termSecret>>
readerVars == <<prompted, typed, ttyOpen, readers, line>>
callVars   == <<tpc, tres>>
vars == <<ctx, token, termSecret, tpc, tres, prompted, typed, ttyOpen, readers, line>>

\* "y" stands for y and yes in any case, "n" for every other word.  A line
\* without a second word carries NoToken.
Line(verb, tok) == [verb |-> verb, token |-> tok]
EmptyLine == Line("n", NoToken)
ReadError == Line("error", NoToken)

LineType == [verb: {"y", "n", "error"}, token: Tokens \cup {NoToken}]

Init ==
  /\ tpc = [k \in Calls |-> "idle"] /\ tres = [k \in Calls |-> None]
  /\ prompted = {} /\ typed = <<>> /\ ttyOpen = TRUE
  /\ readers = {} /\ line = [k \in Calls |-> None]

-----------------------------------------------------------------------------
(* The operator (environment) *)

\* The operator answers a prompt: the token is that of any request prompted so
\* far, the current one or not, or missing.
OperatorTypes(verb, tok) ==
  /\ ttyOpen /\ prompted # {}
  /\ typed' = Append(typed, Line(verb, tok))
  /\ UNCHANGED <<givenVars, callVars, prompted, ttyOpen, readers, line>>

HangUp ==
  /\ ttyOpen /\ prompted # {}
  /\ ttyOpen' = FALSE
  /\ UNCHANGED <<givenVars, callVars, prompted, typed, readers, line>>

-----------------------------------------------------------------------------
(* Request *)

Request(k) ==
  /\ tpc[k] = "idle"
  /\ tpc' = [tpc EXCEPT ![k] = "prompt"]
  /\ UNCHANGED <<givenVars, tres, readerVars>>

Finish(k, result) ==
  /\ tpc' = [tpc EXCEPT ![k] = "done"]
  /\ tres' = [tres EXCEPT ![k] = result]

\* writePrompt, and the start of readLine's goroutine.  A failed write may
\* have shown nothing or the whole prompt.
WritePrompt(k) ==
  /\ tpc[k] = "prompt"
  /\ \/ /\ prompted' = prompted \cup {k.id}
        /\ readers' = readers \cup {k}
        /\ tpc' = [tpc EXCEPT ![k] = "wait"] /\ UNCHANGED tres
     \/ /\ prompted' \in {prompted, prompted \cup {k.id}}
        /\ Finish(k, Result("error", TRUE)) /\ UNCHANGED readers
  /\ UNCHANGED <<givenVars, typed, ttyOpen, line>>

\* A goroutine gets its line.  Its own bufio.Reader takes what the terminal has
\* ready: one line, or more of them when they are read in one go, of which the
\* first is delivered and the others are lost with the reader.
ReaderGets(k) ==
  /\ k \in readers
  /\ readers' = readers \ {k}
  /\ \/ \E n \in 1..Len(typed) :
          /\ line' = [line EXCEPT ![k] = Head(typed)]
          /\ typed' = SubSeq(typed, n + 1, Len(typed))
     \/ /\ typed = <<>> /\ ~ttyOpen
        /\ line' \in {[line EXCEPT ![k] = l] : l \in {EmptyLine, ReadError}}
        /\ UNCHANGED typed
  /\ UNCHANGED <<givenVars, callVars, prompted, ttyOpen>>

\* Slip: the verb is looked at before the token.
parseVerbFirst(l, r, secret) ==
  IF l.verb = "y" THEN "approve" ELSE "deny"

parseTerminalResponse(l, r, secret) ==
  IF l.token # NoToken /\ VerifyToken(r, l.token, secret) /\ l.verb = "y"
  THEN "approve" ELSE "deny"

\* select: the line is there.
TakeLine(k) ==
  /\ tpc[k] = "wait" /\ line[k] # None
  /\ Finish(k, IF line[k] = ReadError
               THEN Result("error", TRUE)
               ELSE Result(parseTerminalResponse(line[k], k.id, termSecret), FALSE))
  /\ UNCHANGED <<givenVars, readerVars>>

\* select: the per-line timer fired, at some moment after 30 s.
ReadTimesOut(k) ==
  /\ tpc[k] = "wait"
  /\ Finish(k, Result("timeout", FALSE))
  /\ UNCHANGED <<givenVars, readerVars>>

\* select: the context is done.
ContextDone(k) ==
  /\ tpc[k] = "wait" /\ ctx[k.id] = "done"
  /\ Finish(k, Result("timeout", TRUE))
  /\ UNCHANGED <<givenVars, readerVars>>

\* Everything that happens inside a Request, or at the terminal.
Step(k) ==
  WritePrompt(k) \/ ReaderGets(k) \/ TakeLine(k) \/ ReadTimesOut(k) \/ ContextDone(k)

\* Types, and the result of a Request is there once it is done.
TypeOK ==
  /\ tpc \in [Calls -> {"idle", "prompt", "wait", "done"}]
  /\ tres \in [Calls -> Results \cup {None}]
  /\ \A k \in Calls : tpc[k] = "done" <=> tres[k] # None
  /\ prompted \subseteq Requests /\ readers \subseteq Calls
  /\ typed \in Seq(LineType) /\ ttyOpen \in BOOLEAN
  /\ line \in [Calls -> LineType \cup {None}]
=============================================================================
