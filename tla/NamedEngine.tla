---------------------------- MODULE NamedEngine ----------------------------
(***************************************************************************)
(* The policy engine over tool names spelled in runes: which tools the     *)
(* destructive-verb gate of Evaluate stops is what the scan of             *)
(* destructive.go says of their names.                                     *)
(***************************************************************************)
EXTENDS PolicyEngine, VerbGate

CONSTANT NameOf \* tool -> its name, a sequence of runes

ASSUME NameAssumption ==
  /\ Folded \in [DOMAIN Folded -> Seq(DOMAIN Folded)]
  /\ NameOf \in [Tools -> Seq(DOMAIN Folded)]
  /\ DestructiveTools = {t \in Tools : IsDestructiveTool(NameOf[t])}

-----------------------------------------------------------------------------
(* Property of the scan and the engine together *)

ConfigStates(cp, call, action) ==
  /\ cp # NoConfig
  /\ \/ cp.default = action /\ action = "require_approval"
     \/ \E i \in DOMAIN cp.rules :
          cp.rules[i].action = action /\ Applies(cp.rules[i], call)

\* Destructive-verb gate (engine.go phase 2 over destructive.go's scan): a tool
\* one of whose words, after folding, is a destructive verb is allowed only by
\* an allow rule some config in force during the call states for it, whatever
\* default_action says; and a tool none of whose words is one is sent to
\* approval only when a config says so.
DestructiveWordsGated ==
  \A c \in Callers : eval[c].pc = "done" =>
    LET call == eval[c].call
        stated(action) == \E cp \in eval[c].window :
                            ConfigStates(cp, call, action)
    IN  /\ eval[c].decision = "allow" /\ HasDestructiveWord(NameOf[call.tool])
             => stated("allow")
        /\ eval[c].decision = "require_approval"
             /\ ~HasDestructiveWord(NameOf[call.tool])
             => stated("require_approval")
=============================================================================
