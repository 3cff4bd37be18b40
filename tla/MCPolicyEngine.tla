--------------------------- MODULE MCPolicyEngine ---------------------------
(* The engine over tool names spelled in runes: rules of every shape over   *)
(* five tools and two targets, all configs of at most two of them under     *)
(* either default action, and some of three.                                *)
EXTENDS NamedEngine, TLC

CONSTANTS isolate, wipe, upper, longer, foreign, h1, h2, none, c1,
          v, w, W, x, dash, nbsp, fi

MCTools == {isolate, wipe, upper, longer, foreign}
MCTargets == {h1, h2}

\* The verb is "vw" of letters v and w; W is a capital w, fi a ligature that
\* NFKC splits in two, nbsp a space NFKC turns into an ASCII one (a boundary
\* like the dash).
MCVerbs == {<<v, w>>}
MCFolded ==
  [r \in {v, w, W, x, dash, nbsp, fi} |->
     IF r = W THEN <<w>> ELSE IF r = nbsp THEN <<dash>>
     ELSE IF r = fi THEN <<x, x>> ELSE <<r>>]

MCNameOf ==
  isolate :> <<x, dash, v>> @@ wipe :> <<x, dash, v, w>> @@
  upper :> <<v, W, dash, x>> @@ longer :> <<v, w, x, dash, v>> @@
  foreign :> <<fi, nbsp, v, w>>

MCPrintableTools == {t \in MCTools : ToSet(MCNameOf[t]) \cap {nbsp, fi} = {}}
MCDestructiveTools == {t \in MCTools : IsDestructiveTool(MCNameOf[t])}

Rule(lit, tool, targets, action) ==
  [literal |-> lit, tool |-> tool, targets |-> targets, action |-> action,
   wellFormed |-> TRUE]

RuleShapes ==
  { Rule(TRUE,  {wipe},        {},           "allow"),
    Rule(TRUE,  {wipe},        {{h1}},       "deny"),
    Rule(FALSE, MCTools,       {{h2}, {h1}}, "allow"),
    Rule(FALSE, MCTools,       {},           "deny"),
    Rule(FALSE, {isolate,wipe},{},           "require_approval"),
    Rule(FALSE, {isolate},     {{}},         "allow"),
    [Rule(TRUE, {isolate}, {}, "allow") EXCEPT !.wellFormed = FALSE],
    Rule(TRUE,  {isolate},     {},           "permit") }

\* Three rules, so that one of them moves past two others when sorted.
Triples ==
  [1..3 -> { Rule(TRUE,  {wipe},  {{h1}}, "deny"),
             Rule(FALSE, MCTools, {},     "deny"),
             Rule(FALSE, {wipe},  {},     "allow") }]

MCConfigs ==
  { [default |-> d, rules |-> rs] :
      d \in {"allow", "deny", ""},
      rs \in UNION {[1..n -> RuleShapes] : n \in 0..2} }
  \cup {[default |-> "deny", rules |-> rs] : rs \in Triples}
=============================================================================
