------------------------------ MODULE VerbGate ------------------------------
(***************************************************************************)
(* internal/policy/destructive.go: the word-boundary scan that decides     *)
(* which tool names meet the destructive-verb gate.  A name is a short     *)
(* sequence of runes; only what the scan tells apart is kept of a rune:    *)
(* what NFKC and lower-casing turn it into, and whether the result is a    *)
(* word boundary.                                                          *)
(***************************************************************************)
EXTENDS Naturals, Sequences, SequencesExt

CONSTANTS DestructiveVerbs, \* lower-case verbs, each a sequence of runes
          Separators,       \* runes for which isSeparator is true
          Folded            \* rune -> its runes after NFKC and lower-casing

ASSUME VerbAssumption ==
  \A v \in DestructiveVerbs :
    /\ v \in Seq(DOMAIN Folded) /\ v # <<>>
    /\ \A k \in DOMAIN v : v[k] \notin Separators

-----------------------------------------------------------------------------

isSeparator(r) == r \in Separators

\* needle occurs in runes with a boundary, or an end, on either side.
containsWordRunes(runes, needle) ==
  LET n == Len(needle)
  IN  /\ needle # <<>>
      /\ \E i \in 1..Len(runes) :
           /\ i + n <= Len(runes) + 1
           /\ SubSeq(runes, i, i + n - 1) = needle
           /\ i = 1 \/ isSeparator(runes[i - 1])
           /\ i + n = Len(runes) + 1 \/ isSeparator(runes[i + n])

\* NFKC can turn one rune into several (a ligature) and lower-casing follows,
\* so the scan sees a sequence whose length is not that of the name.
Normalize(name) == FlattenSeq([k \in DOMAIN name |-> Folded[name[k]]])

\* Slip: the scan runs over the name as the agent spelled it.
IsDestructiveAsSpelled(name) ==
  \E v \in DestructiveVerbs : containsWordRunes(name, v)

IsDestructiveTool(name) ==
  \E v \in DestructiveVerbs : containsWordRunes(Normalize(name), v)

-----------------------------------------------------------------------------
(* What the gate is for, stated without the scan: the words of a name are  *)
(* what stands between two neighbouring boundaries.                        *)

Boundaries(runes) ==
  {0, Len(runes) + 1} \cup {k \in 1..Len(runes) : isSeparator(runes[k])}

Neighbours(runes, a, b) ==
  /\ a \in Boundaries(runes) /\ b \in Boundaries(runes) /\ a < b
  /\ \A k \in Boundaries(runes) : k <= a \/ k >= b

Words(runes) ==
  {SubSeq(runes, c[1] + 1, c[2] - 1) :
     c \in {d \in (0..Len(runes)) \X (1..(Len(runes) + 1)) :
              Neighbours(runes, d[1], d[2])}}

HasDestructiveWord(name) ==
  Words(Normalize(name)) \cap DestructiveVerbs # {}
=============================================================================
