------------------------------ MODULE Bindings ------------------------------
(***************************************************************************)
(* What the action catalog promises its readers: a name stands for one     *)
(* declared meaning, and never for another until it has been taken out.    *)
(* Several names may be bound at once (one document declares them).        *)
(***************************************************************************)
CONSTANTS Names,     \* action names
          Meanings,  \* pairs <<n, m>>: some sound declaration gives n the
                     \* meaning m
          Seeded     \* the function the catalog starts with

VARIABLE bound       \* name -> meaning, for the names bound now

Init == bound = Seeded

Bind(new) ==
  /\ DOMAIN new \subseteq Names \ DOMAIN bound
  /\ \A n \in DOMAIN new : <<n, new[n]>> \in Meanings
  /\ bound' = [n \in DOMAIN bound \cup DOMAIN new |->
                 IF n \in DOMAIN bound THEN bound[n] ELSE new[n]]

Unbind(n) ==
  /\ n \in DOMAIN bound
  /\ bound' = [m \in DOMAIN bound \ {n} |-> bound[m]]

\* The names a step adds are those of bound' itself: new is its restriction.
Next ==
  \/ LET added == DOMAIN bound' \ DOMAIN bound
     IN  Bind([n \in added |-> bound'[n]])
  \/ \E n \in Names : Unbind(n)

Spec == Init /\ [][Next]_bound
=============================================================================
