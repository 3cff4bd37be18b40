----------------------------- MODULE Libraries -----------------------------
(***************************************************************************)
(* The parts of the program that are called and keep no goroutine:         *)
(* catalog, backend registry, event builder and startup.  They share no    *)
(* state, so each behaviour moves one of them, its subject, and the others *)
(* stay put.                                                               *)
(***************************************************************************)
EXTENDS Backend, EventBuilder, Startup

VARIABLE subject

vars == <<subject, catalogVars, backendVars, eventVars, startupVars>>

Init ==
  /\ subject \in {"catalog", "backend", "events", "startup"}
  /\ CatalogInit /\ BackendInit /\ EventInit /\ StartupInit

Next ==
  /\ UNCHANGED subject
  /\ \/ /\ subject = "catalog"
        /\ CatalogNext
        /\ UNCHANGED <<backendVars, eventVars, startupVars>>
     \/ /\ subject = "backend"
        /\ BackendNext
        /\ UNCHANGED <<catalogVars, eventVars, startupVars>>
     \/ /\ subject = "events"
        /\ EventNext
        /\ UNCHANGED <<catalogVars, backendVars, startupVars>>
     \/ /\ subject = "startup"
        /\ StartupNext
        /\ UNCHANGED <<catalogVars, backendVars, eventVars>>

Spec == Init /\ [][Next]_vars

\* Every package is in a state its types and its own bookkeeping allow: sound
\* actions only, records that follow their dispatch, cells of the heap that
\* exist, a config in the engine that passed validation.
TypeOK == CatalogTypeOK /\ BackendTypeOK /\ EventTypeOK /\ StartupTypeOK
=============================================================================
