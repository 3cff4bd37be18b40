--------------------------- MODULE MCAuditEmitter ---------------------------
(* The shortest and the longest list of sinks New builds.                   *)
EXTENDS AuditInvariant

CONSTANTS e1, c1, c2, nobody

MCSinkLists == { <<"stderr">>, <<"stderr", "stdout", "file">> }
=============================================================================
