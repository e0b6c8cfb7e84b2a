--------------------------- MODULE MCDiagnostics ---------------------------
(* Small instances of TransportDiagnostics for TLC. *)
EXTENDS TransportDiagnostics, TransportInvariant

CONSTANTS e1, error, log

MCCategories == {error, log}
MCCategoryOf == [e \in Envelopes |-> IF e = e1 THEN error ELSE log]
MCSizeOf == [e \in Envelopes |-> IF e = e1 THEN 1 ELSE 2]
=============================================================================
