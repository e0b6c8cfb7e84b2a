---------------------------- MODULE MCTransport ----------------------------
(* Small instances of Transport for TLC: one envelope is an error event of  *)
(* one kilobyte, any other a log record of two.                             *)
EXTENDS TransportInvariant, TLC

CONSTANTS e1, error, log

MCCategories == {error, log}
MCCategoryOf == [e \in Envelopes |-> IF e = e1 THEN error ELSE log]
MCSizeOf == [e \in Envelopes |-> IF e = e1 THEN 1 ELSE 2]

Threads == Permutations(Callers)
=============================================================================
