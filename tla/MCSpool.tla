------------------------------ MODULE MCSpool ------------------------------
(* Small instances of EventSpool for TLC. *)
EXTENDS EventSpool, TLC

OneTwoTwo == <<1, 2, 2>>
Swap == Permutations(Processes)
=============================================================================
