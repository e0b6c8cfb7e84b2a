----------------------------- MODULE MCHubLock -----------------------------
(* Small instances of HubLock for TLC. *)
EXTENDS HubLock
=============================================================================
