------------------------------ MODULE Delivery ------------------------------
(***************************************************************************)
(* What the background transport of the SDK (src/src/transport.rs)         *)
(* promises about each envelope, with no queue, worker, spool directory or *)
(* rate limiter in sight.                                                  *)
(*                                                                         *)
(* A captured envelope is pending until the SDK settles it: the server     *)
(* acknowledged it, or it was written to the offline spool for a later     *)
(* run, or it was given up.  A stored envelope may still be acknowledged   *)
(* or given up by a later replay.  The ones given up are told apart: a     *)
(* discarded envelope was given up by a decision of the SDK, a lost one    *)
(* fell to a spool limit, to a crash or to a worker that never started.    *)
(***************************************************************************)
EXTENDS FiniteSets

CONSTANT Envelopes

VARIABLE status   \* [Envelopes -> Status]

Status == {"new", "pending", "stored", "acknowledged", "discarded", "lost"}

TypeOK == status \in [Envelopes -> Status]

Init == status = [e \in Envelopes |-> "new"]

With(S, s) == [e \in Envelopes |-> IF e \in S THEN s ELSE status[e]]

(* send_envelope hands e to the queue ... *)
Accept(e) == status[e] = "new" /\ status' = With({e}, "pending")

(* ... and e leaves it with an answer of the server, or without one *)
Settle(e) ==
  /\ status[e] \in {"pending", "stored"}
  /\ \E s \in {"acknowledged", "discarded"} : status' = With({e}, s)

(* An envelope the queue refuses, or the worker cannot deliver, goes to the *)
(* spool, whose limits may push out any of the stored ones, or e itself.   *)
Store(e, out) ==
  /\ status[e] \in {"new", "pending"}
  /\ out \subseteq {f \in Envelopes : status[f] = "stored"} \cup {e}
  /\ status' = [f \in Envelopes |-> IF f \in out THEN "lost"
                                    ELSE IF f = e THEN "stored" ELSE status[f]]

Refuse(e) == status[e] = "new" /\ status' = With({e}, "discarded")

(* A stored envelope pushed out while it was being replayed unsuccessfully *)
Evict(e) == status[e] = "stored" /\ status' = With({e}, "lost")

(* The process, or the worker before it ever ran, ends: what was pending in *)
(* memory goes with it.                                                    *)
Abandon(gone) ==
  /\ gone \subseteq {e \in Envelopes : status[e] \in {"pending", "stored"}}
  /\ {e \in Envelopes : status[e] = "pending"} \subseteq gone
  /\ status' = With(gone, "lost")

Next ==
  \/ \E e \in Envelopes : Accept(e) \/ Settle(e) \/ Refuse(e) \/ Evict(e)
  \/ \E e \in Envelopes, out \in SUBSET Envelopes : Store(e, out)
  \/ \E gone \in SUBSET Envelopes : Abandon(gone)

Spec == Init /\ [][Next]_status
=============================================================================
