------------------------ MODULE TransportInvariant -------------------------
(***************************************************************************)
(* The inductive invariant behind the safety properties of Transport, in   *)
(* the parts that TransportProofs proves one after another.  The module    *)
(* MCDiagnostics extends this one, so TLC can check it on small instances. *)
(***************************************************************************)
EXTENDS Transport

(* Who holds an envelope.  Beyond the properties it strengthens: what the    *)
(* worker holds was captured and is not on the channel as well, replays      *)
(* happen before the receive loop, and only "accepted" means acknowledged.   *)
Custody ==
  /\ Accounted
  /\ InHand \subseteq captured /\ InHand \cap Queued = {}
  /\ IF worker = "drain" THEN replaying ELSE replaying => HasEnvelope
  /\ worker = "accepted" => cur \in acked
  /\ ~replaying /\ HasEnvelope /\ cur \in acked => worker = "accepted"
  /\ Outstanding \cap spool = {}
  /\ NoResend

(* A flush on the channel, or about to be answered, belongs to a caller that *)
(* waits for it, and to no other place.                                      *)
Tickets ==
  /\ \A t \in Callers : t \in Range(queue) \cup {cur} => pc[t] = "wait"
  /\ \A t \in Callers : cur = t => t \notin Range(queue)
  /\ \A i, j \in DOMAIN queue : queue[i] = queue[j] /\ queue[i] # Nobody => i = j

(* A flush stands behind what was in memory when it was called. *)
Behind ==
  \A t \in Callers :
    /\ pending[t] \subseteq captured
    /\ \A j, k \in DOMAIN queue : queue[k] = t /\ queue[j] \in pending[t] => j < k
    /\ cur = t => pending[t] \cap Queued = {}

(* The handle is given up only to a join, and join ends with the worker. *)
Exit ==
  /\ worker = "gone" => queue = <<>>
  /\ \A t \in Callers : pc[t] = "joining" <=> joiner = t
  /\ ~handle /\ joiner = Nobody => worker = "gone"

(* What is in memory has not been given up as well, and a file that vanished *)
(* while it was being replayed was pushed out of the spool.                  *)
Ends ==
  /\ Outstanding \cap (dropped \cup evicted \cup lost) = {}
  /\ replaying => InHand \subseteq spool \cup evicted

(* All of it, with the types and with NeverHot, which is inductive as it is *)
IInv == TypeOK /\ Custody /\ Tickets /\ Behind /\ Exit /\ Ends /\ NeverHot
=============================================================================
