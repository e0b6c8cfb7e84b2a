------------------------ MODULE TransportDiagnostics ------------------------
(***************************************************************************)
(* The diagnostics counters of ReqwestTransport (TransportCounters,        *)
(* src/src/transport.rs), laid over the steps of Transport that bump them. *)
(* Nothing in the transport reads a counter, so Transport does without.    *)
(* The three compression counters depend on payload bytes only and are     *)
(* left out.                                                               *)
(***************************************************************************)
EXTENDS Transport

VARIABLES
  counters,     \* [Counter -> Nat]
  entering,     \* per caller: the envelope it has counted and not yet sent, or Nobody
  replayDrops,  \* history: increments of "dropped" on behalf of a spool file
  abandoned     \* history: envelopes that went with the channel's receiver

Counter == {"captured", "sent", "failed", "dropped", "persisted", "replayed",
            "queueSize", "retries", "rateLimited"}

countedVars == <<vars, counters, entering, replayDrops, abandoned>>

Zero == [c \in Counter |-> 0]
Add(bumped) == counters' = [c \in Counter |-> counters[c] + IF c \in bumped THEN 1 ELSE 0]

(* persist_or_drop says which of the two it did *)
Kept(e) == IF e \in dropped' THEN {"dropped"} ELSE {"persisted"}

(* send_envelope counts before it asks for the sender's mutex *)
CountEnter(t, e) ==
  /\ pc[t] = "idle" /\ entering[t] = Nobody
  /\ e \notin captured /\ \A u \in Callers : entering[u] # e
  /\ entering' = [entering EXCEPT ![t] = e] /\ Add({"captured"})
  /\ UNCHANGED vars

CountCapture(t, e) ==
  /\ entering[t] = e /\ Capture(t, e) /\ entering' = [entering EXCEPT ![t] = Nobody]
  /\ Add(IF e \in Queued' THEN {} ELSE Kept(e))

(* Mutant: a flush message is taken off the gauge as well *)
CountReceiveAny ==
  /\ Receive
  /\ counters' = [counters EXCEPT !["queueSize"] = IF @ > 0 THEN @ - 1 ELSE 0]

CountReceive ==
  /\ Receive
  /\ IF cur' \in Envelopes
     THEN counters' = [counters EXCEPT !["queueSize"] = IF @ > 0 THEN @ - 1 ELSE 0]
     ELSE UNCHANGED counters

CountDrainNext ==   \* a file that is gone, or unreadable, counts as dropped
  \/ DrainNext /\ Add(IF worker' = "check" THEN {} ELSE {"dropped"})
  \/ DrainUnreadable /\ Add({"dropped"})

CountCheckLimit == CheckLimit /\ Add(IF worker' = "post" THEN {} ELSE {"rateLimited"})

CountPost ==
  \/ PostAccepted /\ Add({"sent"})
  \/ PostRefused /\ Add({"failed", "dropped"})
  \/ \E retryAfter \in BOOLEAN : PostTooMany(retryAfter) /\ Add({"failed", "rateLimited"})
  \/ /\ PostServerError \/ PostNetworkError
     /\ Add(IF worker' = "post" THEN {"retries"} ELSE {"failed"})

(* Mutant: a spooled envelope counts as dropped as well *)
CountSettleTwice ==
  Settle /\ Add(IF worker = "retryable" THEN {"dropped"} \cup Kept(cur) ELSE {})

CountSettle == Settle /\ Add(IF worker = "retryable" THEN Kept(cur) ELSE {})

(* deliver has counted a refused replay as dropped already *)
CountSettleReplay ==
  /\ SettleReplay
  /\ Add(CASE worker = "accepted" -> {"replayed"}
           [] worker = "permanent" -> {"dropped"}
           [] OTHER -> {})

CountWorkerStartFails ==
  /\ WorkerStartFails /\ abandoned' = abandoned + Cardinality(Queued)
  /\ UNCHANGED <<counters, entering, replayDrops>>

CountRestart(spawned) ==
  /\ Restart(spawned)
  /\ counters' = Zero /\ replayDrops' = 0 /\ abandoned' = 0
  /\ entering' = [t \in Callers |-> Nobody]

InitCounted ==
  /\ Init /\ entering = [t \in Callers |-> Nobody]
  /\ counters = Zero /\ replayDrops = 0 /\ abandoned = 0

CountSendReturn(t) == SendReturn(t) /\ Add({"queueSize"})

Sending == \E t \in Callers, e \in Envelopes : CountEnter(t, e) \/ CountCapture(t, e)

Counted ==
  \/ \E t \in Callers : CountSendReturn(t)
  \/ CountReceive \/ CountCheckLimit \/ CountSettle
  \/ CountPost /\ ~replaying

CountedReplay ==   \* the steps that may drop on behalf of a spool file
  /\ \/ CountDrainNext \/ CountSettleReplay
     \/ CountPost /\ replaying
  /\ replayDrops' = replayDrops + counters'["dropped"] - counters["dropped"]
  /\ UNCHANGED <<entering, abandoned>>

Uncounted ==
  \/ \E t \in Callers :
       \/ \E inShutdown \in BOOLEAN : FlushBegin(t, inShutdown) /\ entering[t] = Nobody
       \/ FlushSend(t) \/ FlushWorkerGone(t) \/ FlushTimeout(t) \/ Acknowledge(t)
       \/ TakeSender(t) \/ LockHandle(t) \/ Joined(t)
  \/ WorkerStart \/ DrainEnd \/ ReceiveClosed \/ AckAbandoned \/ LimitExpires

NextCounted ==
  \/ Sending /\ UNCHANGED <<replayDrops, abandoned>>
  \/ Counted /\ UNCHANGED <<entering, replayDrops, abandoned>>
  \/ CountedReplay
  \/ Uncounted /\ UNCHANGED <<counters, entering, replayDrops, abandoned>>
  \/ CountWorkerStartFails
  \/ \E spawned \in BOOLEAN : CountRestart(spawned)

SpecCounted == InitCounted /\ [][NextCounted]_countedVars

-----------------------------------------------------------------------------
(* Properties *)

Entered == {t \in Callers : entering[t] # Nobody}   \* counted, not yet handed over

(* Captured envelopes the counters have not yet said the end of *)
Undecided ==
  Queued \cup IF replaying \/ worker \in {"accepted", "permanent"} THEN {} ELSE InHand

(* The books balance: each envelope this process captured is counted sent,   *)
(* persisted or dropped exactly once, is still undecided or waiting for the  *)
(* sender's mutex, or went with a worker that never started, once the counts *)
(* that belong to replayed files are set aside.                              *)
BooksBalance ==
  counters["captured"] + counters["replayed"] + replayDrops
      + (IF replaying /\ worker = "accepted" THEN 1 ELSE 0)
    = counters["sent"] + counters["persisted"] + counters["dropped"]
      + Cardinality(Undecided) + Cardinality(Entered) + abandoned

(* The gauge never understates the channel, but for the send that has not    *)
(* been added yet.                                                           *)
GaugeCoversQueue ==
  counters["queueSize"] + (IF lock = Nobody THEN 0 ELSE 1) >= Cardinality(Queued)
=============================================================================
