----------------------------- MODULE Transport -----------------------------
(***************************************************************************)
(* ReqwestTransport (src/src/transport.rs): the bounded channel between the *)
(* application's threads and one background worker, the worker's delivery  *)
(* loop with its retries and rate limiter, and the offline spool that takes *)
(* what cannot be sent and is replayed when the next process starts.       *)
(*                                                                         *)
(* A step is what a thread does between two points where another thread    *)
(* can see it: a mutex, the channel, the wait for a response, the spool    *)
(* directory.  The diagnostics counters steer nothing and are added by     *)
(* TransportDiagnostics.                                                   *)
(***************************************************************************)
EXTENDS Naturals, Sequences, FiniteSets, FiniteSetsExt

CONSTANTS
  Envelopes,      \* the envelopes the application will ever capture
  Persistable,    \* those whose path is_persistable (all but sessions)
  Categories,
  CategoryOf,     \* [Envelopes -> Categories]
  SizeOf,         \* [Envelopes -> Nat], the size of the spool file
  Callers,        \* application threads
  Nobody,         \* no thread, and nothing in hand
  QueueSize,      \* options.transport_queue_size
  MaxRetries,     \* MAX_RETRIES, 3 in the code
  OfflineQueue,   \* whether EventSpool::from_options made a spool
  MaxEvents,      \* options.offline_queue_max_events
  MaxBytes,       \* options.offline_queue_max_bytes
  MaxRestarts     \* bound: how many times the process ends and starts again

ASSUME TransportAssumption ==
  /\ Persistable \subseteq Envelopes
  /\ CategoryOf \in [Envelopes -> Categories]
  /\ SizeOf \in [Envelopes -> Nat]
  /\ QueueSize \in Nat \ {0} /\ MaxEvents \in Nat \ {0}
  /\ MaxRetries \in Nat /\ MaxBytes \in Nat /\ MaxRestarts \in Nat
  /\ OfflineQueue \in BOOLEAN
  /\ Envelopes \cap Callers = {}
  /\ Nobody \notin Envelopes \cup Callers

(* A Message on the channel is the envelope to send, or stands for a Flush:  *)
(* the caller that waits on its ack channel, Nobody once it stopped waiting. *)
Message == Envelopes \cup Callers \cup {Nobody}

VARIABLES
  sender,      \* self.sender still holds the channel's sender
  lock,        \* who holds the sender's mutex, beyond one step
  handle,      \* self.handle still holds the worker's join handle
  joiner,      \* who holds the handle's mutex: the thread inside join()
  queue,       \* the channel, Seq(Message)
  pc,          \* where each caller is
  closing,     \* whether a caller's flush was called by shutdown
  drained,     \* what a caller's last flush returned
  worker,      \* where the worker is
  cur,         \* the message it has in hand
  replaying,   \* it is in drain_spool, not in the receive loop
  todo,        \* drain_spool's snapshot of the directory, not yet visited
  attempt,     \* retries of cur so far
  spool,       \* the envelopes in the spool directory
  globalHold,  \* limiter.global has a deadline in the future
  held,        \* categories whose limiter deadline is in the future
  restarts

(* History: read by the properties alone *)
VARIABLES
  captured,    \* handed to send_envelope
  delivered,   \* recorded by the server
  acked,       \* answered 2xx
  dropped,     \* given up by the SDK
  evicted,     \* pushed out of the spool
  lost,        \* gone with the process or with the channel's receiver
  pending,     \* per caller: what was in memory when its flush was called
  leftover     \* answered 2xx, but the process ended before remove_file, or it failed

callerVars  == <<pc, closing, drained, pending>>
channelVars == <<sender, lock, handle, joiner, queue>>
workerVars  == <<worker, cur, replaying, todo, attempt>>
limiterVars == <<globalHold, held>>
spoolVars   == <<spool, evicted, dropped>>
serverVars  == <<delivered, acked>>
runVars     == <<captured, lost, restarts, leftover>>
vars == <<callerVars, channelVars, workerVars, limiterVars, spoolVars, serverVars, runVars>>

CallerState == {"idle", "sent", "flush", "wait", "take", "join", "joining"}
Outcome == {"accepted", "permanent", "retryable"}   \* DeliveryOutcome, deliver returned it
WorkerState == {"start", "drain", "recv", "ack", "check", "post", "gone"} \cup Outcome

HasEnvelope == worker \in {"check", "post"} \cup Outcome   \* inside deliver, or just after

(* Types, and what the worker has in hand where: an envelope inside deliver, *)
(* a flush to answer before ack.send, nothing elsewhere                      *)
TypeOK ==
  /\ sender \in BOOLEAN /\ handle \in BOOLEAN
  /\ lock \in Callers \cup {Nobody} /\ joiner \in Callers \cup {Nobody}
  /\ queue \in Seq(Message)
  /\ pc \in [Callers -> CallerState]
  /\ closing \in [Callers -> BOOLEAN] /\ drained \in [Callers -> BOOLEAN]
  /\ pending \in [Callers -> SUBSET Envelopes]
  /\ worker \in WorkerState
  /\ cur \in IF HasEnvelope THEN Envelopes
            ELSE IF worker = "ack" THEN Callers \cup {Nobody} ELSE {Nobody}
  /\ replaying \in BOOLEAN /\ todo \in SUBSET Envelopes /\ attempt \in 0..MaxRetries
  /\ globalHold \in BOOLEAN /\ held \in SUBSET Categories
  /\ spool \in SUBSET Persistable
  /\ captured \in SUBSET Envelopes /\ delivered \in SUBSET Envelopes
  /\ acked \in SUBSET delivered /\ leftover \in SUBSET Envelopes
  /\ dropped \in SUBSET Envelopes /\ evicted \in SUBSET Envelopes
  /\ lost \in SUBSET Envelopes /\ restarts \in 0..MaxRestarts

-----------------------------------------------------------------------------
(* Views of the state *)

Queued == Envelopes \cap Range(queue)
InHand == {cur} \cap Envelopes
Outstanding == Queued \cup (IF replaying THEN {} ELSE InHand)   \* only in memory

HoldsSender(t) == pc[t] \in {"flush", "wait"}   \* flush cloned the sender
Limited(c) == globalHold \/ c \in held          \* RateLimiter::is_limited

-----------------------------------------------------------------------------
(* EventSpool, one directory operation at a time *)

Fits(files) ==
  Cardinality(files) <= MaxEvents /\ MapThenSumSet(LAMBDA e : SizeOf[e], files) <= MaxBytes

(* enforce_limits removes the first file by name for as long as the rest is  *)
(* over a limit.  Names sort by millisecond, then by a random uuid, and the  *)
(* clock may be set back, so any file may come first.  The result of         *)
(* fs::remove_file is ignored: any of those it chose may stay.               *)
Evictions(files) ==
  {out \in SUBSET files :
     /\ Fits(files \ out) \/ out = files
     /\ out = {} \/ \E last \in out : ~Fits(files \ (out \ {last}))}

Persist(e) ==
  /\ OfflineQueue /\ e \in Persistable
  /\ \E chosen \in Evictions(spool \cup {e}) : \E out \in SUBSET chosen :
       spool' = (spool \cup {e}) \ out /\ evicted' = evicted \cup out
  /\ UNCHANGED dropped

(* remove_file of drain_spool, whose result is ignored: the file may stay *)
RemoveFile(e) == spool' \in {spool, spool \ {e}} /\ UNCHANGED evicted

(* create_dir_all, to_vec or fs::write may fail for any envelope *)
Drop(e) == dropped' = dropped \cup {e} /\ UNCHANGED <<spool, evicted>>

PersistOrDrop(e) == Persist(e) \/ Drop(e)

-----------------------------------------------------------------------------
(* Callers: send_envelope *)

Room == worker # "gone" /\ Len(queue) < QueueSize   \* try_send would return Ok

(* Mutant: write ahead, the file is never removed after a live delivery *)
CaptureWritesAhead(t, e) ==
  /\ pc[t] = "idle" /\ lock = Nobody /\ e \notin captured
  /\ captured' = captured \cup {e}
  /\ PersistOrDrop(e)
  /\ IF sender /\ Room
     THEN queue' = Append(queue, e) /\ lock' = t /\ pc' = [pc EXCEPT ![t] = "sent"]
     ELSE UNCHANGED <<queue, lock, pc>>
  /\ UNCHANGED <<sender, handle, joiner, closing, drained, pending, workerVars,
                 limiterVars, serverVars, lost, restarts, leftover>>

(* try_send under the sender's mutex; what the channel refuses (full, no     *)
(* receiver, shut down) is persisted or dropped before the mutex is released *)
Capture(t, e) ==
  /\ pc[t] = "idle" /\ lock = Nobody /\ e \notin captured
  /\ captured' = captured \cup {e}
  /\ IF sender /\ Room
     THEN /\ queue' = Append(queue, e)
          /\ lock' = t /\ pc' = [pc EXCEPT ![t] = "sent"]
          /\ UNCHANGED spoolVars
     ELSE PersistOrDrop(e) /\ UNCHANGED <<queue, lock, pc>>
  /\ UNCHANGED <<sender, handle, joiner, closing, drained, pending, workerVars,
                 limiterVars, serverVars, lost, restarts, leftover>>

(* queue_size is incremented, then the mutex is released *)
SendReturn(t) ==
  /\ pc[t] = "sent"
  /\ pc' = [pc EXCEPT ![t] = "idle"] /\ lock' = Nobody
  /\ UNCHANGED <<closing, drained, pending, sender, handle, joiner, queue,
                 workerVars, limiterVars, spoolVars, serverVars, runVars>>

-----------------------------------------------------------------------------
(* Callers: flush, and shutdown, which starts with one *)

FlushReturn(t, result, inShutdown) ==
  /\ drained' = [drained EXCEPT ![t] = result]
  /\ pc' = [pc EXCEPT ![t] = IF inShutdown THEN "take" ELSE "idle"]
  /\ closing' = [closing EXCEPT ![t] = FALSE] /\ pending' = [pending EXCEPT ![t] = {}]

(* The sender is cloned under its mutex; with none left, flush says true *)
FlushBegin(t, inShutdown) ==
  /\ pc[t] = "idle" /\ lock = Nobody
  /\ IF sender
     THEN /\ pc' = [pc EXCEPT ![t] = "flush"] /\ UNCHANGED drained
          /\ closing' = [closing EXCEPT ![t] = inShutdown]
          /\ pending' = [pending EXCEPT ![t] = Outstanding]
     ELSE FlushReturn(t, TRUE, inShutdown)
  /\ UNCHANGED <<channelVars, workerVars, limiterVars, spoolVars, serverVars, runVars>>

(* Mutant: the flush overtakes what is on the channel *)
FlushSendFirst(t) ==
  /\ pc[t] = "flush" /\ Room
  /\ queue' = <<t>> \o queue /\ pc' = [pc EXCEPT ![t] = "wait"]
  /\ UNCHANGED <<closing, drained, pending, sender, lock, handle, joiner,
                 workerVars, limiterVars, spoolVars, serverVars, runVars>>

(* tx.send waits for room, for as long as it takes *)
FlushSend(t) ==
  /\ pc[t] = "flush" /\ Room
  /\ queue' = Append(queue, t) /\ pc' = [pc EXCEPT ![t] = "wait"]
  /\ UNCHANGED <<closing, drained, pending, sender, lock, handle, joiner,
                 workerVars, limiterVars, spoolVars, serverVars, runVars>>

FlushWorkerGone(t) ==
  /\ pc[t] = "flush" /\ worker = "gone"
  /\ FlushReturn(t, TRUE, closing[t])
  /\ UNCHANGED <<channelVars, workerVars, limiterVars, spoolVars,
                 serverVars, runVars>>

(* recv_timeout runs out, or the other end of the ack channel is gone.  The  *)
(* message stays where it is, with nobody left to tell.                      *)
FlushTimeout(t) ==
  /\ pc[t] = "wait"
  /\ FlushReturn(t, FALSE, closing[t])
  /\ queue' = [i \in DOMAIN queue |-> IF queue[i] = t THEN Nobody ELSE queue[i]]
  /\ cur' = IF cur = t THEN Nobody ELSE cur
  /\ UNCHANGED <<sender, lock, handle, joiner, worker, replaying, todo, attempt,
                 limiterVars, spoolVars, serverVars, runVars>>

(* Mutant: the sender is cloned, not taken *)
TakeSenderKeeps(t) ==
  /\ pc[t] = "take" /\ lock = Nobody
  /\ pc' = [pc EXCEPT ![t] = "join"]
  /\ UNCHANGED <<closing, drained, pending, channelVars, workerVars, limiterVars, spoolVars,
                 serverVars, runVars>>

(* shutdown after its flush: drop the sender, ... *)
TakeSender(t) ==
  /\ pc[t] = "take" /\ lock = Nobody
  /\ sender' = FALSE /\ pc' = [pc EXCEPT ![t] = "join"]
  /\ UNCHANGED <<closing, drained, pending, lock, handle, joiner, queue, workerVars,
                 limiterVars, spoolVars, serverVars, runVars>>

(* Mutant: the handle's mutex is not held during the join *)
LockHandleBriefly(t) ==
  /\ pc[t] = "join"
  /\ pc' = [pc EXCEPT ![t] = IF handle THEN "joining" ELSE "idle"]
  /\ handle' = FALSE
  /\ UNCHANGED <<closing, drained, pending, sender, lock, joiner, queue, workerVars,
                 limiterVars, spoolVars, serverVars, runVars>>

(* ... lock the handle and, if no shutdown before this one took it, ... *)
LockHandle(t) ==
  /\ pc[t] = "join" /\ joiner = Nobody
  /\ IF handle THEN joiner' = t /\ pc' = [pc EXCEPT ![t] = "joining"]
     ELSE pc' = [pc EXCEPT ![t] = "idle"] /\ UNCHANGED joiner
  /\ handle' = FALSE
  /\ UNCHANGED <<closing, drained, pending, sender, lock, queue, workerVars,
                 limiterVars, spoolVars, serverVars, runVars>>

(* ... join the worker, the handle's mutex held meanwhile *)
Joined(t) ==
  /\ pc[t] = "joining" /\ worker = "gone"
  /\ joiner' = Nobody /\ pc' = [pc EXCEPT ![t] = "idle"]
  /\ UNCHANGED <<closing, drained, pending, sender, lock, handle, queue, workerVars,
                 limiterVars, spoolVars, serverVars, runVars>>

-----------------------------------------------------------------------------
(* The worker: its thread, the receive loop and drain_spool *)

WorkerStart ==
  /\ worker = "start"
  /\ worker' = "drain"
  /\ replaying' = TRUE /\ todo' = IF OfflineQueue THEN spool ELSE {}
  /\ UNCHANGED <<callerVars, channelVars, cur, attempt, limiterVars, spoolVars,
                 serverVars, runVars>>

(* No tokio runtime or no HTTP client: the thread returns, and the receiver  *)
(* is dropped with everything on the channel                                 *)
WorkerStartFails ==
  /\ worker = "start"
  /\ worker' = "gone" /\ queue' = <<>> /\ lost' = lost \cup Queued
  /\ UNCHANGED <<callerVars, sender, lock, handle, joiner, cur, replaying, todo, attempt,
                 limiterVars, spoolVars, serverVars, captured, restarts, leftover>>

(* The next file of the snapshot; there is nothing to load once it was evicted *)
DrainNext ==
  /\ worker = "drain"
  /\ \E e \in todo :
       /\ todo' = todo \ {e}
       /\ IF e \in spool THEN cur' = e /\ worker' = "check" ELSE UNCHANGED <<cur, worker>>
  /\ UNCHANGED <<callerVars, channelVars, replaying, attempt, limiterVars, spoolVars,
                 serverVars, runVars>>

(* load_file fails on a file that is there: counted dropped, and removed *)
DrainUnreadable ==
  /\ worker = "drain"
  /\ \E e \in todo \cap spool :
       todo' = todo \ {e} /\ RemoveFile(e) /\ dropped' = dropped \cup {e}
  /\ UNCHANGED <<callerVars, channelVars, worker, cur, replaying, attempt, limiterVars,
                 serverVars, runVars>>

DrainEnd ==
  /\ worker = "drain" /\ todo = {}
  /\ worker' = "recv" /\ replaying' = FALSE
  /\ UNCHANGED <<callerVars, channelVars, cur, todo, attempt, limiterVars, spoolVars,
                 serverVars, runVars>>

Receive ==
  /\ worker = "recv" /\ queue # <<>>
  /\ cur' = Head(queue) /\ queue' = Tail(queue)
  /\ worker' = IF Head(queue) \in Envelopes THEN "check" ELSE "ack"
  /\ UNCHANGED <<callerVars, sender, lock, handle, joiner, replaying, todo, attempt,
                 limiterVars, spoolVars, serverVars, runVars>>

(* recv fails once the channel is empty and every sender, cloned ones        *)
(* included, is dropped                                                      *)
ReceiveClosed ==
  /\ worker = "recv" /\ queue = <<>>
  /\ ~sender /\ \A t \in Callers : ~HoldsSender(t)
  /\ worker' = "gone"
  /\ UNCHANGED <<callerVars, channelVars, cur, replaying, todo, attempt, limiterVars,
                 spoolVars, serverVars, runVars>>

(* The ack channel has no buffer: the caller takes the ack as it is given *)
Acknowledge(t) ==
  /\ worker = "ack" /\ cur = t
  /\ FlushReturn(t, TRUE, closing[t])
  /\ worker' = "recv" /\ cur' = Nobody
  /\ UNCHANGED <<channelVars, replaying, todo, attempt, limiterVars,
                 spoolVars, serverVars, runVars>>

AckAbandoned ==
  /\ worker = "ack" /\ cur = Nobody
  /\ worker' = "recv"
  /\ UNCHANGED <<callerVars, channelVars, cur, replaying, todo, attempt, limiterVars,
                 spoolVars, serverVars, runVars>>

-----------------------------------------------------------------------------
(* The worker: deliver *)

CheckLimit ==
  /\ worker = "check"
  /\ worker' = IF Limited(CategoryOf[cur]) THEN "retryable" ELSE "post"
  /\ UNCHANGED <<callerVars, channelVars, cur, replaying, todo, attempt, limiterVars,
                 spoolVars, serverVars, runVars>>

Return(result) ==
  /\ worker' = result /\ attempt' = 0
  /\ UNCHANGED <<callerVars, channelVars, cur, replaying, todo, spoolVars, runVars>>

PostAccepted ==   \* 2xx
  /\ worker = "post"
  /\ delivered' = delivered \cup {cur} /\ acked' = acked \cup {cur}
  /\ UNCHANGED limiterVars
  /\ Return("accepted")

PostRefused ==   \* any other status but 429 and 5xx
  /\ worker = "post"
  /\ UNCHANGED <<limiterVars, serverVars>>
  /\ Return("permanent")

(* Mutant: a 429 is retried in place like a 5xx *)
PostTooManyRetried(retryAfter) ==
  /\ worker = "post"
  /\ IF retryAfter THEN globalHold' = TRUE /\ UNCHANGED held
     ELSE held' = held \cup {CategoryOf[cur]} /\ UNCHANGED globalHold
  /\ IF attempt >= MaxRetries THEN worker' = "retryable" /\ attempt' = 0
     ELSE attempt' = attempt + 1 /\ UNCHANGED worker
  /\ UNCHANGED <<callerVars, channelVars, cur, replaying, todo, spoolVars, serverVars,
                 runVars>>

(* 429: with a readable Retry-After everything is held, else the category *)
PostTooMany(retryAfter) ==
  /\ worker = "post"
  /\ IF retryAfter THEN globalHold' = TRUE /\ UNCHANGED held
     ELSE held' = held \cup {CategoryOf[cur]} /\ UNCHANGED globalHold
  /\ UNCHANGED serverVars
  /\ Return("retryable")

(* Mutants: one attempt too many; attempts counted round *)
RetryOnceMore ==
  /\ worker = "post"
  /\ IF attempt > MaxRetries THEN worker' = "retryable" /\ attempt' = 0
     ELSE attempt' = attempt + 1 /\ UNCHANGED worker
  /\ UNCHANGED <<callerVars, channelVars, cur, replaying, todo, limiterVars, spoolVars,
                 runVars>>

RetryForever ==
  /\ worker = "post"
  /\ attempt' = (attempt + 1) % (MaxRetries + 1)
  /\ UNCHANGED <<callerVars, channelVars, worker, cur, replaying, todo, limiterVars,
                 spoolVars, runVars>>

RetryOrGiveUp ==
  /\ worker = "post"
  /\ IF attempt >= MaxRetries THEN worker' = "retryable" /\ attempt' = 0
     ELSE attempt' = attempt + 1 /\ UNCHANGED worker
  /\ UNCHANGED <<callerVars, channelVars, cur, replaying, todo, limiterVars, spoolVars,
                 runVars>>

PostServerError == RetryOrGiveUp /\ UNCHANGED serverVars   \* 5xx

(* No response: the request may have been recorded all the same *)
PostNetworkError ==
  /\ RetryOrGiveUp
  /\ delivered' \in {delivered, delivered \cup {cur}} /\ UNCHANGED acked

(* Mutant: a retryable failure is taken for settled *)
SettleForgets ==
  /\ worker \in Outcome /\ ~replaying
  /\ IF worker = "permanent" THEN Drop(cur) ELSE UNCHANGED spoolVars
  /\ worker' = "recv" /\ cur' = Nobody
  /\ UNCHANGED <<callerVars, channelVars, replaying, todo, attempt, limiterVars,
                 serverVars, runVars>>

(* Mutant: what was delivered goes to the spool as well *)
SettleSpoolsAll ==
  /\ worker \in Outcome /\ ~replaying
  /\ IF worker = "permanent" THEN Drop(cur) ELSE PersistOrDrop(cur)
  /\ worker' = "recv" /\ cur' = Nobody
  /\ UNCHANGED <<callerVars, channelVars, replaying, todo, attempt, limiterVars,
                 serverVars, runVars>>

Settle ==
  /\ worker \in Outcome /\ ~replaying
  /\ \/ worker = "accepted" /\ UNCHANGED spoolVars
     \/ worker = "permanent" /\ Drop(cur)
     \/ worker = "retryable" /\ PersistOrDrop(cur)
  /\ worker' = "recv" /\ cur' = Nobody
  /\ UNCHANGED <<callerVars, channelVars, replaying, todo, attempt, limiterVars,
                 serverVars, runVars>>

(* Mutant: every replayed file goes, delivered or not *)
SettleReplayRemovesAll ==
  /\ worker \in Outcome /\ replaying
  /\ worker' = "drain" /\ cur' = Nobody
  /\ spool' = spool \ {cur} /\ UNCHANGED evicted
  /\ dropped' = dropped \cup (IF worker = "permanent" THEN {cur} ELSE {})
  /\ UNCHANGED <<callerVars, channelVars, replaying, todo, attempt, limiterVars, serverVars,
                 runVars>>

(* A replayed file is removed, if it can be, unless the failure is retryable: *)
(* then the drain stops and leaves it, and the rest, for the next start       *)
SettleReplay ==
  /\ worker \in Outcome /\ replaying
  /\ IF worker = "retryable"
     THEN /\ worker' = "recv" /\ replaying' = FALSE /\ todo' = {}
          /\ UNCHANGED <<spoolVars, leftover>>
     ELSE /\ worker' = "drain" /\ UNCHANGED <<replaying, todo>>
          /\ RemoveFile(cur)
          /\ dropped' = dropped \cup (IF worker = "permanent" THEN {cur} ELSE {})
          /\ leftover' = leftover \cup
               (IF worker = "accepted" THEN {cur} \cap spool' ELSE {})
  /\ cur' = Nobody
  /\ UNCHANGED <<callerVars, channelVars, attempt, limiterVars, serverVars, captured, lost,
                 restarts>>

-----------------------------------------------------------------------------
(* The clock, and the end of the process *)

LimitExpires ==
  /\ \/ globalHold /\ globalHold' = FALSE /\ UNCHANGED held
     \/ \E c \in held : held' = held \ {c} /\ UNCHANGED globalHold
  /\ UNCHANGED <<callerVars, channelVars, workerVars, spoolVars, serverVars, runVars>>

(* thread::spawn may fail, and leaves neither a worker nor a handle *)
Init ==
  /\ sender = TRUE /\ handle \in BOOLEAN /\ lock = Nobody /\ joiner = Nobody
  /\ queue = <<>>
  /\ pc = [t \in Callers |-> "idle"] /\ closing = [t \in Callers |-> FALSE]
  /\ drained = [t \in Callers |-> FALSE] /\ pending = [t \in Callers |-> {}]
  /\ worker = IF handle THEN "start" ELSE "gone"
  /\ cur = Nobody /\ replaying = FALSE /\ todo = {} /\ attempt = 0
  /\ globalHold = FALSE /\ held = {}
  /\ spool = {} /\ restarts = 0 /\ captured = {} /\ delivered = {} /\ acked = {}
  /\ dropped = {} /\ evicted = {} /\ lost = {} /\ leftover = {}

(* The process ends, at any point, and another one starts: only the spool    *)
(* directory, and what the server recorded, survive                          *)
Restart(spawned) ==
  /\ restarts < MaxRestarts /\ restarts' = restarts + 1
  /\ lost' = lost \cup (Outstanding \ acked)
  /\ leftover' = leftover \cup (spool \cap acked)
  /\ sender' = TRUE /\ handle' = spawned /\ lock' = Nobody /\ joiner' = Nobody
  /\ queue' = <<>>
  /\ pc' = [t \in Callers |-> "idle"] /\ closing' = [t \in Callers |-> FALSE]
  /\ drained' = [t \in Callers |-> FALSE] /\ pending' = [t \in Callers |-> {}]
  /\ worker' = IF spawned THEN "start" ELSE "gone"
  /\ cur' = Nobody /\ replaying' = FALSE /\ todo' = {} /\ attempt' = 0
  /\ globalHold' = FALSE /\ held' = {}
  /\ UNCHANGED <<spoolVars, serverVars, captured>>

-----------------------------------------------------------------------------

CallerStep(t) ==
  \/ SendReturn(t) \/ FlushSend(t) \/ FlushWorkerGone(t) \/ FlushTimeout(t)
  \/ TakeSender(t) \/ LockHandle(t) \/ Joined(t)

Application(t) ==   \* what the application decides to call
  \/ \E e \in Envelopes : Capture(t, e)
  \/ \E inShutdown \in BOOLEAN : FlushBegin(t, inShutdown)

WorkerStep ==
  \/ WorkerStart \/ WorkerStartFails \/ DrainNext \/ DrainUnreadable \/ DrainEnd
  \/ Receive \/ ReceiveClosed \/ AckAbandoned \/ CheckLimit
  \/ PostAccepted \/ PostRefused \/ PostServerError \/ PostNetworkError
  \/ \E retryAfter \in BOOLEAN : PostTooMany(retryAfter)
  \/ Settle \/ SettleReplay
  \/ \E t \in Callers : Acknowledge(t)

Next ==
  \/ \E t \in Callers : Application(t) \/ CallerStep(t)
  \/ WorkerStep
  \/ LimitExpires
  \/ \E spawned \in BOOLEAN : Restart(spawned)

Spec == Init /\ [][Next]_vars

(* Threads are scheduled, requests end within reqwest's 30 s timeout, and    *)
(* recv_timeout runs out.  Nothing makes the application call anything, the  *)
(* process end, or a rate limit run out.                                     *)
Fairness == WF_vars(WorkerStep) /\ \A t \in Callers : WF_vars(CallerStep(t))

FairSpec == Spec /\ Fairness

-----------------------------------------------------------------------------
(* Properties *)

(* No envelope vanishes: whatever was handed to send_envelope is on the      *)
(* channel, in the worker's hand or in the spool, or the SDK knows its end.  *)
Accounted ==
  captured = Outstanding \cup spool \cup acked \cup dropped \cup evicted \cup lost

(* An envelope that may still be sent is in one place only: never both in    *)
(* memory and in the spool, and never twice on the channel.  Either would    *)
(* have send_envelope's single call reported twice.                          *)
OnePlace ==
  /\ Outstanding \cap spool = {}
  /\ InHand \cap Queued = {}
  /\ \A i, j \in DOMAIN queue : queue[i] = queue[j] /\ queue[i] # Nobody => i = j

(* Once the server answered 2xx the SDK has the envelope nowhere it could be *)
(* sent from again: not on the channel, and not in the spool either, but for *)
(* the file drain_spool is about to remove.  Two things leave such a file to *)
(* the next start: the process ended between the answer and remove_file, or  *)
(* remove_file, whose result is ignored, failed.                             *)
NoResend ==
  /\ acked \cap Queued = {}
  /\ acked \cap spool \subseteq
       leftover \cup (IF replaying /\ worker = "accepted" THEN InHand ELSE {})

(* "never send hot into a limit" (ratelimit.rs:74): a request is under way,  *)
(* first attempt or retry, replay or not, only for a category that no 429    *)
(* has closed in the meantime.                                               *)
NeverHot == worker = "post" => ~Limited(CategoryOf[cur])

(* A flush that the worker acknowledges has outlived every envelope that was *)
(* in memory when it was called: channel order and the single worker make    *)
(* the ack arrive behind them, retries and timeouts of other flushes or not. *)
AckOutlivesPending ==
  [][\A t \in Callers :
       pc[t] = "wait" /\ pc'[t] # "wait" /\ drained'[t]
         => pending[t] \cap Outstanding' = {}]_vars

(* "Returns `true` if drained." (transport.rs:29): when flush says true, what *)
(* was in memory when it was called is settled.  Not so without a sender.    *)
TrueMeansDrained ==
  [][\A t \in Callers :
       ~drained[t] /\ drained'[t]
         => (IF pc[t] = "idle" THEN Outstanding ELSE pending[t]) \cap Outstanding' = {}]_vars

(* When shutdown returns, from any thread and however its flush ended, the   *)
(* worker has exited and nothing captured before it is left in memory: a     *)
(* shutdown whose timeout ran out during its flush waits on in join() for as *)
(* long as the worker takes, where transport.rs:32 has it wait "up to        *)
(* `timeout`".                                                               *)
ShutdownSettles ==
  [][\A t \in Callers :
       pc[t] \in {"join", "joining"} /\ pc'[t] = "idle" /\ restarts' = restarts
         => worker = "gone" /\ Outstanding' = {}]_vars

(* Every envelope handed to the channel is settled by the worker, whatever   *)
(* the server answers: retries end and limits do not block.                  *)
EventuallySettled == \A e \in Envelopes : e \in Outstanding ~> e \notin Outstanding

(* shutdown always comes back, though not within its timeout: its flush may  *)
(* first wait for room on the channel, and join() for what the worker still  *)
(* has to send and for as long as other threads' flushes keep the channel    *)
(* open.  Nothing keeps those from taking the room again and again, so it is *)
(* stated of runs in which the other threads' flushes come to an end.        *)
ShutdownReturns ==
  \A t \in Callers :
    <>[](\A u \in Callers \ {t} : pc[u] # "flush")
      => (closing[t] \/ pc[t] \in {"take", "join", "joining"} ~> pc[t] = "idle")

-----------------------------------------------------------------------------
(* The promise the transport keeps, in terms of its own state.  An envelope  *)
(* that is being replayed stays stored, even if its file is evicted.         *)

Stored == spool \cup (IF replaying THEN InHand ELSE {})

DeliveryStatus ==
  [e \in Envelopes |->
     IF e \in acked THEN "acknowledged"
     ELSE IF e \in Outstanding THEN "pending"
     ELSE IF e \in Stored THEN "stored"
     ELSE IF e \in evicted \cup lost THEN "lost"
     ELSE IF e \in dropped THEN "discarded"
     ELSE "new"]

Promise == INSTANCE Delivery WITH status <- DeliveryStatus

(* Transport implements Delivery: whatever the interleaving, an envelope     *)
(* only moves as Delivery says, and never back from an end.                  *)
DeliveryPromise == Promise!Spec
=============================================================================
