-------------------------- MODULE TransportProofs --------------------------
(***************************************************************************)
(* Proofs about Transport for every value of its constants: any number of  *)
(* envelopes, threads, retries and restarts, any channel and spool limits. *)
(* First its invariants, then that it implements Delivery under the        *)
(* mapping DeliveryStatus, then the books of the counters that             *)
(* TransportDiagnostics lays over it.                                      *)
(***************************************************************************)
EXTENDS TransportInvariant, TransportDiagnostics, SequenceLemmas, FiniteSetTheorems

USE TransportAssumption DEF callerVars, channelVars, workerVars, limiterVars,
  spoolVars, serverVars, runVars

-----------------------------------------------------------------------------
(* Type correctness *)

LEMMA EvictionsAreFiles ==
  ASSUME NEW files, NEW out \in Evictions(files) PROVE out \subseteq files
BY DEF Evictions

LEMMA TypeInit == Init => TypeOK
<1> SUFFICES ASSUME Init PROVE TypeOK
  OBVIOUS
<1>1. /\ pc \in [Callers -> CallerState] /\ closing \in [Callers -> BOOLEAN]
      /\ drained \in [Callers -> BOOLEAN] /\ pending \in [Callers -> SUBSET Envelopes]
  BY DEF Init, CallerState
<1>2. ~HasEnvelope /\ worker # "ack" /\ worker \in WorkerState /\ cur = Nobody
  BY DEF Init, WorkerState, Outcome, HasEnvelope
<1>3. queue \in Seq(Message)
  BY EmptySeq DEF Init
<1>4. restarts \in 0..MaxRestarts /\ attempt \in 0..MaxRetries
  BY DEF Init
<1>5. cur \in IF HasEnvelope THEN Envelopes
              ELSE IF worker = "ack" THEN Callers \cup {Nobody} ELSE {Nobody}
  BY <1>2
<1> QED BY <1>1, <1>2, <1>3, <1>4, <1>5 DEF Init, TypeOK

(* What TypeOK says of the variables the callers change *)
LEMMA TypeCaller ==
  ASSUME TypeOK, NEW t \in Callers, CallerStep(t) \/ Application(t)
  PROVE  TypeOK'
<1> USE DEF TypeOK, Message, CallerState, HasEnvelope
<1>1. ASSUME NEW e \in Envelopes, Capture(t, e) PROVE TypeOK'
  <2>1. spool' \in SUBSET Persistable /\ evicted' \in SUBSET Envelopes
        /\ dropped' \in SUBSET Envelopes
    BY <1>1, EvictionsAreFiles DEF Capture, PersistOrDrop, Persist, Drop
  <2>2. queue' \in Seq(Message)
    <3>1. CASE sender /\ Room
      <4>1. Append(queue, e) \in Seq(Message)
        BY SendAdds
      <4> QED BY <1>1, <3>1, <4>1 DEF Capture
    <3>2. CASE ~(sender /\ Room)
      BY <1>1, <3>2 DEF Capture
    <3> QED BY <3>1, <3>2
  <2>3. pc' \in [Callers -> CallerState] /\ lock' \in Callers \cup {Nobody}
    BY <1>1 DEF Capture
  <2> QED BY <1>1, <2>1, <2>2, <2>3 DEF Capture
<1>2. ASSUME NEW inShutdown \in BOOLEAN, FlushBegin(t, inShutdown) PROVE TypeOK'
  <2>1. Outstanding \subseteq Envelopes
    BY DEF Outstanding, Queued, InHand
  <2>2. pending' \in [Callers -> SUBSET Envelopes]
    <3>1. CASE sender
      BY <1>2, <2>1, <3>1 DEF FlushBegin
    <3>2. CASE ~sender
      BY <1>2, <3>2 DEF FlushBegin, FlushReturn
    <3> QED BY <3>1, <3>2
  <2>3. /\ pc' \in [Callers -> CallerState] /\ closing' \in [Callers -> BOOLEAN]
        /\ drained' \in [Callers -> BOOLEAN]
    <3>1. CASE sender
      BY <1>2, <3>1 DEF FlushBegin
    <3>2. CASE ~sender
      <4>1. PICK at \in CallerState :
              /\ pc' = [pc EXCEPT ![t] = at] /\ closing' = [closing EXCEPT ![t] = FALSE]
              /\ drained' = [drained EXCEPT ![t] = TRUE]
        BY <1>2, <3>2 DEF FlushBegin, FlushReturn
      <4> QED BY <4>1
    <3> QED BY <3>1, <3>2
  <2> QED BY <1>2, <2>2, <2>3 DEF FlushBegin
<1>3. CASE SendReturn(t)
  BY <1>3 DEF SendReturn
<1>4. CASE FlushSend(t)
  <2>1. queue' \in Seq(Message)
    BY <1>4, SendAdds DEF FlushSend
  <2> QED BY <1>4, <2>1 DEF FlushSend
<1>5. CASE FlushWorkerGone(t)
  BY <1>5 DEF FlushWorkerGone, FlushReturn
<1>6. CASE FlushTimeout(t)
  <2>1. queue' \in Seq(Message)
    <3>1. queue' \in [DOMAIN queue -> Message]
      <4>1. \A i \in DOMAIN queue : queue[i] \in Message
        BY LenProperties
      <4> QED BY <1>6, <4>1 DEF FlushTimeout
    <3> QED BY <3>1, SameLengthIsSeq
  <2> QED BY <1>6, <2>1 DEF FlushTimeout, FlushReturn
<1>7. CASE TakeSender(t)
  BY <1>7 DEF TakeSender
<1>8. CASE LockHandle(t)
  BY <1>8 DEF LockHandle
<1>9. CASE Joined(t)
  BY <1>9 DEF Joined
<1> QED BY <1>1, <1>2, <1>3, <1>4, <1>5, <1>6, <1>7, <1>8, <1>9 DEF CallerStep, Application

LEMMA TypeWorker == ASSUME TypeOK, WorkerStep PROVE TypeOK'
<1> USE DEF TypeOK, Message, WorkerState, Outcome, HasEnvelope
<1>1. CASE WorkerStart
  BY <1>1 DEF WorkerStart
<1>2. CASE WorkerStartFails
  BY <1>2, EmptySeq DEF WorkerStartFails, Queued
<1>3. CASE DrainNext \/ DrainUnreadable
  BY <1>3 DEF DrainNext, DrainUnreadable, RemoveFile
<1>4. CASE DrainEnd
  BY <1>4 DEF DrainEnd
<1>5. CASE Receive
  <2>1. queue' \in Seq(Message) /\ Head(queue) \in Message
    BY <1>5, ReceiveTakes DEF Receive
  <2> QED BY <1>5, <2>1 DEF Receive
<1>6. CASE ReceiveClosed
  BY <1>6 DEF ReceiveClosed
<1>7. CASE AckAbandoned
  BY <1>7 DEF AckAbandoned
<1>8. CASE CheckLimit
  BY <1>8 DEF CheckLimit
<1>9. CASE PostAccepted
  BY <1>9 DEF PostAccepted, Return
<1>10. CASE PostRefused
  BY <1>10 DEF PostRefused, Return
<1>11. CASE PostServerError
  BY <1>11 DEF PostServerError, RetryOrGiveUp
<1>12. CASE PostNetworkError
  BY <1>12 DEF PostNetworkError, RetryOrGiveUp
<1>13. ASSUME NEW retryAfter \in BOOLEAN, PostTooMany(retryAfter) PROVE TypeOK'
  <2>1. CategoryOf[cur] \in Categories
    BY <1>13 DEF PostTooMany
  <2>2. globalHold' \in BOOLEAN /\ held' \in SUBSET Categories
    BY <1>13, <2>1 DEF PostTooMany
  <2> QED BY <1>13, <2>2 DEF PostTooMany, Return
<1>14. CASE Settle
  <2>1. spool' \in SUBSET Persistable /\ evicted' \in SUBSET Envelopes
        /\ dropped' \in SUBSET Envelopes
    BY <1>14, EvictionsAreFiles DEF Settle, PersistOrDrop, Persist, Drop
  <2> QED BY <1>14, <2>1 DEF Settle
<1>15. CASE SettleReplay
  BY <1>15 DEF SettleReplay, RemoveFile
<1>16. ASSUME NEW t \in Callers, Acknowledge(t) PROVE TypeOK'
  BY <1>16 DEF Acknowledge, FlushReturn, CallerState
<1> QED BY <1>1, <1>2, <1>3, <1>4, <1>5, <1>6, <1>7, <1>8, <1>9, <1>10, <1>11, <1>12,
           <1>13, <1>14, <1>15, <1>16 DEF WorkerStep

LEMMA TypeStep == TypeOK /\ [Next]_vars => TypeOK'
<1> SUFFICES ASSUME TypeOK, [Next]_vars PROVE TypeOK'
  OBVIOUS
<1>1. ASSUME NEW t \in Callers, Application(t) \/ CallerStep(t) PROVE TypeOK'
  BY <1>1, TypeCaller
<1>2. CASE WorkerStep
  BY <1>2, TypeWorker
<1>3. CASE LimitExpires
  BY <1>3 DEF LimitExpires, TypeOK, HasEnvelope
<1>4. ASSUME NEW spawned \in BOOLEAN, Restart(spawned) PROVE TypeOK'
  <2>1. Outstanding \subseteq Envelopes
    BY DEF Outstanding, Queued, InHand
  <2>2. /\ pc' \in [Callers -> CallerState] /\ closing' \in [Callers -> BOOLEAN]
        /\ drained' \in [Callers -> BOOLEAN] /\ pending' \in [Callers -> SUBSET Envelopes]
    BY <1>4 DEF Restart, CallerState
  <2>3. ~HasEnvelope' /\ worker' # "ack" /\ worker' \in WorkerState /\ cur' = Nobody
    BY <1>4 DEF Restart, WorkerState, Outcome, HasEnvelope
  <2>4. /\ queue' \in Seq(Message) /\ restarts' \in 0..MaxRestarts /\ attempt' \in 0..MaxRetries
    BY <1>4, EmptySeq DEF Restart, TypeOK
  <2> QED BY <1>4, <2>1, <2>2, <2>3, <2>4 DEF Restart, TypeOK
<1>5. CASE UNCHANGED vars
  BY <1>5 DEF vars, TypeOK, HasEnvelope
<1> QED BY <1>1, <1>2, <1>3, <1>4, <1>5 DEF Next

(* Every variable keeps its type, and a message is in the worker's hand only *)
(* where the code holds one.                                                 *)
THEOREM TypeCorrect == Spec => []TypeOK
BY TypeInit, TypeStep, PTL DEF Spec

-----------------------------------------------------------------------------
(* What each step does to the envelopes in memory *)

LEMMA QueuedSend ==   \* a send adds its envelope; a flush adds none
  ASSUME TypeOK, NEW m \in Message, queue' = Append(queue, m)
  PROVE  Queued' = Queued \cup ({m} \cap Envelopes)
BY SendAdds DEF TypeOK, Queued

LEMMA QueuedReceive ==
  ASSUME TypeOK, Tickets, Receive
  PROVE  /\ Queued = Queued' \cup ({cur'} \cap Envelopes)
         /\ cur' \in Message /\ cur' = queue[1]
         /\ cur' # Nobody => cur' \notin Range(queue')
<1>1. /\ Head(queue) \in Message /\ Head(queue) = queue[1] /\ 1 \in DOMAIN queue
      /\ Len(queue) \in Nat
      /\ DOMAIN Tail(queue) = 1..(Len(queue) - 1)
      /\ \A i \in DOMAIN Tail(queue) : i + 1 \in DOMAIN queue /\ Tail(queue)[i] = queue[i + 1]
      /\ Range(queue) = Range(Tail(queue)) \cup {Head(queue)}
  BY ReceiveTakes, LenProperties DEF TypeOK, Receive
<1>2. cur' = Head(queue) /\ queue' = Tail(queue)
  BY DEF Receive
<1>3. ASSUME cur' # Nobody, cur' \in Range(queue') PROVE FALSE
  <2>1. PICK i \in DOMAIN Tail(queue) : Tail(queue)[i] = queue[1]
    BY <1>1, <1>2, <1>3 DEF Range
  <2>2. queue[i + 1] = queue[1] /\ i + 1 \in DOMAIN queue /\ i + 1 # 1
    BY <1>1, <2>1
  <2> QED BY <1>1, <1>2, <1>3, <2>2 DEF Tickets
<1> QED BY <1>1, <1>2, <1>3 DEF Queued

LEMMA QueuedTimeout ==
  ASSUME TypeOK, NEW t \in Callers, FlushTimeout(t)
  PROVE  Queued' = Queued /\ InHand' = InHand
<1>1. queue' = [i \in DOMAIN queue |-> IF queue[i] = t THEN Nobody ELSE queue[i]]
  BY DEF FlushTimeout
<1>2. /\ Range(queue') \subseteq Range(queue) \cup {Nobody}
      /\ \A x \in Range(queue) : x # t => x \in Range(queue')
  <2>1. DOMAIN queue' = DOMAIN queue
        /\ \A i \in DOMAIN queue : queue'[i] = IF queue[i] = t THEN Nobody ELSE queue[i]
    BY <1>1
  <2> QED BY <2>1, RenameKeeps
<1>3. cur' = IF cur = t THEN Nobody ELSE cur
  BY DEF FlushTimeout
<1> QED BY <1>2, <1>3 DEF Queued, InHand

LEMMA QueuedEmpty == queue' = <<>> => Queued' = {}
BY NothingOnEmpty DEF Queued

-----------------------------------------------------------------------------
(* Custody *)

custodyVars == <<worker, cur, replaying, spool, captured, acked, dropped, evicted, lost,
                 leftover>>

LEMMA CustodyFrame ==
  ASSUME Custody, UNCHANGED custodyVars, Queued' = Queued PROVE Custody'
BY DEF Custody, custodyVars, Accounted, NoResend, Outstanding, InHand, HasEnvelope

LEMMA PersistOrDropKeeps ==
  ASSUME NEW e \in Envelopes, PersistOrDrop(e)
  PROVE  /\ spool' \subseteq spool \cup {e}
         /\ spool \cup dropped \cup evicted \cup {e} = spool' \cup dropped' \cup evicted'
BY EvictionsAreFiles DEF PersistOrDrop, Persist, Drop

LEMMA PersistIs ==   \* what it wrote, less what enforce_limits managed to remove
  ASSUME NEW e \in Envelopes, Persist(e)
  PROVE  \E out \in SUBSET (spool \cup {e}) :
           /\ spool' = (spool \cup {e}) \ out /\ evicted' = evicted \cup out
           /\ dropped' = dropped
BY EvictionsAreFiles DEF Persist

LEMMA CustodyCaller ==
  ASSUME TypeOK, Custody, NEW t \in Callers, CallerStep(t) \/ Application(t)
  PROVE  Custody'
<1>1. ASSUME NEW e \in Envelopes, Capture(t, e) PROVE Custody'
  <2>1. /\ captured' = captured \cup {e} /\ e \notin captured
        /\ UNCHANGED <<worker, cur, replaying, acked, lost, leftover>>
    BY <1>1 DEF Capture
  <2>2. e \notin Outstanding /\ e \notin spool /\ e \notin acked /\ e # cur
    BY <2>1 DEF Custody, Accounted, InHand
  <2>3. CASE sender /\ Room
    <3>1. Queued' = Queued \cup {e}
      BY <1>1, <2>3, QueuedSend DEF Capture, Message
    <3>2. UNCHANGED <<spool, dropped, evicted>>
      BY <1>1, <2>3 DEF Capture
    <3> QED BY <2>1, <2>2, <3>1, <3>2
        DEF Custody, Accounted, NoResend, Outstanding, InHand, HasEnvelope
  <2>4. CASE ~(sender /\ Room)
    <3>1. PersistOrDrop(e) /\ Queued' = Queued
      BY <1>1, <2>4 DEF Capture, Queued
    <3> QED BY <2>1, <2>2, <3>1, PersistOrDropKeeps
        DEF Custody, Accounted, NoResend, Outstanding, InHand, HasEnvelope
  <2> QED BY <2>3, <2>4
<1>2. CASE FlushSend(t)
  <2>1. Queued' = Queued
    <3>1. t \in Message /\ t \notin Envelopes /\ queue' = Append(queue, t)
      BY <1>2 DEF FlushSend, Message
    <3>2. Queued' = Queued \cup ({t} \cap Envelopes)
      BY <3>1, QueuedSend
    <3> QED BY <3>1, <3>2
  <2> QED BY <1>2, <2>1, CustodyFrame DEF FlushSend, custodyVars
<1>3. CASE FlushTimeout(t)
  <2>1. Queued' = Queued /\ InHand' = InHand
    BY <1>3, QueuedTimeout
  <2>2. UNCHANGED <<worker, replaying, spool, captured, acked, dropped, evicted, lost,
                    leftover>>
    BY <1>3 DEF FlushTimeout
  <2>3. HasEnvelope => cur' = cur
    BY <1>3 DEF FlushTimeout, TypeOK
  <2>4. (worker = "accepted") => HasEnvelope
    BY DEF HasEnvelope, Outcome
  <2> QED BY <2>1, <2>2, <2>3, <2>4
      DEF Custody, Accounted, NoResend, Outstanding, HasEnvelope
<1>4. ASSUME NEW inShutdown \in BOOLEAN, FlushBegin(t, inShutdown) PROVE Custody'
  BY <1>4, CustodyFrame DEF FlushBegin, custodyVars, Queued
<1>5. CASE SendReturn(t) \/ FlushWorkerGone(t) \/ TakeSender(t) \/ LockHandle(t) \/ Joined(t)
  BY <1>5, CustodyFrame
     DEF SendReturn, FlushWorkerGone, TakeSender, LockHandle, Joined, custodyVars, Queued
<1> QED BY <1>1, <1>2, <1>3, <1>4, <1>5 DEF CallerStep, Application

LEMMA CustodyWorker == ASSUME TypeOK, Custody, Tickets, WorkerStep PROVE Custody'
<1> USE DEF HasEnvelope, Outcome
<1> DEFINE rest == <<spool, captured, acked, dropped, evicted, lost, leftover>>
<1>1. CASE WorkerStart \/ DrainEnd \/ ReceiveClosed \/ AckAbandoned \/ CheckLimit
  <2>1. UNCHANGED <<cur, queue, rest>> /\ worker' # "accepted"
    BY <1>1 DEF WorkerStart, DrainEnd, ReceiveClosed, AckAbandoned, CheckLimit
  <2> QED BY <1>1, <2>1
      DEF WorkerStart, DrainEnd, ReceiveClosed, AckAbandoned, CheckLimit, TypeOK,
          Custody, Accounted, NoResend, Outstanding, InHand, Queued
<1>2. CASE WorkerStartFails
  <2>1. Queued' = {}
    BY <1>2, QueuedEmpty DEF WorkerStartFails
  <2> QED BY <1>2, <2>1
      DEF WorkerStartFails, TypeOK, Custody, Accounted, NoResend, Outstanding, InHand
<1>3. CASE DrainNext
  <2>1. UNCHANGED <<queue, replaying, rest>> /\ replaying
    BY <1>3 DEF DrainNext, Custody
  <2>2. (UNCHANGED <<cur, worker>>) \/ (cur' \in spool /\ worker' = "check")
    BY <1>3 DEF DrainNext
  <2> QED BY <1>3, <2>1, <2>2
      DEF DrainNext, TypeOK, Custody, Accounted, NoResend, Outstanding, InHand, Queued
<1>10. CASE DrainUnreadable
  <2>1. UNCHANGED <<queue, cur, worker, replaying, captured, acked, evicted, lost, leftover>>
    BY <1>10 DEF DrainUnreadable, RemoveFile
  <2>2. PICK e \in spool : spool' \in {spool, spool \ {e}} /\ dropped' = dropped \cup {e}
    BY <1>10 DEF DrainUnreadable, RemoveFile
  <2> QED BY <2>1, <2>2 DEF Custody, Accounted, NoResend, Outstanding, InHand, Queued
<1>4. CASE Receive
  <2>1. /\ Queued = Queued' \cup ({cur'} \cap Envelopes)
        /\ cur' \in Envelopes => cur' \notin Queued'
    BY <1>4, QueuedReceive DEF Queued
  <2>2. /\ UNCHANGED <<replaying, rest>> /\ ~replaying /\ InHand = {}
        /\ worker' = IF cur' \in Envelopes THEN "check" ELSE "ack"
    BY <1>4 DEF Receive, Custody, TypeOK, InHand
  <2> QED BY <1>4, <2>1, <2>2 DEF Custody, Accounted, NoResend, Outstanding, InHand
<1>5. ASSUME NEW t \in Callers, Acknowledge(t) PROVE Custody'
  BY <1>5 DEF Acknowledge, TypeOK, Custody, Accounted, NoResend, Outstanding, InHand, Queued
<1>6. CASE PostAccepted
  <2>1. /\ UNCHANGED <<queue, cur, replaying, spool, captured, dropped, evicted, lost,
                       leftover>>
        /\ worker' = "accepted" /\ acked' = acked \cup {cur} /\ cur \in Envelopes
    BY <1>6 DEF PostAccepted, Return, TypeOK
  <2> QED BY <2>1 DEF Custody, Accounted, NoResend, Outstanding, InHand, Queued
<1>7. CASE PostRefused \/ (\E ra \in BOOLEAN : PostTooMany(ra)) \/ PostServerError \/ PostNetworkError
  <2>1. /\ UNCHANGED <<queue, cur, replaying, rest>>
        /\ worker = "post" /\ worker' \in {"permanent", "retryable", "post"}
    BY <1>7 DEF PostRefused, PostTooMany, PostServerError, PostNetworkError, RetryOrGiveUp, Return
  <2> QED BY <2>1 DEF Custody, Accounted, NoResend, Outstanding, InHand, Queued
<1>8. CASE Settle
  <2>1. /\ UNCHANGED <<queue, replaying, captured, acked, lost, leftover>> /\ ~replaying
        /\ cur' = Nobody /\ worker' = "recv" /\ cur \in Envelopes
    BY <1>8 DEF Settle, TypeOK
  <2>2. InHand = {cur} /\ InHand' = {} /\ Queued' = Queued
    BY <2>1 DEF InHand, Queued
  <2>3. CASE worker = "accepted" /\ UNCHANGED spoolVars
    BY <2>1, <2>2, <2>3 DEF Custody, Accounted, NoResend, Outstanding
  <2>4. CASE worker = "permanent" /\ Drop(cur)
    BY <2>1, <2>2, <2>4 DEF Drop, Custody, Accounted, NoResend, Outstanding
  <2>5. CASE worker = "retryable" /\ PersistOrDrop(cur)
    <3>1. cur \notin acked /\ cur \notin Queued
      BY <2>1, <2>2, <2>5 DEF Custody
    <3> QED BY <2>1, <2>2, <2>5, <3>1, PersistOrDropKeeps
        DEF Custody, Accounted, NoResend, Outstanding
  <2> QED BY <1>8, <2>3, <2>4, <2>5 DEF Settle
<1>9. CASE SettleReplay
  <2>1. /\ UNCHANGED <<queue, captured, acked, evicted, lost>>
        /\ replaying /\ cur' = Nobody /\ cur \in Envelopes
    BY <1>9 DEF SettleReplay, RemoveFile, TypeOK
  <2>2. InHand = {cur} /\ InHand' = {} /\ Queued' = Queued
    BY <2>1 DEF InHand, Queued
  <2>3. CASE worker = "retryable"
    <3>1. UNCHANGED <<spool, dropped, leftover>> /\ worker' = "recv" /\ replaying' = FALSE
      BY <1>9, <2>3 DEF SettleReplay
    <3> QED BY <2>1, <2>2, <2>3, <3>1 DEF Custody, Accounted, NoResend, Outstanding
  <2>4. CASE worker # "retryable"
    <3>1. /\ spool' \in {spool, spool \ {cur}} /\ worker' = "drain" /\ replaying' = replaying
          /\ dropped' = dropped \cup (IF worker = "permanent" THEN {cur} ELSE {})
          /\ worker \in {"accepted", "permanent"}
          /\ leftover' = leftover \cup (IF worker = "accepted" THEN {cur} \cap spool' ELSE {})
      BY <1>9, <2>4 DEF SettleReplay, RemoveFile
    <3>2. Accounted'
      BY <2>1, <2>2, <3>1 DEF Custody, Accounted, Outstanding
    <3>3. NoResend'
      BY <2>1, <2>2, <3>1 DEF Custody, NoResend
    <3> QED BY <2>1, <2>2, <3>1, <3>2, <3>3 DEF Custody, Outstanding
  <2> QED BY <2>3, <2>4
<1> QED BY <1>1, <1>2, <1>3, <1>4, <1>5, <1>6, <1>7, <1>8, <1>9, <1>10 DEF WorkerStep

LEMMA CustodyStep == TypeOK /\ Custody /\ Tickets /\ [Next]_vars => Custody'
<1> SUFFICES ASSUME TypeOK, Custody, Tickets, [Next]_vars PROVE Custody'
  OBVIOUS
<1>1. ASSUME NEW t \in Callers, Application(t) \/ CallerStep(t) PROVE Custody'
  BY <1>1, CustodyCaller
<1>2. CASE WorkerStep
  BY <1>2, CustodyWorker
<1>3. CASE LimitExpires
  BY <1>3, CustodyFrame DEF LimitExpires, custodyVars, Queued
<1>4. ASSUME NEW spawned \in BOOLEAN, Restart(spawned) PROVE Custody'
  <2>1. Queued' = {} /\ InHand' = {} /\ ~replaying'
    BY <1>4, QueuedEmpty DEF Restart, InHand
  <2>2. lost' = lost \cup (Outstanding \ acked) /\ leftover' = leftover \cup (spool \cap acked)
        /\ UNCHANGED <<spool, evicted, dropped, acked, captured>> /\ worker' \in {"start", "gone"}
    BY <1>4 DEF Restart
  <2> QED BY <2>1, <2>2 DEF Custody, Accounted, NoResend, Outstanding, HasEnvelope, Outcome
<1>5. CASE UNCHANGED vars
  BY <1>5, CustodyFrame DEF vars, custodyVars, Queued
<1> QED BY <1>1, <1>2, <1>3, <1>4, <1>5 DEF Next

-----------------------------------------------------------------------------
(* Tickets and Behind: where the flushes are on the channel *)

ticketVars == <<queue, cur, pc, pending, captured>>

LEMMA TicketsFrame ==
  ASSUME Tickets, Behind, UNCHANGED <<queue, cur, pending>>, captured \subseteq captured',
         \A t \in Callers : pc[t] = "wait" => pc'[t] = "wait"
  PROVE  Tickets' /\ Behind'
BY DEF Tickets, Behind, Queued

(* A message that was not on the channel or in hand goes to its end *)
LEMMA TicketsSend ==
  ASSUME TypeOK, Tickets, Behind, NEW m \in Envelopes \cup Callers,
         m \notin Range(queue) \cup {cur}, queue' = Append(queue, m),
         \A t \in Callers : m \notin pending[t],
         UNCHANGED <<cur, pending>>, captured \subseteq captured',
         \A t \in Callers : pc[t] = "wait" \/ m = t => pc'[t] = "wait"
  PROVE  Tickets' /\ Behind'
<1>0. queue \in Seq(Message) /\ m \in Message /\ queue' = Append(queue, m)
  BY DEF TypeOK, Message
<1>1. /\ Range(queue') = Range(queue) \cup {m} /\ Len(queue) \in Nat
      /\ DOMAIN queue = 1..Len(queue) /\ DOMAIN queue' = 1..(Len(queue) + 1)
      /\ \A i \in DOMAIN queue : queue'[i] = queue[i]
      /\ queue'[Len(queue) + 1] = m
  <2>1. Len(queue) \in Nat /\ DOMAIN queue = 1..Len(queue)
    BY <1>0, LenProperties
  <2> QED BY <1>0, <2>1, SendAdds
<1>2. \A i \in DOMAIN queue : queue[i] # m
  BY DEF Range
<1>3. Tickets'
  <2>1. ASSUME NEW i \in DOMAIN queue', NEW j \in DOMAIN queue',
               queue'[i] = queue'[j], queue'[i] # Nobody
        PROVE  i = j
    <3>1. CASE i \in DOMAIN queue /\ j \in DOMAIN queue
      BY <1>1, <2>1, <3>1 DEF Tickets
    <3>2. CASE i = Len(queue) + 1 \/ j = Len(queue) + 1
      BY <1>1, <1>2, <2>1, <3>2
    <3> QED BY <1>1, <3>1, <3>2
  <2> QED BY <1>1, <2>1 DEF Tickets
<1>4. Behind'
  <2>1. ASSUME NEW t \in Callers, NEW j \in DOMAIN queue', NEW k \in DOMAIN queue',
               queue'[k] = t, queue'[j] \in pending[t]
        PROVE  j < k
    <3>1. j \in DOMAIN queue
      BY <1>1, <2>1
    <3>2. CASE k \in DOMAIN queue
      BY <1>1, <2>1, <3>1, <3>2 DEF Behind
    <3>3. CASE k = Len(queue) + 1
      BY <1>1, <3>1, <3>3
    <3> QED BY <1>1, <3>2, <3>3
  <2>2. ASSUME NEW t \in Callers, cur = t PROVE pending[t] \cap Queued' = {}
    BY <1>1, <2>2 DEF Behind, Queued
  <2> QED BY <2>1, <2>2 DEF Behind
<1> QED BY <1>3, <1>4

LEMMA TicketsReceive ==
  ASSUME TypeOK, Tickets, Behind, Receive PROVE Tickets' /\ Behind'
<1>1. /\ cur' = queue[1] /\ 1 \in DOMAIN queue /\ Len(queue) \in Nat
      /\ DOMAIN queue = 1..Len(queue) /\ DOMAIN queue' = 1..(Len(queue) - 1)
      /\ \A i \in DOMAIN queue' : i + 1 \in DOMAIN queue /\ queue'[i] = queue[i + 1]
      /\ Range(queue) = Range(queue') \cup {cur'}
  BY ReceiveTakes, LenProperties DEF TypeOK, Receive
<1>2. cur' # Nobody => cur' \notin Range(queue')
  BY QueuedReceive
<1>3. UNCHANGED <<pc, pending, captured>>
  BY DEF Receive
<1>4. Nobody \notin Callers
  OBVIOUS
<1>5. Tickets'
  <2>1. ASSUME NEW i \in DOMAIN queue', NEW j \in DOMAIN queue',
               queue'[i] = queue'[j], queue'[i] # Nobody
        PROVE  i = j
    <3>1. i + 1 = j + 1
      BY <1>1, <2>1 DEF Tickets
    <3> QED BY <1>1, <3>1
  <2> QED BY <1>1, <1>2, <1>3, <1>4, <2>1 DEF Tickets
<1>6. Behind'
  <2>1. ASSUME NEW t \in Callers, NEW j \in DOMAIN queue', NEW k \in DOMAIN queue',
               queue'[k] = t, queue'[j] \in pending[t]
        PROVE  j < k
    <3>1. j + 1 < k + 1
      BY <1>1, <2>1 DEF Behind
    <3> QED BY <1>1, <3>1
  <2>2. ASSUME NEW t \in Callers, cur' = t, NEW e \in pending[t] \cap Queued' PROVE FALSE
    <3>1. PICK j \in DOMAIN queue : queue[j] = e
      BY <1>1, <2>2 DEF Queued, Range
    <3>2. j < 1
      BY <1>1, <2>2, <3>1 DEF Behind
    <3> QED BY <1>1, <3>1, <3>2
  <2> QED BY <1>3, <2>1, <2>2 DEF Behind
<1> QED BY <1>5, <1>6

LEMMA TicketsTimeout ==
  ASSUME TypeOK, Tickets, Behind, NEW t \in Callers, FlushTimeout(t)
  PROVE  Tickets' /\ Behind'
<1>1. /\ DOMAIN queue' = DOMAIN queue
      /\ \A i \in DOMAIN queue : queue'[i] = IF queue[i] = t THEN Nobody ELSE queue[i]
      /\ Range(queue') \subseteq Range(queue) \cup {Nobody}
      /\ t \notin Range(queue')
  <2>1. /\ DOMAIN queue' = DOMAIN queue
        /\ \A i \in DOMAIN queue : queue'[i] = IF queue[i] = t THEN Nobody ELSE queue[i]
    BY DEF FlushTimeout
  <2>2. Range(queue') \subseteq Range(queue) \cup {Nobody}
    BY <2>1, SMT DEF Range
  <2>3. t \notin Range(queue')
    BY <2>1 DEF Range
  <2> QED BY <2>1, <2>2, <2>3
<1>2. cur' = (IF cur = t THEN Nobody ELSE cur) /\ captured' = captured
  BY DEF FlushTimeout
<1>3. /\ \A u \in Callers \ {t} : pc'[u] = pc[u] /\ pending'[u] = pending[u]
      /\ pending'[t] = {}
  BY DEF FlushTimeout, FlushReturn, TypeOK
<1>4. Tickets'
  BY <1>1, <1>2, <1>3 DEF Tickets
<1>5. Behind'
  <2>1. Queued' = Queued
    BY QueuedTimeout
  <2>2. ASSUME NEW u \in Callers, u # t, NEW j \in DOMAIN queue', NEW k \in DOMAIN queue',
               queue'[k] = u, queue'[j] \in pending[u]
        PROVE  j < k
    <3>1. pending[u] \subseteq Envelopes
      BY DEF TypeOK
    <3>2. queue[k] = u /\ queue[j] = queue'[j]
      BY <1>1, <2>2, <3>1
    <3> QED BY <1>1, <2>2, <3>2 DEF Behind
  <2> QED BY <1>1, <1>2, <1>3, <2>1, <2>2 DEF Behind
<1> QED BY <1>4, <1>5

LEMMA TicketsCaller ==
  ASSUME TypeOK, Custody, Tickets, Behind,
         NEW t \in Callers, CallerStep(t) \/ Application(t)
  PROVE  Tickets' /\ Behind'
<1>1. ASSUME NEW e \in Envelopes, Capture(t, e) PROVE Tickets' /\ Behind'
  <2>1. /\ e \notin captured /\ captured \subseteq captured' /\ UNCHANGED <<cur, pending>>
        /\ \A u \in Callers : pc[u] = "wait" => pc'[u] = "wait"
    BY <1>1 DEF Capture, TypeOK
  <2>2. CASE sender /\ Room
    <3>1. queue' = Append(queue, e)
      BY <1>1, <2>2 DEF Capture
    <3>2. e \notin Range(queue) \cup {cur} /\ \A u \in Callers : e \notin pending[u] /\ e # u
      BY <2>1 DEF Custody, Accounted, Outstanding, Queued, InHand, Behind
    <3> QED BY <2>1, <3>1, <3>2, TicketsSend
  <2>3. CASE ~(sender /\ Room)
    <3>1. queue' = queue
      BY <1>1, <2>3 DEF Capture
    <3> QED BY <2>1, <3>1, TicketsFrame
  <2> QED BY <2>2, <2>3
<1>2. CASE FlushSend(t)
  <2>1. t \notin Range(queue) \cup {cur}
    BY <1>2 DEF FlushSend, Tickets
  <2>2. \A u \in Callers : t \notin pending[u]
    BY DEF TypeOK
  <2>3. /\ queue' = Append(queue, t) /\ UNCHANGED <<cur, pending, captured>>
        /\ \A u \in Callers : pc[u] = "wait" \/ t = u => pc'[u] = "wait"
    BY <1>2 DEF FlushSend, TypeOK
  <2> QED BY <2>1, <2>2, <2>3, TicketsSend
<1>3. CASE FlushTimeout(t)
  BY <1>3, TicketsTimeout
<1>4. ASSUME FlushWorkerGone(t) \/ \E inShutdown \in BOOLEAN : FlushBegin(t, inShutdown)
      PROVE  Tickets' /\ Behind'
  <2>1. pc[t] # "wait" /\ UNCHANGED <<queue, cur, captured>>
    BY <1>4 DEF FlushWorkerGone, FlushBegin
  <2>2. /\ \A u \in Callers \ {t} : pc'[u] = pc[u] /\ pending'[u] = pending[u]
        /\ pending'[t] \in {{}, Outstanding}
    BY <1>4 DEF FlushWorkerGone, FlushBegin, FlushReturn, TypeOK
  <2>3. t \notin Range(queue) \cup {cur}
    BY <2>1 DEF Tickets
  <2>4. Outstanding \subseteq captured
    BY DEF Custody, Accounted
  <2>5. Tickets'
    BY <2>1, <2>2, <2>3 DEF Tickets
  <2>6. \A k \in DOMAIN queue : queue[k] # t
    BY <2>3 DEF Range
  <2>7. Behind'
    BY <2>1, <2>2, <2>3, <2>4, <2>6 DEF Behind, Queued
  <2> QED BY <2>5, <2>7
<1>5. CASE SendReturn(t) \/ TakeSender(t) \/ LockHandle(t) \/ Joined(t)
  <2>1. UNCHANGED <<queue, cur, pending, captured>>
    BY <1>5 DEF SendReturn, TakeSender, LockHandle, Joined
  <2>2. \A u \in Callers : pc[u] = "wait" => pc'[u] = "wait"
    BY <1>5 DEF SendReturn, TakeSender, LockHandle, Joined, TypeOK
  <2> QED BY <2>1, <2>2, TicketsFrame
<1> QED BY <1>1, <1>2, <1>3, <1>4, <1>5 DEF CallerStep, Application

LEMMA TicketsWorker ==
  ASSUME TypeOK, Custody, Tickets, Behind, WorkerStep PROVE Tickets' /\ Behind'
<1> USE DEF HasEnvelope, Outcome
<1>1. CASE WorkerStartFails
  <2>1. UNCHANGED <<cur, pc, pending, captured>> /\ queue' = <<>> /\ cur \notin Callers
    BY <1>1 DEF WorkerStartFails, TypeOK
  <2>2. DOMAIN queue' = {} /\ Range(queue') = {}
    BY <2>1, NothingOnEmpty
  <2> QED BY <2>1, <2>2 DEF Tickets, Behind
<1>2. CASE Receive
  BY <1>2, TicketsReceive
<1>3. ASSUME NEW t \in Callers, Acknowledge(t) PROVE Tickets' /\ Behind'
  <2>1. /\ cur = t /\ cur' = Nobody /\ UNCHANGED <<queue, captured>>
        /\ \A u \in Callers \ {t} : pc'[u] = pc[u] /\ pending'[u] = pending[u]
        /\ pending'[t] = {}
    BY <1>3 DEF Acknowledge, FlushReturn, TypeOK
  <2> QED BY <2>1 DEF Tickets, Behind
<1>4. ASSUME UNCHANGED <<queue, pc, pending, captured>>, cur' \notin Callers
      PROVE  Tickets' /\ Behind'
  BY <1>4 DEF Tickets, Behind
<1>5. CASE DrainNext
  <2>1. cur \notin Callers /\ UNCHANGED <<queue, pc, pending, captured>>
    BY <1>5 DEF DrainNext, TypeOK
  <2>2. cur' \notin Callers
    BY <1>5, <2>1 DEF DrainNext, TypeOK
  <2> QED BY <1>4, <2>1, <2>2
<1>6. CASE WorkerStart \/ DrainUnreadable \/ DrainEnd \/ ReceiveClosed \/ AckAbandoned
           \/ CheckLimit
  BY <1>4, <1>6 DEF WorkerStart, DrainUnreadable, DrainEnd, ReceiveClosed, AckAbandoned, CheckLimit, TypeOK
<1>7. CASE PostAccepted \/ PostRefused \/ (\E ra \in BOOLEAN : PostTooMany(ra))
           \/ PostServerError \/ PostNetworkError
  BY <1>4, <1>7
     DEF PostAccepted, PostRefused, PostTooMany, PostServerError, PostNetworkError,
         RetryOrGiveUp, Return, TypeOK
<1>8. CASE Settle \/ SettleReplay
  BY <1>4, <1>8 DEF Settle, SettleReplay
<1> QED BY <1>1, <1>2, <1>3, <1>5, <1>6, <1>7, <1>8 DEF WorkerStep

LEMMA TicketsStep ==
  TypeOK /\ Custody /\ Tickets /\ Behind /\ [Next]_vars => Tickets' /\ Behind'
<1> SUFFICES ASSUME TypeOK, Custody, Tickets, Behind, [Next]_vars PROVE Tickets' /\ Behind'
  OBVIOUS
<1>1. ASSUME NEW t \in Callers, Application(t) \/ CallerStep(t) PROVE Tickets' /\ Behind'
  BY <1>1, TicketsCaller
<1>2. CASE WorkerStep
  BY <1>2, TicketsWorker
<1>3. CASE LimitExpires \/ UNCHANGED vars
  BY <1>3, TicketsFrame DEF LimitExpires, vars
<1>4. ASSUME NEW spawned \in BOOLEAN, Restart(spawned) PROVE Tickets' /\ Behind'
  <2>1. /\ queue' = <<>> /\ cur' = Nobody /\ \A t \in Callers : pending'[t] = {}
    BY <1>4 DEF Restart
  <2>2. DOMAIN queue' = {} /\ Range(queue') = {}
    BY <2>1, NothingOnEmpty
  <2> QED BY <2>1, <2>2 DEF Tickets, Behind
<1> QED BY <1>1, <1>2, <1>3, <1>4 DEF Next

-----------------------------------------------------------------------------
(* Exit: the worker, its handle and whoever joins it *)

LEMMA ExitStep == TypeOK /\ Tickets /\ Exit /\ [Next]_vars => Exit'
<1> SUFFICES ASSUME TypeOK, Tickets, Exit, [Next]_vars PROVE Exit'
  OBVIOUS
<1>1. ASSUME NEW t \in Callers, Application(t) PROVE Exit'
  <2>1. /\ UNCHANGED <<handle, joiner, worker>>
        /\ worker = "gone" => queue' = queue
        /\ \A u \in Callers : pc'[u] = "joining" <=> pc[u] = "joining"
    BY <1>1 DEF Application, Capture, FlushBegin, FlushReturn, Room, TypeOK
  <2> QED BY <2>1 DEF Exit
<1>2. ASSUME NEW t \in Callers, SendReturn(t) \/ FlushSend(t) \/ FlushWorkerGone(t) \/ TakeSender(t)
      PROVE  Exit'
  <2>1. /\ UNCHANGED <<handle, joiner, worker>>
        /\ worker = "gone" => queue' = queue
        /\ \A u \in Callers : pc'[u] = "joining" <=> pc[u] = "joining"
    BY <1>2 DEF SendReturn, FlushSend, FlushWorkerGone, TakeSender, FlushReturn, Room, TypeOK
  <2> QED BY <2>1 DEF Exit
<1>3. ASSUME NEW t \in Callers, FlushTimeout(t) PROVE Exit'
  <2>1. /\ UNCHANGED <<handle, joiner, worker>>
        /\ \A u \in Callers : pc'[u] = "joining" <=> pc[u] = "joining"
    BY <1>3 DEF FlushTimeout, FlushReturn, TypeOK
  <2>2. queue = <<>> => queue' = <<>>
    <3>1. DOMAIN queue' = DOMAIN queue
      BY <1>3 DEF FlushTimeout
    <3>2. queue' \in Seq(Message)
      BY <1>3, TypeStep DEF TypeOK
    <3> QED BY <3>1, <3>2, EmptySeq, LenProperties
  <2> QED BY <2>1, <2>2 DEF Exit
<1>4. ASSUME NEW t \in Callers, LockHandle(t) \/ Joined(t) PROVE Exit'
  BY <1>4 DEF LockHandle, Joined, Exit, TypeOK
<1>5. CASE WorkerStep
  <2>1. /\ UNCHANGED <<handle, joiner>> /\ worker # "gone"
        /\ worker' = "gone" => queue' = <<>>
    BY <1>5 DEF WorkerStep, WorkerStart, WorkerStartFails, DrainNext, DrainUnreadable, DrainEnd, Receive,
       ReceiveClosed, AckAbandoned, CheckLimit, PostAccepted, PostRefused, PostTooMany,
       PostServerError, PostNetworkError, RetryOrGiveUp, Return, Settle, SettleReplay,
       Acknowledge, Outcome
  <2>2. \A u \in Callers : pc'[u] = "joining" <=> pc[u] = "joining"
    <3>1. CASE \E t \in Callers : Acknowledge(t)
      <4>1. PICK t \in Callers : Acknowledge(t)
        BY <3>1
      <4>2. pc[t] # "joining"
        BY <4>1 DEF Acknowledge, Tickets
      <4> QED BY <4>1, <4>2 DEF Acknowledge, FlushReturn, TypeOK
    <3>2. CASE UNCHANGED pc
      BY <3>2
    <3> QED BY <1>5, <3>1, <3>2 DEF WorkerStep, WorkerStart, WorkerStartFails, DrainNext, DrainUnreadable,
       DrainEnd, Receive, ReceiveClosed, AckAbandoned, CheckLimit, PostAccepted, PostRefused,
       PostTooMany, PostServerError, PostNetworkError, RetryOrGiveUp, Return, Settle, SettleReplay
  <2> QED BY <2>1, <2>2 DEF Exit
<1>6. CASE LimitExpires \/ UNCHANGED vars
  BY <1>6 DEF LimitExpires, vars, Exit
<1>7. ASSUME NEW spawned \in BOOLEAN, Restart(spawned) PROVE Exit'
  BY <1>7 DEF Restart, Exit
<1> QED BY <1>1, <1>2, <1>3, <1>4, <1>5, <1>6, <1>7 DEF Next, CallerStep

-----------------------------------------------------------------------------
(* Ends: an envelope is given up only as it leaves memory or the spool, and  *)
(* a file vanishes under a replay only by eviction                           *)

endVars == <<spool, dropped, evicted, lost>>

LEMMA EndsFrame ==
  ASSUME Ends, UNCHANGED endVars, Outstanding' \subseteq Outstanding,
         replaying' => replaying /\ InHand' \subseteq InHand
  PROVE  Ends'
BY DEF Ends, endVars

(* What becomes of one envelope in memory, or new to it, cannot become of    *)
(* another: persist and drop are the only ways out of it                     *)
LEMMA EndsPersistOrDrop ==
  ASSUME TypeOK, Custody, Ends, NEW e \in Envelopes, PersistOrDrop(e), lost' = lost,
         e \notin Outstanding', Outstanding' \subseteq Outstanding,
         replaying' = replaying, replaying => InHand' = InHand
  PROVE  Ends'
<1>1. Outstanding \cap spool = {}
  BY DEF Custody
<1>2. CASE Drop(e)
  BY <1>2 DEF Drop, Ends
<1>3. CASE Persist(e)
  <2>1. PICK out \in SUBSET (spool \cup {e}) :
          /\ spool' = (spool \cup {e}) \ out /\ evicted' = evicted \cup out
          /\ dropped' = dropped
    BY <1>3, PersistIs
  <2> QED BY <1>1, <2>1 DEF Ends
<1> QED BY <1>2, <1>3 DEF PersistOrDrop

LEMMA EndsCapture ==
  ASSUME TypeOK, Custody, Ends, NEW t \in Callers, NEW e \in Envelopes, Capture(t, e)
  PROVE  Ends'
<1>1. e \notin Outstanding /\ e \notin dropped \cup evicted \cup lost
  BY DEF Capture, Custody, Accounted
<1>2. UNCHANGED <<cur, replaying, lost>> /\ InHand' = InHand
  BY DEF Capture, InHand
<1>3. CASE sender /\ Room
  <2>1. Queued' = Queued \cup {e} /\ UNCHANGED <<spool, dropped, evicted>>
    BY <1>3, QueuedSend DEF Capture, Message
  <2>2. Outstanding' = Outstanding \cup {e}
    BY <1>2, <2>1 DEF Outstanding
  <2> QED BY <1>1, <1>2, <2>1, <2>2 DEF Ends
<1>4. CASE ~(sender /\ Room)
  <2>1. PersistOrDrop(e) /\ Queued' = Queued
    BY <1>4 DEF Capture, Queued
  <2>2. Outstanding' = Outstanding
    BY <1>2, <2>1 DEF Outstanding
  <2> QED BY <1>1, <1>2, <2>1, <2>2, EndsPersistOrDrop
<1> QED BY <1>3, <1>4

LEMMA EndsCaller ==
  ASSUME TypeOK, Custody, Ends, NEW t \in Callers, CallerStep(t) \/ Application(t)
  PROVE  Ends'
<1>1. ASSUME NEW e \in Envelopes, Capture(t, e) PROVE Ends'
  BY <1>1, EndsCapture
<1>2. CASE FlushSend(t)
  <2>1. t \in Message /\ t \notin Envelopes /\ queue' = Append(queue, t)
    BY <1>2 DEF FlushSend, Message
  <2>2. Queued' = Queued \cup ({t} \cap Envelopes)
    BY <2>1, QueuedSend
  <2> QED BY <1>2, <2>1, <2>2, EndsFrame DEF FlushSend, Outstanding, InHand, endVars
<1>3. CASE FlushTimeout(t)
  <2>1. Queued' = Queued /\ InHand' = InHand /\ UNCHANGED <<endVars, replaying>>
    BY <1>3, QueuedTimeout DEF FlushTimeout, endVars
  <2> QED BY <2>1, EndsFrame DEF Outstanding
<1>4. ASSUME UNCHANGED <<queue, cur, replaying, endVars>> PROVE Ends'
  BY <1>4, EndsFrame DEF Outstanding, InHand, Queued
<1>5. ASSUME NEW inShutdown \in BOOLEAN, FlushBegin(t, inShutdown) PROVE Ends'
  BY <1>4, <1>5 DEF FlushBegin, endVars
<1>6. CASE SendReturn(t) \/ FlushWorkerGone(t) \/ TakeSender(t) \/ LockHandle(t) \/ Joined(t)
  BY <1>4, <1>6 DEF SendReturn, FlushWorkerGone, TakeSender, LockHandle, Joined, endVars
<1> QED BY <1>1, <1>2, <1>3, <1>5, <1>6 DEF CallerStep, Application

LEMMA EndsWorker == ASSUME TypeOK, Custody, Tickets, Ends, WorkerStep PROVE Ends'
<1> USE DEF HasEnvelope, Outcome
<1>1. CASE WorkerStart \/ ReceiveClosed \/ AckAbandoned \/ CheckLimit \/ DrainEnd
  <2>1. UNCHANGED <<cur, queue, endVars>> /\ InHand' = InHand
    BY <1>1 DEF WorkerStart, DrainEnd, ReceiveClosed, AckAbandoned, CheckLimit, InHand, endVars
  <2>2. replaying' = replaying \/ InHand = {}
    BY <1>1 DEF WorkerStart, DrainEnd, ReceiveClosed, AckAbandoned, CheckLimit, InHand, TypeOK
  <2>3. Outstanding' = Outstanding
    BY <2>1, <2>2 DEF Outstanding, Queued
  <2> QED BY <2>1, <2>2, <2>3 DEF Ends, endVars
<1>2. CASE WorkerStartFails
  <2>1. Queued' = {} /\ InHand' = {} /\ UNCHANGED <<cur, replaying, spool, dropped, evicted>>
    BY <1>2, QueuedEmpty DEF WorkerStartFails, InHand, TypeOK
  <2> QED BY <2>1 DEF Ends, Outstanding
<1>3. CASE DrainNext
  <2>1. UNCHANGED <<queue, endVars, replaying>> /\ replaying
        /\ InHand' \subseteq InHand \cup spool
    BY <1>3 DEF DrainNext, Custody, InHand, endVars
  <2> QED BY <2>1 DEF Ends, Outstanding, Queued, endVars
<1>4. CASE DrainUnreadable
  <2>1. PICK e \in spool : spool' \in {spool, spool \ {e}} /\ dropped' = dropped \cup {e}
    BY <1>4 DEF DrainUnreadable, RemoveFile
  <2>2. UNCHANGED <<queue, cur, replaying, evicted, lost>> /\ cur = Nobody
    BY <1>4 DEF DrainUnreadable, RemoveFile, TypeOK
  <2> QED BY <2>1, <2>2 DEF Ends, Custody, Outstanding, InHand, Queued
<1>5. CASE Receive
  <2>1. Queued = Queued' \cup InHand' /\ UNCHANGED <<replaying, endVars>> /\ ~replaying
    BY <1>5, QueuedReceive DEF Receive, InHand, Custody, endVars
  <2> QED BY <2>1, EndsFrame DEF Outstanding
<1>6. ASSUME NEW t \in Callers, Acknowledge(t) PROVE Ends'
  <2>1. InHand' = {} /\ UNCHANGED <<queue, replaying, endVars>>
    BY <1>6 DEF Acknowledge, InHand, endVars
  <2> QED BY <2>1, EndsFrame DEF Outstanding, Queued
<1>7. CASE PostAccepted \/ PostRefused \/ (\E ra \in BOOLEAN : PostTooMany(ra))
           \/ PostServerError \/ PostNetworkError
  <2>1. UNCHANGED <<queue, cur, replaying, endVars>>
    BY <1>7 DEF PostAccepted, PostRefused, PostTooMany, PostServerError, PostNetworkError,
       RetryOrGiveUp, Return, endVars
  <2> QED BY <2>1, EndsFrame DEF Outstanding, InHand, Queued
<1>8. CASE Settle
  <2>1. /\ UNCHANGED <<queue, replaying, lost>> /\ ~replaying /\ InHand = {cur} /\ InHand' = {}
        /\ cur \notin Queued /\ cur \in Envelopes
    BY <1>8 DEF Settle, TypeOK, InHand, Custody
  <2>2. Outstanding' = Queued /\ Outstanding = Queued \cup {cur}
    BY <2>1 DEF Outstanding, Queued
  <2>3. CASE UNCHANGED spoolVars
    BY <2>1, <2>2, <2>3 DEF Ends
  <2>4. CASE PersistOrDrop(cur)
    BY <2>1, <2>2, <2>4, EndsPersistOrDrop
  <2> QED BY <1>8, <2>3, <2>4 DEF Settle, PersistOrDrop
<1>9. CASE SettleReplay
  <2>1. /\ queue' = queue /\ replaying /\ cur' = Nobody /\ cur \in Envelopes
        /\ UNCHANGED <<evicted, lost>>
    BY <1>9 DEF SettleReplay, RemoveFile, TypeOK
  <2>2. InHand = {cur} /\ InHand' = {} /\ cur \notin Queued
    BY <2>1 DEF InHand, Custody
  <2>3. dropped' \subseteq dropped \cup {cur}
    BY <1>9 DEF SettleReplay
  <2> QED BY <2>1, <2>2, <2>3 DEF Ends, Outstanding, Queued
<1> QED BY <1>1, <1>2, <1>3, <1>4, <1>5, <1>6, <1>7, <1>8, <1>9 DEF WorkerStep

LEMMA EndsStep == TypeOK /\ Custody /\ Tickets /\ Ends /\ [Next]_vars => Ends'
<1> SUFFICES ASSUME TypeOK, Custody, Tickets, Ends, [Next]_vars PROVE Ends'
  OBVIOUS
<1>1. ASSUME NEW t \in Callers, Application(t) \/ CallerStep(t) PROVE Ends'
  BY <1>1, EndsCaller
<1>2. CASE WorkerStep
  BY <1>2, EndsWorker
<1>3. CASE LimitExpires \/ UNCHANGED vars
  BY <1>3, EndsFrame DEF LimitExpires, vars, Outstanding, InHand, Queued, endVars
<1>4. ASSUME NEW spawned \in BOOLEAN, Restart(spawned) PROVE Ends'
  <2>1. Queued' = {} /\ InHand' = {}
    BY <1>4, QueuedEmpty DEF Restart, InHand
  <2> QED BY <2>1 DEF Ends, Outstanding
<1> QED BY <1>1, <1>2, <1>3, <1>4 DEF Next

-----------------------------------------------------------------------------
(* NeverHot: once a request is under way, limits only run out *)

LEMMA NeverHotStep == TypeOK /\ NeverHot /\ [Next]_vars => NeverHot'
<1> SUFFICES ASSUME TypeOK, NeverHot, [Next]_vars, worker' = "post"
             PROVE  ~Limited(CategoryOf[cur])'
  BY DEF NeverHot
<1>1. CASE CheckLimit
  BY <1>1 DEF CheckLimit, Limited
<1>2. CASE PostServerError \/ PostNetworkError
  BY <1>2 DEF PostServerError, PostNetworkError, RetryOrGiveUp, NeverHot, Limited
<1>3. CASE LimitExpires
  BY <1>3 DEF LimitExpires, NeverHot, Limited
<1>4. CASE UNCHANGED vars
  BY <1>4 DEF vars, NeverHot, Limited
<1>5. ASSUME NEW t \in Callers, Application(t) \/ CallerStep(t)
      PROVE  ~Limited(CategoryOf[cur])'
  <2>1. UNCHANGED <<worker, globalHold, held>>
    BY <1>5 DEF Application, Capture, FlushBegin, CallerStep, SendReturn, FlushSend,
       FlushWorkerGone, FlushTimeout, TakeSender, LockHandle, Joined
  <2>2. cur \in Envelopes
    BY <2>1 DEF TypeOK, HasEnvelope
  <2>3. cur' = cur
    BY <1>5, <2>2 DEF Application, Capture, FlushBegin, CallerStep, SendReturn, FlushSend,
       FlushWorkerGone, FlushTimeout, TakeSender, LockHandle, Joined
  <2> QED BY <2>1, <2>3 DEF NeverHot, Limited
<1>6. ASSUME WorkerStep PROVE CheckLimit \/ PostServerError \/ PostNetworkError
  BY <1>6 DEF WorkerStep, WorkerStart, WorkerStartFails, DrainNext, DrainUnreadable, DrainEnd, Receive,
     ReceiveClosed, AckAbandoned, PostAccepted, PostRefused, PostTooMany, Return, Settle,
     SettleReplay, Acknowledge
<1>7. ASSUME NEW spawned \in BOOLEAN, Restart(spawned) PROVE FALSE
  BY <1>7 DEF Restart
<1> QED BY <1>1, <1>2, <1>3, <1>4, <1>5, <1>6, <1>7 DEF Next

-----------------------------------------------------------------------------
(* The theorems *)

LEMMA IInvInit == Init => IInv
<1> SUFFICES ASSUME Init PROVE IInv
  OBVIOUS
<1>1. DOMAIN queue = {} /\ Range(queue) = {} /\ ~HasEnvelope /\ worker \notin {"drain", "post"}
  BY NothingOnEmpty DEF Init, HasEnvelope, Outcome
<1>2. Custody
  BY <1>1 DEF Init, Custody, Accounted, NoResend, Outstanding, Queued, InHand, HasEnvelope, Outcome
<1>3. Tickets /\ Behind
  BY <1>1 DEF Init, Tickets, Behind
<1>4. Exit /\ Ends /\ NeverHot
  BY <1>1 DEF Init, Exit, Ends, NeverHot
<1> QED BY <1>2, <1>3, <1>4, TypeInit DEF IInv

LEMMA IInvStep == IInv /\ [Next]_vars => IInv'
BY TypeStep, CustodyStep, TicketsStep, ExitStep, EndsStep, NeverHotStep DEF IInv

(* The inductive invariant holds of every reachable state *)
THEOREM Inductive == Spec => []IInv
BY IInvInit, IInvStep, PTL DEF Spec

(* No captured envelope ever vanishes *)
THEOREM NoEnvelopeVanishes == Spec => []Accounted
<1>1. IInv => Accounted
  BY DEF IInv, Custody
<1> QED BY <1>1, Inductive, PTL

(* An envelope is never both in memory and in the spool, or twice in memory *)
THEOREM OneEnvelopeOnePlace == Spec => []OnePlace
<1>1. IInv => OnePlace
  BY DEF IInv, Custody, Tickets, OnePlace
<1> QED BY <1>1, Inductive, PTL

(* An acknowledged envelope is nowhere it could be sent from again, but for a *)
(* spool file that a crash or a failed remove_file left after its replay      *)
THEOREM NoResendAfterAck == Spec => []NoResend
<1>1. IInv => NoResend
  BY DEF IInv, Custody
<1> QED BY <1>1, Inductive, PTL

(* No request is sent into a limit the server has set *)
THEOREM NeverSendsHot == Spec => []NeverHot
<1>1. IInv => NeverHot
  BY DEF IInv
<1> QED BY <1>1, Inductive, PTL

(* An acknowledged flush has outlived what was in memory when it was called *)
THEOREM FlushKeepsPromise == Spec => AckOutlivesPending
<1>1. ASSUME IInv, [Next]_vars, NEW t \in Callers,
             pc[t] = "wait", pc'[t] # "wait", drained'[t]
      PROVE  pending[t] \cap Outstanding' = {}
  <2>1. CASE Acknowledge(t)
    <3>1. pending[t] \cap Queued = {} /\ queue' = queue /\ cur' = Nobody
      BY <1>1, <2>1 DEF Acknowledge, IInv, Behind
    <3> QED BY <3>1 DEF Outstanding, Queued, InHand
  <2>2. ~(\E u \in Callers : Application(u))
    <3>1. ASSUME NEW u \in Callers, Application(u) PROVE pc'[t] = "wait"
      BY <1>1, <3>1 DEF Application, Capture, FlushBegin, FlushReturn, IInv, TypeOK
    <3> QED BY <1>1, <3>1
  <2>3. ~(\E u \in Callers : CallerStep(u))
    <3>1. ASSUME NEW u \in Callers, FlushTimeout(u) PROVE pc'[t] = "wait" \/ ~drained'[t]
      BY <1>1, <3>1 DEF FlushTimeout, FlushReturn, IInv, TypeOK
    <3>2. ASSUME NEW u \in Callers, ~FlushTimeout(u), CallerStep(u) PROVE pc'[t] = "wait"
      BY <1>1, <3>2 DEF CallerStep, SendReturn, FlushSend, FlushWorkerGone, FlushReturn,
         TakeSender, LockHandle, Joined, IInv, TypeOK
    <3> QED BY <1>1, <3>1, <3>2
  <2>4. ASSUME WorkerStep, ~Acknowledge(t) PROVE pc'[t] = "wait"
    <3>1. ASSUME NEW u \in Callers, Acknowledge(u) PROVE pc'[t] = "wait"
      BY <1>1, <2>4, <3>1 DEF Acknowledge, FlushReturn, IInv, TypeOK
    <3>2. CASE UNCHANGED pc
      BY <1>1, <3>2
    <3> QED BY <2>4, <3>1, <3>2 DEF WorkerStep, WorkerStart, WorkerStartFails, DrainNext, DrainUnreadable,
       DrainEnd, Receive, ReceiveClosed, AckAbandoned, CheckLimit, PostAccepted, PostRefused,
       PostTooMany, PostServerError, PostNetworkError, RetryOrGiveUp, Return, Settle, SettleReplay
  <2>5. ~LimitExpires /\ ~UNCHANGED vars
    BY <1>1 DEF LimitExpires, vars
  <2>6. ~(\E spawned \in BOOLEAN : Restart(spawned))
    BY <1>1 DEF Restart
  <2> QED BY <1>1, <2>1, <2>2, <2>3, <2>4, <2>5, <2>6 DEF Next
<1>2. IInv /\ [Next]_vars =>
        [\A t \in Callers :
           pc[t] = "wait" /\ pc'[t] # "wait" /\ drained'[t]
             => pending[t] \cap Outstanding' = {}]_vars
  BY <1>1
<1> QED BY <1>2, Inductive, PTL DEF Spec, AckOutlivesPending

(* When shutdown returns, the worker has exited and memory is empty, however *)
(* long past the timeout that took                                           *)
THEOREM ShutdownKeepsPromise == Spec => ShutdownSettles
<1>1. ASSUME IInv, [Next]_vars, NEW t \in Callers,
             pc[t] \in {"join", "joining"}, pc'[t] = "idle", restarts' = restarts
      PROVE  worker = "gone" /\ Outstanding' = {}
  <2>1. LockHandle(t) \/ Joined(t)
    <3>1. ASSUME NEW u \in Callers, Application(u) PROVE FALSE
      BY <1>1, <3>1 DEF Application, Capture, FlushBegin, FlushReturn, IInv, TypeOK
    <3>2. ASSUME NEW u \in Callers, CallerStep(u), ~(LockHandle(t) \/ Joined(t)) PROVE FALSE
      BY <1>1, <3>2 DEF CallerStep, SendReturn, FlushSend, FlushWorkerGone, FlushReturn,
         FlushTimeout, TakeSender, LockHandle, Joined, IInv, TypeOK
    <3>3. ~WorkerStep
      <4>1. ASSUME NEW u \in Callers, Acknowledge(u) PROVE FALSE
        <5>1. pc[u] = "wait"
          BY <1>1, <4>1 DEF Acknowledge, IInv, Tickets
        <5> QED BY <1>1, <4>1, <5>1 DEF Acknowledge, FlushReturn, IInv, TypeOK
      <4>2. pc' # pc
        BY <1>1
      <4> QED BY <4>1, <4>2 DEF WorkerStep, WorkerStart, WorkerStartFails, DrainNext, DrainUnreadable,
         DrainEnd, Receive, ReceiveClosed, AckAbandoned, CheckLimit, PostAccepted, PostRefused,
         PostTooMany, PostServerError, PostNetworkError, RetryOrGiveUp, Return, Settle,
         SettleReplay
    <3>4. ~LimitExpires /\ ~UNCHANGED vars
      BY <1>1 DEF LimitExpires, vars
    <3>5. ~(\E spawned \in BOOLEAN : Restart(spawned))
      BY <1>1 DEF Restart, IInv, TypeOK
    <3> QED BY <1>1, <3>1, <3>2, <3>3, <3>4, <3>5 DEF Next
  <2>2. worker = "gone"
    BY <1>1, <2>1 DEF LockHandle, Joined, IInv, Exit, TypeOK
  <2>3. /\ queue = <<>> /\ cur = Nobody /\ UNCHANGED <<queue, cur>>
    BY <1>1, <2>1, <2>2 DEF LockHandle, Joined, IInv, Exit, TypeOK, HasEnvelope, Outcome
  <2> QED BY <2>2, <2>3, QueuedEmpty DEF Outstanding, InHand
<1>2. IInv /\ [Next]_vars =>
        [\A t \in Callers :
           pc[t] \in {"join", "joining"} /\ pc'[t] = "idle" /\ restarts' = restarts
             => worker = "gone" /\ Outstanding' = {}]_vars
  BY <1>1
<1> QED BY <1>2, Inductive, PTL DEF Spec, ShutdownSettles

-----------------------------------------------------------------------------
(* Transport implements Delivery: the mapping, one envelope at a time *)

LEMMA StatusOf ==
  ASSUME NEW e \in Envelopes
  PROVE  DeliveryStatus[e] =
           IF e \in acked THEN "acknowledged"
           ELSE IF e \in Outstanding THEN "pending"
           ELSE IF e \in Stored THEN "stored"
           ELSE IF e \in evicted \cup lost THEN "lost"
           ELSE IF e \in dropped THEN "discarded"
           ELSE "new"
BY DEF DeliveryStatus

LEMMA StatusNext ==
  ASSUME NEW e \in Envelopes
  PROVE  DeliveryStatus'[e] =
           IF e \in acked' THEN "acknowledged"
           ELSE IF e \in Outstanding' THEN "pending"
           ELSE IF e \in Stored' THEN "stored"
           ELSE IF e \in evicted' \cup lost' THEN "lost"
           ELSE IF e \in dropped' THEN "discarded"
           ELSE "new"
BY DEF DeliveryStatus

LEMMA Same ==
  ASSUME \A e \in Envelopes : DeliveryStatus'[e] = DeliveryStatus[e]
  PROVE  DeliveryStatus' = DeliveryStatus
BY DEF DeliveryStatus

LEMMA Moves ==   \* the envelopes of S, and no others, get status s
  ASSUME NEW S, NEW s,
         \A e \in Envelopes : DeliveryStatus'[e] = IF e \in S THEN s ELSE DeliveryStatus[e]
  PROVE  DeliveryStatus' = Promise!With(S, s)
BY DEF DeliveryStatus, Promise!With

LEMMA Frame ==
  ASSUME UNCHANGED <<acked, dropped, evicted, lost>>,
         Outstanding' = Outstanding, Stored' = Stored
  PROVE  DeliveryStatus' = DeliveryStatus
BY Same, StatusOf, StatusNext

LEMMA FrameOfVariables ==
  ASSUME UNCHANGED <<queue, cur, replaying, spool, acked, dropped, evicted, lost>>
  PROVE  DeliveryStatus' = DeliveryStatus
BY Frame DEF Outstanding, Stored, Queued, InHand

-----------------------------------------------------------------------------
(* The steps that give an envelope up or put it in the spool *)

Replayed == IF replaying THEN InHand ELSE {}

LEMMA DropMaps ==
  ASSUME IInv, NEW e \in Envelopes, Drop(e), e \notin acked, e \notin Stored,
         e \notin evicted \cup lost, DeliveryStatus[e] \in {"new", "pending"},
         Outstanding' = Outstanding \ {e}, Replayed' = Replayed, UNCHANGED <<acked, lost>>
  PROVE  Promise!Next
<1>1. UNCHANGED <<spool, evicted>> /\ dropped' = dropped \cup {e} /\ Stored' = Stored
  BY DEF Drop, Stored, Replayed
<1>2. \A f \in Envelopes :
        DeliveryStatus'[f] = IF f \in {e} THEN "discarded" ELSE DeliveryStatus[f]
  BY <1>1, StatusOf, StatusNext
<1>3. DeliveryStatus' = Promise!With({e}, "discarded")
  BY <1>2, Moves
<1>4. Promise!Refuse(e) \/ Promise!Settle(e)
  BY <1>3 DEF Promise!Refuse, Promise!Settle
<1> QED BY <1>4 DEF Promise!Next

(* A stored envelope, and no other, ends or stays: what a replay may do *)
LEMMA StoredMaps ==
  ASSUME NEW e \in Envelopes, DeliveryStatus[e] = "stored",
         DeliveryStatus'[e] \in {"stored", "lost", "discarded"},
         \A f \in Envelopes \ {e} : DeliveryStatus'[f] = DeliveryStatus[f]
  PROVE  Promise!Next \/ DeliveryStatus' = DeliveryStatus
<1>1. CASE DeliveryStatus'[e] = "stored"
  BY <1>1, Same
<1>2. CASE DeliveryStatus'[e] = "lost"
  <2>1. DeliveryStatus' = Promise!With({e}, "lost")
    BY <1>2, Moves
  <2>2. Promise!Evict(e)
    BY <2>1 DEF Promise!Evict
  <2> QED BY <2>2 DEF Promise!Next
<1>3. CASE DeliveryStatus'[e] = "discarded"
  <2>1. DeliveryStatus' = Promise!With({e}, "discarded")
    BY <1>3, Moves
  <2>2. Promise!Settle(e)
    BY <2>1 DEF Promise!Settle
  <2> QED BY <2>2 DEF Promise!Next
<1> QED BY <1>1, <1>2, <1>3

LEMMA PersistMaps ==
  ASSUME IInv, NEW e \in Envelopes, Persist(e), e \notin acked, e \notin Stored,
         e \notin evicted \cup lost, DeliveryStatus[e] \in {"new", "pending"},
         Outstanding' = Outstanding \ {e}, Replayed' = Replayed, UNCHANGED <<acked, lost>>
  PROVE  Promise!Next
<1>1. PICK out \in SUBSET (spool \cup {e}) :
        /\ spool' = (spool \cup {e}) \ out /\ evicted' = evicted \cup out
        /\ dropped' = dropped
  BY PersistIs
<1>2. out \subseteq spool \cup {e} /\ dropped' = dropped
  BY <1>1
<1> DEFINE gone == {f \in out : f \notin acked /\ f \notin Replayed}
<1>3. Outstanding \cap spool = {} /\ spool \subseteq Envelopes
  BY DEF IInv, Custody, TypeOK
<1>4. Stored' = spool' \cup Replayed /\ Stored = spool \cup Replayed
  BY DEF Stored, Replayed
<1>5. gone \in SUBSET Envelopes /\ gone \subseteq {f \in Envelopes : DeliveryStatus[f] = "stored"} \cup {e}
  BY <1>2, <1>3, <1>4, StatusOf
<1>6. \A f \in Envelopes :
        DeliveryStatus'[f] = IF f \in gone THEN "lost"
                             ELSE IF f = e THEN "stored" ELSE DeliveryStatus[f]
  <2>1. ASSUME NEW f \in Envelopes, f \in gone PROVE DeliveryStatus'[f] = "lost"
    <3>1. f \notin acked' /\ f \notin Outstanding'
      BY <1>2, <1>3, <1>4, <2>1
    <3>2. f \notin Stored' /\ f \in evicted'
      BY <1>1, <1>4, <2>1
    <3> QED BY <3>1, <3>2, StatusNext
  <2>2. ASSUME e \notin gone PROVE DeliveryStatus'[e] = "stored"
    <3>1. e \notin out
      BY <1>4, <2>2
    <3>2. e \in Stored' /\ e \notin Outstanding' /\ e \notin acked'
      BY <1>1, <1>4, <3>1
    <3> QED BY <3>2, StatusNext
  <2>3. ASSUME NEW f \in Envelopes, f \notin gone, f # e
        PROVE  DeliveryStatus'[f] = DeliveryStatus[f]
    <3>1. CASE f \in acked
      BY <3>1, StatusOf, StatusNext
    <3>2. CASE f \in Replayed
      <4>1. f \in Stored /\ f \in Stored' /\ (f \in Outstanding' <=> f \in Outstanding)
        BY <1>4, <2>3, <3>2
      <4> QED BY <4>1, StatusOf, StatusNext
    <3>3. CASE f \notin acked /\ f \notin Replayed
      <4>1. f \notin out
        BY <2>3, <3>3
      <4>2. /\ f \in Stored' <=> f \in Stored
            /\ f \in evicted' <=> f \in evicted
            /\ f \in Outstanding' <=> f \in Outstanding
        BY <1>1, <1>4, <2>3, <4>1
      <4> QED BY <1>2, <4>2, StatusOf, StatusNext
    <3> QED BY <3>1, <3>2, <3>3
  <2> QED BY <2>1, <2>2, <2>3
<1>7. DeliveryStatus' = [f \in Envelopes |-> IF f \in gone THEN "lost"
                                             ELSE IF f = e THEN "stored" ELSE DeliveryStatus[f]]
  BY <1>6 DEF DeliveryStatus
<1>8. Promise!Store(e, gone)
  BY <1>5, <1>7 DEF Promise!Store
<1> QED BY <1>5, <1>8 DEF Promise!Next

-----------------------------------------------------------------------------
(* Callers *)

LEMMA CaptureMaps ==
  ASSUME IInv, NEW t \in Callers, NEW e \in Envelopes, Capture(t, e)
  PROVE  Promise!Next
<1>1. /\ e \notin Outstanding /\ e \notin Stored /\ e \notin acked
      /\ e \notin dropped \cup evicted \cup lost
  BY DEF Capture, IInv, Custody, Accounted, Stored
<1>2. DeliveryStatus[e] = "new"
  BY <1>1, StatusOf
<1>3. UNCHANGED <<cur, replaying, acked, lost>> /\ InHand' = InHand /\ Replayed' = Replayed
  BY DEF Capture, InHand, Replayed
<1>4. CASE sender /\ Room
  <2>1. Queued' = Queued \cup {e} /\ UNCHANGED <<spool, dropped, evicted>>
    BY <1>4, QueuedSend DEF Capture, Message, IInv
  <2>2. Outstanding' = Outstanding \cup {e} /\ Stored' = Stored
    BY <1>3, <2>1 DEF Outstanding, Stored
  <2>3. \A f \in Envelopes :
          DeliveryStatus'[f] = IF f \in {e} THEN "pending" ELSE DeliveryStatus[f]
    BY <1>1, <1>3, <2>1, <2>2, StatusOf, StatusNext
  <2>4. Promise!Accept(e)
    BY <1>2, <2>3, Moves DEF Promise!Accept
  <2> QED BY <2>4 DEF Promise!Next
<1>5. CASE ~(sender /\ Room)
  <2>1. (Persist(e) \/ Drop(e)) /\ queue' = queue
    BY <1>5 DEF Capture, PersistOrDrop
  <2>2. Outstanding' = Outstanding \ {e}
    BY <1>1, <1>3, <2>1 DEF Outstanding, Queued
  <2> QED BY <1>1, <1>2, <1>3, <2>1, <2>2, PersistMaps, DropMaps
<1> QED BY <1>4, <1>5

LEMMA CallerMaps ==
  ASSUME IInv, NEW t \in Callers, CallerStep(t) \/ Application(t)
  PROVE  Promise!Next \/ DeliveryStatus' = DeliveryStatus
<1>1. ASSUME NEW e \in Envelopes, Capture(t, e) PROVE Promise!Next
  BY <1>1, CaptureMaps
<1>2. CASE FlushSend(t)
  <2>1. t \in Message /\ t \notin Envelopes /\ queue' = Append(queue, t)
    BY <1>2 DEF FlushSend, Message
  <2>2. Queued' = Queued \cup ({t} \cap Envelopes)
    BY <2>1, QueuedSend DEF IInv
  <2> QED BY <1>2, <2>1, <2>2, Frame DEF FlushSend, Outstanding, Stored, InHand
<1>3. CASE FlushTimeout(t)
  <2>1. /\ Queued' = Queued /\ InHand' = InHand
        /\ UNCHANGED <<replaying, spool, acked, dropped, evicted, lost>>
    BY <1>3, QueuedTimeout DEF FlushTimeout, IInv
  <2> QED BY <2>1, Frame DEF Outstanding, Stored
<1>4. ASSUME NEW inShutdown \in BOOLEAN, FlushBegin(t, inShutdown)
      PROVE  DeliveryStatus' = DeliveryStatus
  BY <1>4, FrameOfVariables DEF FlushBegin
<1>5. CASE SendReturn(t) \/ FlushWorkerGone(t) \/ TakeSender(t) \/ LockHandle(t) \/ Joined(t)
  BY <1>5, FrameOfVariables DEF SendReturn, FlushWorkerGone, TakeSender, LockHandle, Joined
<1> QED BY <1>1, <1>2, <1>3, <1>4, <1>5 DEF CallerStep, Application

-----------------------------------------------------------------------------
(* The worker *)

LEMMA AnswerMaps ==
  ASSUME IInv, PostAccepted
  PROVE  Promise!Next \/ DeliveryStatus' = DeliveryStatus
<1>1. /\ cur \in Envelopes /\ cur \in Outstanding \cup Stored
      /\ acked' = acked \cup {cur} /\ UNCHANGED <<queue, cur, replaying, spool, dropped, evicted, lost>>
  BY DEF PostAccepted, Return, IInv, TypeOK, HasEnvelope, Outstanding, Stored, InHand
<1>2. Outstanding' = Outstanding /\ Stored' = Stored
  BY <1>1 DEF Outstanding, Stored, Queued, InHand
<1>3. \A f \in Envelopes :
        DeliveryStatus'[f] = IF f \in {cur} THEN "acknowledged" ELSE DeliveryStatus[f]
  BY <1>1, <1>2, StatusOf, StatusNext
<1>4. CASE cur \in acked
  <2>1. DeliveryStatus[cur] = "acknowledged"
    BY <1>1, <1>4, StatusOf
  <2> QED BY <1>3, <2>1, Same
<1>5. CASE cur \notin acked
  <2>1. DeliveryStatus[cur] \in {"pending", "stored"}
    BY <1>1, <1>5, StatusOf
  <2>2. Promise!Settle(cur)
    BY <1>3, <2>1, Moves DEF Promise!Settle
  <2> QED BY <1>1, <2>2 DEF Promise!Next
<1> QED BY <1>4, <1>5

LEMMA SettleMaps ==
  ASSUME IInv, Settle
  PROVE  Promise!Next \/ DeliveryStatus' = DeliveryStatus
<1>1. /\ cur \in Envelopes /\ ~replaying /\ InHand = {cur} /\ InHand' = {}
      /\ UNCHANGED <<queue, replaying, acked, lost>>
  BY DEF Settle, IInv, TypeOK, HasEnvelope, InHand
<1>2. /\ cur \in Outstanding /\ cur \notin Queued /\ cur \notin spool
      /\ cur \notin evicted \cup lost /\ cur \notin Stored
  BY <1>1 DEF IInv, Custody, Ends, Outstanding, Stored
<1>3. Outstanding' = Outstanding \ {cur} /\ Replayed' = Replayed
  BY <1>1, <1>2 DEF Outstanding, Queued, Replayed
<1>4. CASE worker = "accepted" /\ UNCHANGED spoolVars
  <2>1. cur \in acked /\ Stored' = Stored
    BY <1>1, <1>3, <1>4 DEF IInv, Custody, Stored
  <2> QED BY <1>1, <1>3, <1>4, <2>1, Same, StatusOf, StatusNext
<1>5. CASE worker # "accepted" /\ (Persist(cur) \/ Drop(cur))
  <2>1. cur \notin acked
    BY <1>1, <1>5 DEF IInv, Custody, Settle, HasEnvelope
  <2>2. DeliveryStatus[cur] = "pending"
    BY <1>1, <1>2, <2>1, StatusOf
  <2> QED BY <1>1, <1>2, <1>3, <1>5, <2>1, <2>2, PersistMaps, DropMaps
<1> QED BY <1>4, <1>5 DEF Settle, PersistOrDrop

LEMMA SettleReplayMaps ==
  ASSUME IInv, SettleReplay
  PROVE  Promise!Next \/ DeliveryStatus' = DeliveryStatus
<1>0. cur \in Envelopes
  BY DEF SettleReplay, IInv, TypeOK, HasEnvelope
<1>1. /\ replaying /\ InHand = {cur} /\ InHand' = {}
      /\ UNCHANGED <<queue, acked, evicted, lost>>
      /\ dropped \subseteq dropped' /\ dropped' \subseteq dropped \cup {cur}
      /\ spool' \subseteq spool /\ spool \subseteq spool' \cup {cur}
      /\ worker = "accepted" \/ (worker = "permanent" /\ cur \in dropped') \/ spool' = spool
  BY <1>0 DEF SettleReplay, RemoveFile, InHand, Outcome
<1>2. /\ cur \notin Queued /\ Outstanding = Queued /\ Outstanding' = Queued
      /\ Stored = spool \cup {cur} /\ Stored' = spool'
      /\ cur \in spool \cup evicted
      /\ worker = "accepted" => cur \in acked
  BY <1>1 DEF IInv, Custody, Ends, Outstanding, Stored, Queued
<1>3. \A f \in Envelopes \ {cur} : DeliveryStatus'[f] = DeliveryStatus[f]
  <2>1. \A f \in Envelopes \ {cur} :
          (f \in Stored' <=> f \in Stored) /\ (f \in dropped' <=> f \in dropped)
    BY <1>1, <1>2
  <2> QED BY <1>1, <1>2, <2>1, StatusOf, StatusNext
<1>4. CASE cur \in acked
  <2>1. DeliveryStatus'[cur] = DeliveryStatus[cur]
    BY <1>0, <1>1, <1>4, StatusOf, StatusNext
  <2> QED BY <1>3, <2>1, Same
<1>5. CASE cur \notin acked
  <2>1. DeliveryStatus[cur] = "stored"
    BY <1>0, <1>2, <1>5, StatusOf
  <2>2. cur \in spool' \cup evicted' \cup dropped'
    BY <1>1, <1>2, <1>5
  <2>3. DeliveryStatus'[cur] \in {"stored", "lost", "discarded"}
    BY <1>0, <1>1, <1>2, <1>5, <2>2, StatusNext
  <2> QED BY <1>0, <1>3, <2>1, <2>3, StoredMaps
<1> QED BY <1>4, <1>5

LEMMA UnreadableMaps ==
  ASSUME IInv, DrainUnreadable
  PROVE  Promise!Next \/ DeliveryStatus' = DeliveryStatus
<1>1. PICK e \in spool : spool' \in {spool, spool \ {e}} /\ dropped' = dropped \cup {e}
  BY DEF DrainUnreadable, RemoveFile
<1>2. /\ InHand = {} /\ e \in Envelopes
      /\ UNCHANGED <<queue, cur, replaying, acked, evicted, lost>>
  BY <1>1 DEF DrainUnreadable, RemoveFile, IInv, TypeOK, HasEnvelope, Outcome, InHand
<1>3. /\ Outstanding' = Outstanding /\ e \notin Outstanding
      /\ Stored = spool /\ Stored' = spool'
  BY <1>1, <1>2 DEF Outstanding, Stored, Queued, InHand, IInv, Custody
<1>4. \A f \in Envelopes \ {e} : DeliveryStatus'[f] = DeliveryStatus[f]
  <2>1. \A f \in Envelopes \ {e} :
          (f \in Stored' <=> f \in Stored) /\ (f \in dropped' <=> f \in dropped)
    BY <1>1, <1>3
  <2> QED BY <1>2, <1>3, <2>1, StatusOf, StatusNext
<1>5. CASE e \in acked
  <2>1. DeliveryStatus'[e] = DeliveryStatus[e]
    BY <1>2, <1>5, StatusOf, StatusNext
  <2> QED BY <1>4, <2>1, Same
<1>6. CASE e \notin acked
  <2>1. DeliveryStatus[e] = "stored"
    BY <1>1, <1>2, <1>3, <1>6, StatusOf
  <2>2. DeliveryStatus'[e] \in {"stored", "lost", "discarded"}
    BY <1>1, <1>2, <1>3, <1>6, StatusNext
  <2> QED BY <1>2, <1>4, <2>1, <2>2, StoredMaps
<1> QED BY <1>5, <1>6

(* Memory is gone: with the receiver, or with the process *)
LEMMA AbandonMaps ==
  ASSUME IInv, Outstanding' = {}, Stored' = spool, lost' = lost \cup (Outstanding \ acked),
         UNCHANGED <<acked, dropped, evicted>>
  PROVE  Promise!Next
<1> DEFINE torn == {e \in Replayed : e \notin spool /\ e \notin acked /\ e \notin Outstanding}
           gone == (Outstanding \ acked) \cup torn
<1>1. /\ Outstanding \cap spool = {} /\ Outstanding \cap (evicted \cup lost) = {}
      /\ Outstanding \subseteq Envelopes /\ Replayed \subseteq Envelopes
      /\ Stored = spool \cup Replayed /\ Replayed \subseteq spool \cup evicted
  BY DEF IInv, Custody, Ends, Outstanding, Queued, InHand, Stored, Replayed
<1>2. ASSUME NEW f \in torn PROVE f \in evicted
  BY <1>1
<1>3. \A f \in Envelopes :
        DeliveryStatus'[f] = IF f \in gone THEN "lost" ELSE DeliveryStatus[f]
  BY <1>1, <1>2, StatusOf, StatusNext
<1>4. \A f \in gone : DeliveryStatus[f] \in {"pending", "stored"}
  BY <1>1, StatusOf
<1>5. \A f \in Envelopes : DeliveryStatus[f] = "pending" => f \in gone
  BY StatusOf
<1>6. gone \in SUBSET Envelopes
  BY <1>1
<1>7. Promise!Abandon(gone)
  BY <1>3, <1>4, <1>5, <1>6, Moves DEF Promise!Abandon
<1> QED BY <1>6, <1>7 DEF Promise!Next

LEMMA WorkerMaps ==
  ASSUME IInv, WorkerStep
  PROVE  Promise!Next \/ DeliveryStatus' = DeliveryStatus
<1> USE DEF HasEnvelope, Outcome
<1>1. CASE WorkerStart \/ ReceiveClosed \/ AckAbandoned \/ CheckLimit \/ DrainEnd
  <2>1. /\ UNCHANGED <<cur, queue, spool, acked, dropped, evicted, lost>> /\ InHand' = InHand
        /\ replaying' = replaying \/ InHand = {}
    BY <1>1 DEF WorkerStart, DrainEnd, ReceiveClosed, AckAbandoned, CheckLimit, InHand, IInv, TypeOK
  <2> QED BY <2>1, Frame DEF Outstanding, Stored, Queued
<1>2. CASE WorkerStartFails
  <2>1. /\ Queued' = {} /\ InHand = {} /\ UNCHANGED <<cur, replaying, spool, acked, dropped, evicted>>
        /\ lost' = lost \cup Queued /\ Queued \cap acked = {}
    BY <1>2, QueuedEmpty DEF WorkerStartFails, InHand, IInv, TypeOK, Custody, NoResend
  <2>2. Outstanding' = {} /\ Outstanding = Queued /\ Stored' = spool
    BY <2>1 DEF Outstanding, Stored, InHand
  <2> QED BY <2>1, <2>2, AbandonMaps
<1>3. CASE DrainNext
  <2>1. /\ UNCHANGED <<queue, spool, replaying, acked, dropped, evicted, lost>> /\ replaying
        /\ InHand = {} /\ InHand' \subseteq spool
    BY <1>3 DEF DrainNext, Custody, InHand, IInv, TypeOK
  <2> QED BY <2>1, Frame DEF Outstanding, Stored, Queued
<1>4. CASE DrainUnreadable
  BY <1>4, UnreadableMaps
<1>5. CASE Receive
  <2>1. /\ Queued = Queued' \cup InHand' /\ InHand = {} /\ ~replaying
        /\ UNCHANGED <<replaying, spool, acked, dropped, evicted, lost>>
    BY <1>5, QueuedReceive DEF Receive, InHand, IInv, TypeOK, Custody
  <2> QED BY <2>1, Frame DEF Outstanding, Stored
<1>6. ASSUME NEW t \in Callers, Acknowledge(t) PROVE DeliveryStatus' = DeliveryStatus
  <2>1. /\ InHand = {} /\ InHand' = {}
        /\ UNCHANGED <<queue, replaying, spool, acked, dropped, evicted, lost>>
    BY <1>6 DEF Acknowledge, InHand
  <2> QED BY <2>1, Frame DEF Outstanding, Stored, Queued
<1>7. CASE PostAccepted
  BY <1>7, AnswerMaps
<1>8. CASE PostRefused \/ (\E ra \in BOOLEAN : PostTooMany(ra)) \/ PostServerError \/ PostNetworkError
  BY <1>8, FrameOfVariables DEF PostRefused, PostTooMany, PostServerError, PostNetworkError,
     RetryOrGiveUp, Return
<1>9. CASE Settle
  BY <1>9, SettleMaps
<1>10. CASE SettleReplay
  BY <1>10, SettleReplayMaps
<1> QED BY <1>1, <1>2, <1>3, <1>4, <1>5, <1>6, <1>7, <1>8, <1>9, <1>10 DEF WorkerStep

-----------------------------------------------------------------------------
(* The refinement *)

LEMMA MapInit == Init => Promise!Init
<1> SUFFICES ASSUME Init PROVE Promise!Init
  OBVIOUS
<1>1. Range(queue) = {}
  BY NothingOnEmpty DEF Init
<1>2. \A e \in Envelopes : DeliveryStatus[e] = "new"
  BY <1>1, StatusOf DEF Init, Outstanding, Stored, Queued, InHand
<1> QED BY <1>2 DEF Promise!Init, DeliveryStatus

LEMMA MapStep == IInv /\ [Next]_vars => [Promise!Next]_DeliveryStatus
<1> SUFFICES ASSUME IInv, [Next]_vars PROVE Promise!Next \/ DeliveryStatus' = DeliveryStatus
  OBVIOUS
<1>1. ASSUME NEW t \in Callers, Application(t) \/ CallerStep(t)
      PROVE  Promise!Next \/ DeliveryStatus' = DeliveryStatus
  BY <1>1, CallerMaps
<1>2. CASE WorkerStep
  BY <1>2, WorkerMaps
<1>3. CASE LimitExpires \/ UNCHANGED vars
  BY <1>3, FrameOfVariables DEF LimitExpires, vars
<1>4. ASSUME NEW spawned \in BOOLEAN, Restart(spawned) PROVE Promise!Next
  <2>1. Queued' = {} /\ InHand' = {} /\ UNCHANGED <<spool, acked, dropped, evicted>>
        /\ lost' = lost \cup (Outstanding \ acked)
    BY <1>4, QueuedEmpty DEF Restart, InHand
  <2> QED BY <2>1, AbandonMaps DEF Outstanding, Stored
<1> QED BY <1>1, <1>2, <1>3, <1>4 DEF Next

(* Transport implements Delivery: an envelope only moves from new to pending *)
(* or stored, and from there to one of its ends, which is final.             *)
THEOREM TransportImplementsDelivery == Spec => DeliveryPromise
BY MapInit, MapStep, Inductive, PTL DEF Spec, DeliveryPromise, Promise!Spec

-----------------------------------------------------------------------------
(* The counters: the counted steps are steps of Transport *)

LEMMA CountedIsTransport == [NextCounted]_countedVars => [Next]_vars
<1> SUFFICES ASSUME [NextCounted]_countedVars, ~ UNCHANGED vars PROVE Next
  OBVIOUS
<1> USE DEF Next, Application, CallerStep, WorkerStep
<1>1. NextCounted
  BY DEF countedVars
<1>2. CASE Uncounted
  BY <1>2 DEF Uncounted
<1>7. CASE Sending
  BY <1>7 DEF Sending, CountEnter, CountCapture
<1>3. CASE CountWorkerStartFails \/ \E spawned \in BOOLEAN : CountRestart(spawned)
  BY <1>3 DEF CountWorkerStartFails, CountRestart
<1>4. ASSUME CountPost PROVE WorkerStep
  BY <1>4 DEF CountPost
<1>5. CASE Counted
  <2>2. ASSUME NEW t \in Callers, CountSendReturn(t) PROVE Next
    BY <2>2 DEF CountSendReturn
  <2>3. CASE CountReceive \/ CountCheckLimit \/ CountSettle
    BY <2>3 DEF CountReceive, CountCheckLimit, CountSettle
  <2> QED BY <1>4, <1>5, <2>2, <2>3 DEF Counted
<1>6. CASE CountedReplay
  BY <1>4, <1>6 DEF CountedReplay, CountDrainNext, CountSettleReplay
<1> QED BY <1>1, <1>2, <1>3, <1>5, <1>6, <1>7 DEF NextCounted

(* The counters steer nothing: with them the transport does what it does     *)
(* without, so all that is proved of Spec holds of SpecCounted as well.      *)
THEOREM CountersSteerNothing == SpecCounted => Spec
<1>1. InitCounted => Init
  BY DEF InitCounted
<1> QED BY <1>1, CountedIsTransport, PTL DEF SpecCounted, Spec

-----------------------------------------------------------------------------
(* The books, as an invariant of the queue's length and the worker's state *)

Holding == IF ~replaying /\ worker \in {"check", "post", "retryable"} THEN 1 ELSE 0
Credit == IF replaying /\ worker = "accepted" THEN 1 ELSE 0

Aside == Cardinality(Entered) + abandoned   \* not yet handed over, or gone with the receiver

Counts ==
  /\ counters \in [Counter -> Nat] /\ replayDrops \in Nat /\ abandoned \in Nat
  /\ entering \in [Callers -> Envelopes \cup {Nobody}] /\ IsFiniteSet(Entered)

Books ==
  counters["captured"] + counters["replayed"] + replayDrops + Credit
    = counters["sent"] + counters["persisted"] + counters["dropped"]
      + Cardinality(Queued) + Holding + Aside

LockHeld == \A t \in Callers : pc[t] = "sent" <=> lock = t

CountInv == Counts /\ Books /\ LockHeld /\ GaugeCoversQueue

LEMMA QueuedFinite ==
  ASSUME TypeOK PROVE IsFiniteSet(Queued) /\ Cardinality(Queued) \in Nat
<1>1. PICK n \in Nat : queue \in [1..n -> Message]
  BY LenProperties DEF TypeOK
<1>2. queue \in Surjection(1..n, Range(queue))
  BY <1>1 DEF Surjection, Range
<1>5. IsFiniteSet(1..n)
  BY FS_Interval
<1>3. IsFiniteSet(Range(queue))
  BY <1>2, <1>5, FS_Surjection
<1>4. IsFiniteSet(Queued)
  BY <1>3, FS_Subset DEF Queued
<1> QED BY <1>4, FS_CardinalityType

LEMMA UndecidedIs ==
  ASSUME TypeOK, Custody
  PROVE  Cardinality(Undecided) = Cardinality(Queued) + Holding
<1>1. IsFiniteSet(Queued) /\ Cardinality(Queued) \in Nat
  BY QueuedFinite
<1>2. CASE Holding = 1
  <2>1. cur \in Envelopes /\ cur \notin Queued /\ Undecided = Queued \cup {cur}
    BY <1>2 DEF Holding, Undecided, TypeOK, Custody, HasEnvelope, Outcome, InHand
  <2> QED BY <1>1, <1>2, <2>1, FS_AddElement
<1>3. CASE Holding # 1
  <2>1. Holding = 0 /\ Undecided = Queued
    BY <1>3 DEF Holding, Undecided, TypeOK, HasEnvelope, Outcome, InHand
  <2> QED BY <1>1, <2>1
<1> QED BY <1>2, <1>3

LEMMA AsideFrame ==
  ASSUME Counts
  PROVE  /\ Cardinality(Entered) \in Nat /\ Aside \in Nat
         /\ UNCHANGED entering => Entered' = Entered /\ (UNCHANGED abandoned => Aside' = Aside)
<1>1. Cardinality(Entered) \in Nat
  BY FS_CardinalityType DEF Counts
<1>2. entering' = entering => Entered' = Entered
  BY DEF Entered
<1> QED BY <1>1, <1>2 DEF Counts, Aside

LEMMA BooksAre ==
  ASSUME TypeOK, Custody, Counts, Books PROVE BooksBalance
<1>1. Cardinality(Undecided) = Cardinality(Queued) + Holding
  BY UndecidedIs
<1>2. Cardinality(Queued) \in Nat /\ Holding \in Nat /\ Credit \in Nat
  BY QueuedFinite DEF Holding, Credit
<1>3. \A c \in Counter : counters[c] \in Nat
  BY DEF Counts
<1>4. /\ counters["captured"] \in Nat /\ counters["replayed"] \in Nat /\ counters["sent"] \in Nat
      /\ counters["persisted"] \in Nat /\ counters["dropped"] \in Nat
      /\ replayDrops \in Nat /\ abandoned \in Nat /\ Cardinality(Entered) \in Nat
  BY <1>3, AsideFrame DEF Counts, Counter
<1> QED BY <1>1, <1>2, <1>4 DEF Books, BooksBalance, Credit, Aside

(* What a step adds to the counters the books are about, and to the gauge *)
Gain(bumped, c) == IF c \in bumped THEN 1 ELSE 0

Account == {"captured", "replayed", "sent", "persisted", "dropped", "queueSize"}

LEMMA Bumps ==
  ASSUME Counts, NEW bumped, Add(bumped)
  PROVE  /\ counters' \in [Counter -> Nat]
         /\ \A c \in Account : /\ counters[c] \in Nat
                               /\ counters'[c] = counters[c] + Gain(bumped, c)
BY DEF Counts, Add, Gain, Account, Counter

LEMMA CountFrame ==
  ASSUME CountInv, Queued' = Queued,
         UNCHANGED <<counters, entering, replayDrops, abandoned, lock>>,
         Holding' = Holding, Credit' = Credit,
         \A t \in Callers : pc'[t] = "sent" <=> pc[t] = "sent"
  PROVE  CountInv'
<1>1. Counts' /\ LockHeld'
  BY AsideFrame DEF CountInv, Counts, LockHeld
<1>2. Books'
  BY AsideFrame DEF CountInv, Books
<1>3. GaugeCoversQueue'
  BY DEF CountInv, GaugeCoversQueue
<1> QED BY <1>1, <1>2, <1>3 DEF CountInv

LEMMA UncountedKeeps ==
  ASSUME IInv, CountInv, Uncounted, UNCHANGED <<counters, entering, replayDrops, abandoned>>
  PROVE  CountInv'
<1>0. TypeOK /\ Custody /\ pc \in [Callers -> CallerState]
  BY DEF IInv, TypeOK
<1>1. ASSUME NEW t \in Callers,
             \/ \E inShutdown \in BOOLEAN : FlushBegin(t, inShutdown)
             \/ FlushSend(t) \/ FlushWorkerGone(t) \/ FlushTimeout(t)
             \/ TakeSender(t) \/ LockHandle(t) \/ Joined(t)
      PROVE  CountInv'
  <2>1. UNCHANGED <<lock, worker, replaying>>
    BY <1>1 DEF FlushBegin, FlushSend, FlushWorkerGone, FlushTimeout, TakeSender, LockHandle, Joined
  <2>2. \E p \in CallerState \ {"sent"} : pc[t] # "sent" /\ pc' = [pc EXCEPT ![t] = p]
    BY <1>0, <1>1 DEF FlushBegin, FlushSend, FlushWorkerGone, FlushTimeout, TakeSender,
       LockHandle, Joined, FlushReturn, CallerState
  <2>3. \A u \in Callers : pc'[u] = "sent" <=> pc[u] = "sent"
    BY <1>0, <2>2
  <2>4. Queued' = Queued
    <3>1. CASE FlushSend(t)
      <4>1. t \in Message /\ t \notin Envelopes /\ queue' = Append(queue, t)
        BY <3>1 DEF FlushSend, Message
      <4>2. Queued' = Queued \cup ({t} \cap Envelopes)
        BY <1>0, <4>1, QueuedSend
      <4> QED BY <4>1, <4>2
    <3>2. CASE FlushTimeout(t)
      BY <1>0, <3>2, QueuedTimeout
    <3>3. CASE UNCHANGED queue
      BY <3>3 DEF Queued
    <3> QED BY <1>1, <3>1, <3>2, <3>3 DEF FlushBegin, FlushWorkerGone, TakeSender, LockHandle, Joined
  <2> QED BY <2>1, <2>3, <2>4, CountFrame DEF Holding, Credit
<1>2. ASSUME NEW t \in Callers, Acknowledge(t) PROVE CountInv'
  <2>1. pc[t] = "wait"
    BY <1>2 DEF IInv, Tickets, Acknowledge
  <2>2. pc' = [pc EXCEPT ![t] = IF closing[t] THEN "take" ELSE "idle"]
    BY <1>2 DEF Acknowledge, FlushReturn
  <2>3. \A u \in Callers : pc'[u] = "sent" <=> pc[u] = "sent"
    BY <1>0, <2>1, <2>2
  <2>4. UNCHANGED <<lock, queue, replaying>> /\ worker = "ack" /\ worker' = "recv"
    BY <1>2 DEF Acknowledge
  <2> QED BY <2>3, <2>4, CountFrame DEF Holding, Credit, Queued
<1>3. CASE WorkerStart \/ DrainEnd \/ ReceiveClosed \/ AckAbandoned \/ LimitExpires
  <2>1. UNCHANGED <<lock, queue, pc>>
    BY <1>3 DEF WorkerStart, DrainEnd, ReceiveClosed, AckAbandoned, LimitExpires
  <2>2. Holding' = Holding /\ Credit' = Credit
    BY <1>3 DEF WorkerStart, DrainEnd, ReceiveClosed, AckAbandoned, LimitExpires, Holding, Credit
  <2> QED BY <2>1, <2>2, CountFrame DEF Queued
<1> QED BY <1>1, <1>2, <1>3 DEF Uncounted

LEMMA EnterKeeps ==
  ASSUME IInv, CountInv, NEW t \in Callers, NEW e \in Envelopes, CountEnter(t, e),
         UNCHANGED <<replayDrops, abandoned>>
  PROVE  CountInv'
<1>1. /\ UNCHANGED <<queue, worker, replaying, pc, lock>> /\ Add({"captured"})
      /\ entering[t] = Nobody /\ entering' = [entering EXCEPT ![t] = e]
      /\ entering \in [Callers -> Envelopes \cup {Nobody}] /\ e # Nobody
  BY DEF CountEnter, vars, CountInv, Counts
<1>2. /\ counters' \in [Counter -> Nat]
      /\ \A c \in Account : /\ counters[c] \in Nat
                            /\ counters'[c] = counters[c] + Gain({"captured"}, c)
  BY <1>1, Bumps DEF CountInv
<1>3. t \notin Entered /\ Entered' = Entered \cup {t}
  BY <1>1 DEF Entered
<1>4. IsFiniteSet(Entered') /\ Cardinality(Entered') = Cardinality(Entered) + 1
  BY <1>3, FS_AddElement DEF CountInv, Counts
<1>5. /\ Queued' = Queued /\ Holding' = Holding /\ Credit' = Credit
      /\ Cardinality(Queued) \in Nat /\ Holding \in Nat /\ Credit \in Nat
  BY <1>1, QueuedFinite DEF Queued, Holding, Credit, IInv
<1>6. Cardinality(Entered) \in Nat /\ replayDrops \in Nat /\ abandoned \in Nat
  BY AsideFrame DEF CountInv, Counts
<1>7. Counts' /\ LockHeld'
  BY <1>1, <1>2, <1>4, <1>6 DEF CountInv, Counts, LockHeld
<1>8. Books'
  <2>1. Aside' = Aside + 1 /\ Aside \in Nat
    BY <1>4, <1>6 DEF Aside
  <2> QED BY <1>2, <1>5, <1>6, <2>1 DEF CountInv, Books, Gain, Account
<1>9. GaugeCoversQueue'
  BY <1>1, <1>2, <1>5 DEF CountInv, GaugeCoversQueue, Gain, Account
<1> QED BY <1>7, <1>8, <1>9 DEF CountInv

LEMMA CaptureKeeps ==
  ASSUME IInv, IInv', CountInv, NEW t \in Callers, NEW e \in Envelopes, CountCapture(t, e),
         UNCHANGED <<replayDrops, abandoned>>
  PROVE  CountInv'
<1> DEFINE bumped == IF e \in Queued' THEN {} ELSE Kept(e)
<1>1. /\ Capture(t, e) /\ Add(bumped)
      /\ entering[t] = e /\ entering' = [entering EXCEPT ![t] = Nobody]
      /\ entering \in [Callers -> Envelopes \cup {Nobody}] /\ e # Nobody
  BY DEF CountCapture, CountInv, Counts
<1>11. t \in Entered /\ Entered' = Entered \ {t}
  BY <1>1 DEF Entered
<1>12. /\ IsFiniteSet(Entered') /\ Cardinality(Entered') = Cardinality(Entered) - 1
       /\ Cardinality(Entered) \in Nat
  BY <1>11, AsideFrame, FS_RemoveElement DEF CountInv, Counts
<1>13. Aside' = Aside - 1 /\ Aside \in Nat
  BY <1>12 DEF Aside, CountInv, Counts
<1>2. /\ counters' \in [Counter -> Nat]
      /\ \A c \in Account : /\ counters[c] \in Nat
                            /\ counters'[c] = counters[c] + Gain(bumped, c)
  BY <1>1, Bumps DEF CountInv
<1>3. e \notin Queued /\ IsFiniteSet(Queued) /\ Cardinality(Queued) \in Nat
  BY <1>1, QueuedFinite DEF IInv, Custody, Accounted, Outstanding, Capture
<1>4. UNCHANGED <<worker, replaying>> /\ pc[t] = "idle" /\ lock = Nobody
  BY <1>1 DEF Capture
<1>5. Holding' = Holding /\ Credit' = Credit
  BY <1>4 DEF Holding, Credit
<1>6. Holding \in Nat /\ Credit \in Nat /\ replayDrops \in Nat /\ abandoned \in Nat
  BY DEF Holding, Credit, CountInv, Counts
<1>7. pc \in [Callers -> CallerState]
  BY DEF IInv, TypeOK
<1>8. Counts'
  BY <1>1, <1>2, <1>6, <1>12 DEF Counts
<1>9. CASE sender /\ Room
  <2>1. lock' = t /\ pc' = [pc EXCEPT ![t] = "sent"] /\ queue' = Append(queue, e)
    BY <1>1, <1>9 DEF Capture
  <2>2. Queued' = Queued \cup {e}
    BY <2>1, QueuedSend DEF IInv, Message
  <2>3. Cardinality(Queued') = Cardinality(Queued) + 1
    BY <1>3, <2>2, FS_AddElement
  <2>4. bumped = {}
    BY <2>2
  <2>5. LockHeld'
    BY <1>4, <1>7, <2>1 DEF LockHeld, CountInv
  <2>6. Books'
    BY <1>2, <1>3, <1>5, <1>6, <1>13, <2>3, <2>4 DEF CountInv, Books, Gain, Account
  <2>7. GaugeCoversQueue'
    BY <1>2, <1>3, <1>4, <2>1, <2>3, <2>4 DEF CountInv, GaugeCoversQueue, Gain, Account
  <2> QED BY <1>8, <2>5, <2>6, <2>7 DEF CountInv
<1>10. CASE ~(sender /\ Room)
  <2>1. UNCHANGED <<lock, pc, queue>>
    BY <1>1, <1>10 DEF Capture
  <2>2. Queued' = Queued
    BY <2>1 DEF Queued
  <2>3. bumped \in {{"dropped"}, {"persisted"}}
    BY <1>3, <2>2 DEF Kept
  <2>4. Books'
    <3>1. /\ Gain(bumped, "captured") = 0 /\ Gain(bumped, "replayed") = 0
          /\ Gain(bumped, "sent") = 0
          /\ Gain(bumped, "persisted") + Gain(bumped, "dropped") = 1
          /\ Gain(bumped, "persisted") \in Nat /\ Gain(bumped, "dropped") \in Nat
      BY <2>3 DEF Gain
    <3> HIDE DEF bumped
    <3>2. \A c \in {"captured", "replayed", "sent", "persisted", "dropped"} :
            counters[c] \in Nat /\ counters'[c] = counters[c] + Gain(bumped, c)
      BY <1>2 DEF Account
    <3>3. Cardinality(Queued') = Cardinality(Queued)
      BY <2>2
    <3>4. counters["captured"] + counters["replayed"] + replayDrops + Credit
            = counters["sent"] + counters["persisted"] + counters["dropped"]
              + Cardinality(Queued) + Holding + Aside
      BY DEF CountInv, Books
    <3>5. counters'["captured"] + counters'["replayed"] + replayDrops' + Credit'
            = counters'["sent"] + counters'["persisted"] + counters'["dropped"]
              + Cardinality(Queued') + Holding' + Aside'
      <4>1. /\ counters'["captured"] = counters["captured"]
            /\ counters'["replayed"] = counters["replayed"]
            /\ counters'["sent"] = counters["sent"]
            /\ counters'["persisted"] + counters'["dropped"]
                 = counters["persisted"] + counters["dropped"] + 1
        BY <3>1, <3>2
      <4>2. /\ Cardinality(Queued) \in Nat /\ Holding \in Nat /\ Credit \in Nat
            /\ replayDrops' = replayDrops /\ Holding' = Holding /\ Credit' = Credit
        BY <1>3, <1>5, <1>6
      <4>3. /\ counters'["persisted"] \in Nat /\ counters'["dropped"] \in Nat
            /\ counters["captured"] \in Nat /\ counters["replayed"] \in Nat
            /\ counters["sent"] \in Nat /\ counters["persisted"] \in Nat
            /\ counters["dropped"] \in Nat
        BY <1>2, <3>2 DEF Counter
      <4>4. counters'["sent"] + counters'["persisted"] + counters'["dropped"]
              = counters["sent"] + counters["persisted"] + counters["dropped"] + 1
        BY <4>1, <4>3
      <4>5. Cardinality(Queued') \in Nat /\ Holding' \in Nat /\ Aside \in Nat /\ Aside' \in Int
            /\ Aside = Aside' + 1
        BY <1>3, <1>12, <1>13, <3>3, <4>2
      <4>6. counters'["captured"] + counters'["replayed"] + replayDrops' + Credit'
              = counters["captured"] + counters["replayed"] + replayDrops + Credit
        BY <4>1, <4>2
      <4> QED BY <3>3, <3>4, <4>2, <4>3, <4>4, <4>5, <4>6
    <3> QED BY <3>5 DEF Books
  <2>5. GaugeCoversQueue'
    BY <1>2, <2>1, <2>2, <2>3 DEF CountInv, GaugeCoversQueue, Gain, Account
  <2> QED BY <1>8, <2>1, <2>4, <2>5 DEF CountInv, LockHeld
<1> QED BY <1>9, <1>10

LEMMA SendReturnKeeps ==
  ASSUME IInv, CountInv, NEW t \in Callers, CountSendReturn(t),
         UNCHANGED <<entering, replayDrops, abandoned>>
  PROVE  CountInv'
<1>1. /\ UNCHANGED <<queue, worker, replaying>> /\ pc[t] = "sent" /\ lock' = Nobody
      /\ pc' = [pc EXCEPT ![t] = "idle"] /\ Add({"queueSize"})
  BY DEF CountSendReturn, SendReturn
<1>2. /\ counters' \in [Counter -> Nat]
      /\ \A c \in Account : /\ counters[c] \in Nat
                            /\ counters'[c] = counters[c] + Gain({"queueSize"}, c)
  BY <1>1, Bumps DEF CountInv
<1>3. Queued' = Queued /\ Holding' = Holding /\ Credit' = Credit /\ Cardinality(Queued) \in Nat
  BY <1>1, QueuedFinite DEF Queued, Holding, Credit, IInv
<1>4. Counts'
  BY <1>2, AsideFrame DEF CountInv, Counts
<1>5. Books'
  <2>1. Aside' = Aside /\ Aside \in Nat
    BY AsideFrame DEF CountInv
  <2> QED BY <1>2, <1>3, <2>1 DEF CountInv, Books, Gain, Account
<1>6. lock = t /\ pc \in [Callers -> CallerState]
  BY <1>1 DEF CountInv, LockHeld, IInv, TypeOK
<1>7. LockHeld'
  BY <1>1, <1>6 DEF CountInv, LockHeld
<1>8. GaugeCoversQueue'
  BY <1>1, <1>2, <1>3, <1>6 DEF CountInv, GaugeCoversQueue, Gain, Account
<1> QED BY <1>4, <1>5, <1>7, <1>8 DEF CountInv

LEMMA ReceiveKeeps ==
  ASSUME IInv, IInv', CountInv, CountReceive, UNCHANGED <<entering, replayDrops, abandoned>>
  PROVE  CountInv'
<1>1. /\ UNCHANGED <<pc, lock, replaying>> /\ ~replaying /\ worker = "recv"
      /\ worker' = IF cur' \in Envelopes THEN "check" ELSE "ack"
  BY DEF CountReceive, Receive, IInv, Custody, HasEnvelope, Outcome
<1>2. Queued = Queued' \cup ({cur'} \cap Envelopes)
  BY QueuedReceive DEF CountReceive, IInv
<1>3. IsFiniteSet(Queued) /\ Cardinality(Queued) \in Nat
  BY QueuedFinite DEF IInv
<1>4. Credit' = Credit /\ Holding = 0
  BY <1>1 DEF Credit, Holding
<1>5. LockHeld'
  BY <1>1 DEF CountInv, LockHeld
<1>6. CASE cur' \in Envelopes
  <2>1. counters' = [counters EXCEPT !["queueSize"] = IF @ > 0 THEN @ - 1 ELSE 0]
    BY <1>6 DEF CountReceive
  <2>2. counters \in [Counter -> Nat] /\ "queueSize" \in Counter
    BY DEF CountInv, Counts, Counter
  <2>3. Counts'
    BY <2>1, <2>2, AsideFrame DEF CountInv, Counts
  <2>4. cur' \in Queued /\ Queued' = Queued \ {cur'}
    <3>1. cur' \notin Queued'
      BY <1>6 DEF IInv, Custody, InHand
    <3> QED BY <1>2, <1>6, <3>1
  <2>5. Cardinality(Queued') = Cardinality(Queued) - 1
    BY <1>3, <2>4, FS_RemoveElement
  <2>6. Holding' = 1
    BY <1>1, <1>6 DEF Holding
  <2>7. \A c \in Account \ {"queueSize"} : counters'[c] = counters[c] /\ counters[c] \in Nat
    BY <2>1, <2>2 DEF Account, Counter
  <2>8. Books'
    <3>1. Aside' = Aside /\ Aside \in Nat
      BY AsideFrame DEF CountInv
    <3> QED BY <1>3, <1>4, <2>5, <2>6, <2>7, <3>1 DEF CountInv, Books, Account
  <2>9. GaugeCoversQueue'
    BY <1>1, <1>3, <2>1, <2>2, <2>5 DEF CountInv, GaugeCoversQueue
  <2> QED BY <1>5, <2>3, <2>8, <2>9 DEF CountInv
<1>7. CASE cur' \notin Envelopes
  <2>1. UNCHANGED counters /\ Queued' = Queued /\ Holding' = 0
    BY <1>1, <1>2, <1>7 DEF CountReceive, Holding
  <2> QED BY <1>1, <1>4, <2>1, CountFrame
<1> QED BY <1>6, <1>7

(* A worker's step keeps the books if what it counts is what it settles *)
LEMMA WorkerCounts ==
  ASSUME IInv, CountInv, NEW bumped, Add(bumped), "queueSize" \notin bumped,
         NEW drops \in {0, 1}, replayDrops' = replayDrops + drops,
         UNCHANGED <<queue, pc, lock, entering, abandoned>>,
         Gain(bumped, "captured") + Gain(bumped, "replayed") + drops + Credit' + Holding
           = Gain(bumped, "sent") + Gain(bumped, "persisted") + Gain(bumped, "dropped")
             + Credit + Holding'
  PROVE  CountInv'
<1>1. /\ counters' \in [Counter -> Nat]
      /\ \A c \in Account : /\ counters[c] \in Nat
                            /\ counters'[c] = counters[c] + Gain(bumped, c)
  BY Bumps DEF CountInv
<1>2. \A c \in Account : Gain(bumped, c) \in Nat
  BY DEF Gain
<1>3. Queued' = Queued /\ Cardinality(Queued) \in Nat
  BY QueuedFinite DEF Queued, IInv
<1>4. /\ Holding \in Nat /\ Holding' \in Nat /\ Credit \in Nat /\ Credit' \in Nat
      /\ replayDrops \in Nat /\ abandoned \in Nat /\ Aside \in Nat /\ Aside' = Aside
  BY AsideFrame DEF Holding, Credit, CountInv, Counts
<1>5. Counts'
  BY <1>1, <1>4, AsideFrame DEF CountInv, Counts
<1>6. Books'
  <2>1. \A c \in {"captured", "replayed", "sent", "persisted", "dropped"} :
          /\ counters[c] \in Nat /\ Gain(bumped, c) \in Nat
          /\ counters'[c] = counters[c] + Gain(bumped, c)
    BY <1>1, <1>2 DEF Account
  <2>2. Cardinality(Queued') = Cardinality(Queued)
    BY <1>3
  <2>3. counters["captured"] + counters["replayed"] + replayDrops + Credit
          = counters["sent"] + counters["persisted"] + counters["dropped"]
            + Cardinality(Queued) + Holding + Aside
    BY DEF CountInv, Books
  <2>4. counters'["captured"] + counters'["replayed"] + replayDrops' + Credit'
          = counters'["sent"] + counters'["persisted"] + counters'["dropped"]
            + Cardinality(Queued') + Holding' + Aside'
    BY <1>3, <1>4, <2>1, <2>2, <2>3
  <2> QED BY <2>4 DEF Books
<1>7. LockHeld'
  BY DEF CountInv, LockHeld
<1>8. GaugeCoversQueue'
  <2>1. counters'["queueSize"] = counters["queueSize"] + 0
    BY <1>1 DEF Gain, Account
  <2> QED BY <1>1, <1>3, <2>1 DEF CountInv, GaugeCoversQueue, Account
<1> QED BY <1>5, <1>6, <1>7, <1>8 DEF CountInv

LEMMA CheckLimitKeeps ==
  ASSUME IInv, CountInv, CountCheckLimit, UNCHANGED <<entering, replayDrops, abandoned>> PROVE CountInv'
<1>1. /\ UNCHANGED <<queue, pc, lock, replaying>> /\ worker = "check"
      /\ worker' \in {"retryable", "post"}
  BY DEF CountCheckLimit, CheckLimit
<1>2. PICK bumped \in {{}, {"rateLimited"}} : Add(bumped)
  BY DEF CountCheckLimit
<1>3. Holding' = Holding /\ Credit' = 0 /\ Credit = 0
  BY <1>1 DEF Holding, Credit
<1>4. replayDrops' = replayDrops + 0
  BY DEF CountInv, Counts
<1> QED BY <1>1, <1>2, <1>3, <1>4, WorkerCounts DEF Gain, Holding

LEMMA SettleKeeps ==
  ASSUME IInv, CountInv, CountSettle, UNCHANGED <<entering, replayDrops, abandoned>> PROVE CountInv'
<1>1. /\ UNCHANGED <<queue, pc, lock, replaying>> /\ ~replaying /\ worker \in Outcome
      /\ worker' = "recv"
  BY DEF CountSettle, Settle
<1>2. PICK bumped \in {{}, {"dropped"}, {"persisted"}} :
        Add(bumped) /\ (bumped = {} <=> worker # "retryable")
  BY DEF CountSettle, Kept
<1>3. Holding = (IF bumped = {} THEN 0 ELSE 1) /\ Holding' = 0 /\ Credit' = 0 /\ Credit = 0
  BY <1>1, <1>2 DEF Holding, Credit, Outcome
<1>4. replayDrops' = replayDrops + 0
  BY DEF CountInv, Counts
<1> QED BY <1>1, <1>2, <1>3, <1>4, WorkerCounts DEF Gain

(* What a response means for the books, of a live envelope or of a replay *)
LEMMA PostIs ==
  ASSUME CountPost
  PROVE  /\ UNCHANGED <<queue, pc, lock, replaying>> /\ worker = "post"
         /\ \/ worker' = "accepted" /\ Add({"sent"})
            \/ worker' = "permanent" /\ Add({"failed", "dropped"})
            \/ worker' = "retryable" /\ Add({"failed", "rateLimited"})
            \/ worker' = "retryable" /\ Add({"failed"})
            \/ worker' = "post" /\ Add({"retries"})
<1>1. CASE \/ PostAccepted /\ Add({"sent"})
           \/ PostRefused /\ Add({"failed", "dropped"})
           \/ \E retryAfter \in BOOLEAN : PostTooMany(retryAfter) /\ Add({"failed", "rateLimited"})
  BY <1>1 DEF PostAccepted, PostRefused, PostTooMany, Return
<1>2. CASE /\ PostServerError \/ PostNetworkError
           /\ Add(IF worker' = "post" THEN {"retries"} ELSE {"failed"})
  <2>1. /\ UNCHANGED <<queue, pc, lock, replaying>> /\ worker = "post"
        /\ worker' \in {"retryable", "post"}
    BY <1>2 DEF PostServerError, PostNetworkError, RetryOrGiveUp
  <2> QED BY <1>2, <2>1
<1> QED BY <1>1, <1>2 DEF CountPost

LEMMA PostKeeps ==
  ASSUME IInv, CountInv, CountPost, ~replaying, UNCHANGED <<entering, replayDrops, abandoned>>
  PROVE  CountInv'
<1>1. UNCHANGED <<queue, pc, lock, replaying>> /\ worker = "post"
  BY PostIs
<1>2. Holding = 1 /\ Credit' = 0 /\ Credit = 0
  BY <1>1 DEF Holding, Credit
<1>3. PICK bumped : /\ Add(bumped)
                    /\ \/ bumped = {"sent"} /\ Holding' = 0
                       \/ bumped = {"failed", "dropped"} /\ Holding' = 0
                       \/ bumped = {"failed", "rateLimited"} /\ Holding' = 1
                       \/ bumped = {"failed"} /\ Holding' = 1
                       \/ bumped = {"retries"} /\ Holding' = 1
  BY <1>1, PostIs DEF Holding
<1>4. replayDrops' = replayDrops + 0
  BY DEF CountInv, Counts
<1> QED BY <1>1, <1>2, <1>3, <1>4, WorkerCounts DEF Gain

LEMMA ReplayKeeps ==
  ASSUME IInv, CountInv, CountedReplay PROVE CountInv'
<1>1. PICK bumped :
        /\ Add(bumped) /\ UNCHANGED <<queue, pc, lock>> /\ replaying
        /\ \/ /\ bumped \in {{}, {"dropped"}, {"failed", "dropped"}, {"failed", "rateLimited"},
                             {"failed"}, {"retries"}}
              /\ Credit' = Credit
           \/ bumped = {"sent"} /\ Credit = 0 /\ Credit' = 1
           \/ bumped = {"replayed"} /\ Credit = 1 /\ Credit' = 0
        /\ Holding' = 0 /\ Holding = 0
  <2>1. CASE CountDrainNext
    <3>1. UNCHANGED <<queue, pc, lock, replaying>> /\ worker = "drain"
          /\ worker' \in {"drain", "check"}
      BY <2>1 DEF CountDrainNext, DrainNext, DrainUnreadable
    <3>2. replaying
      BY <3>1 DEF IInv, Custody
    <3>3. Add({}) \/ Add({"dropped"})
      BY <2>1 DEF CountDrainNext
    <3> QED BY <3>1, <3>2, <3>3 DEF Credit, Holding
  <2>2. CASE CountSettleReplay
    <3>1. /\ UNCHANGED <<queue, pc, lock>> /\ replaying /\ worker \in Outcome
          /\ IF worker = "retryable" THEN worker' = "recv" /\ ~replaying'
             ELSE worker' = "drain" /\ replaying'
      BY <2>2 DEF CountSettleReplay, SettleReplay
    <3>2. Credit' = 0 /\ Holding' = 0 /\ Holding = 0
      BY <3>1 DEF Credit, Holding
    <3>3. \/ worker = "accepted" /\ Add({"replayed"}) /\ Credit = 1
          \/ worker = "permanent" /\ Add({"dropped"}) /\ Credit = 0
          \/ worker = "retryable" /\ Add({}) /\ Credit = 0
      BY <2>2, <3>1 DEF CountSettleReplay, Credit, Outcome
    <3> QED BY <3>1, <3>2, <3>3
  <2>3. CASE CountPost /\ replaying
    <3>1. UNCHANGED <<queue, pc, lock, replaying>> /\ worker = "post"
      BY <2>3, PostIs
    <3>2. Credit = 0 /\ Credit' = (IF worker' = "accepted" THEN 1 ELSE 0)
          /\ Holding = 0 /\ Holding' = 0
      BY <2>3, <3>1 DEF Credit, Holding
    <3> QED BY <2>3, <3>1, <3>2, PostIs
  <2> QED BY <2>1, <2>2, <2>3 DEF CountedReplay
<1>2. /\ counters["dropped"] \in Nat
      /\ counters'["dropped"] = counters["dropped"] + Gain(bumped, "dropped")
  BY <1>1, Bumps DEF CountInv, Account
<1>3. /\ replayDrops' = replayDrops + Gain(bumped, "dropped") /\ Gain(bumped, "dropped") \in {0, 1}
      /\ UNCHANGED <<entering, abandoned>>
  BY <1>2 DEF CountedReplay, CountInv, Counts, Gain
<1>4. PICK drops \in {0, 1} : drops = Gain(bumped, "dropped")
  BY <1>3
<1> QED BY <1>1, <1>3, <1>4, WorkerCounts DEF Gain

LEMMA CountStep ==
  ASSUME IInv, IInv', CountInv, [NextCounted]_countedVars PROVE CountInv'
<1>7. CASE Sending /\ UNCHANGED <<replayDrops, abandoned>>
  BY <1>7, EnterKeeps, CaptureKeeps DEF Sending
<1>1. CASE Counted /\ UNCHANGED <<entering, replayDrops, abandoned>>
  BY <1>1, SendReturnKeeps, ReceiveKeeps, CheckLimitKeeps, SettleKeeps, PostKeeps
     DEF Counted
<1>2. CASE CountedReplay
  BY <1>2, ReplayKeeps
<1>3. CASE Uncounted /\ UNCHANGED <<counters, entering, replayDrops, abandoned>>
  BY <1>3, UncountedKeeps
<1>4. CASE CountWorkerStartFails
  <2>1. /\ UNCHANGED <<counters, entering, replayDrops, pc, lock>>
        /\ abandoned' = abandoned + Cardinality(Queued) /\ worker = "start" /\ worker' = "gone"
        /\ queue' = <<>>
    BY <1>4 DEF CountWorkerStartFails, WorkerStartFails
  <2>2. Queued' = {} /\ Cardinality(Queued') = 0 /\ Cardinality(Queued) \in Nat
    BY <2>1, QueuedEmpty, QueuedFinite, FS_EmptySet DEF IInv
  <2>3. Holding = 0 /\ Holding' = 0 /\ Credit = 0 /\ Credit' = 0
    BY <2>1 DEF Holding, Credit
  <2>9. /\ Entered' = Entered /\ Cardinality(Entered) \in Nat /\ abandoned \in Nat
        /\ Aside' = Aside + Cardinality(Queued)
    BY <2>1, <2>2, AsideFrame DEF CountInv, Counts, Aside
  <2>4. Counts' /\ LockHeld'
    BY <2>1, <2>2, <2>9 DEF CountInv, Counts, LockHeld
  <2>5. \A c \in Account : counters[c] \in Nat
    BY DEF CountInv, Counts, Account, Counter
  <2>6. Books'
    <3>1. /\ Cardinality(Queued') = 0 /\ Aside \in Nat /\ replayDrops \in Nat
          /\ \A c \in {"captured", "replayed", "sent", "persisted", "dropped"} :
               counters'[c] = counters[c] /\ counters[c] \in Nat
      BY <2>1, <2>2, <2>5, AsideFrame DEF CountInv, Counts, Account
    <3> QED BY <2>1, <2>2, <2>3, <2>9, <3>1 DEF CountInv, Books
  <2>7. Cardinality(Queued)' = 0
    BY <2>2
  <2>8. GaugeCoversQueue'
    BY <2>1, <2>5, <2>7 DEF GaugeCoversQueue, Account
  <2> QED BY <2>4, <2>6, <2>8 DEF CountInv
<1>5. ASSUME NEW spawned \in BOOLEAN, CountRestart(spawned) PROVE CountInv'
  <2>1. /\ counters' = Zero /\ replayDrops' = 0 /\ abandoned' = 0 /\ lock' = Nobody
        /\ pc' = [t \in Callers |-> "idle"] /\ queue' = <<>> /\ ~replaying'
        /\ worker' \in {"start", "gone"} /\ entering' = [u \in Callers |-> Nobody]
    BY <1>5 DEF CountRestart, Restart
  <2>2. Queued' = {} /\ Cardinality(Queued') = 0
    BY <2>1, QueuedEmpty, FS_EmptySet
  <2>3. Holding' = 0 /\ Credit' = 0
    BY <2>1 DEF Holding, Credit
  <2>7. Entered' = {} /\ IsFiniteSet(Entered') /\ Aside' = 0
    <3>1. Entered' = {}
      BY <2>1 DEF Entered
    <3> QED BY <2>1, <3>1, FS_EmptySet DEF Aside
  <2>4. Counts' /\ LockHeld'
    BY <2>1, <2>7 DEF Counts, LockHeld, Zero
  <2>5. \A c \in Account : counters'[c] = 0
    BY <2>1 DEF Zero, Account, Counter
  <2>6. Books' /\ GaugeCoversQueue'
    BY <2>1, <2>2, <2>3, <2>5, <2>7 DEF Books, GaugeCoversQueue, Account
  <2> QED BY <2>4, <2>6 DEF CountInv
<1>6. CASE UNCHANGED countedVars
  BY <1>6, CountFrame DEF countedVars, vars, Queued, Holding, Credit
<1> QED BY <1>1, <1>2, <1>3, <1>4, <1>5, <1>6, <1>7 DEF NextCounted

LEMMA CountInit == InitCounted => CountInv
<1> SUFFICES ASSUME InitCounted PROVE CountInv
  OBVIOUS
<1>1. /\ counters = Zero /\ replayDrops = 0 /\ abandoned = 0 /\ lock = Nobody
      /\ pc = [t \in Callers |-> "idle"] /\ Range(queue) = {} /\ ~replaying
      /\ worker \in {"start", "gone"} /\ entering = [t \in Callers |-> Nobody]
  BY NothingOnEmpty DEF InitCounted, Init
<1>2. Queued = {} /\ Cardinality(Queued) = 0
  BY <1>1, FS_EmptySet DEF Queued
<1>3. Holding = 0 /\ Credit = 0
  BY <1>1 DEF Holding, Credit
<1>7. Entered = {} /\ IsFiniteSet(Entered) /\ Aside = 0
  <2>1. Entered = {}
    BY <1>1 DEF Entered
  <2> QED BY <1>1, <2>1, FS_EmptySet DEF Aside
<1>4. Counts /\ LockHeld
  BY <1>1, <1>7 DEF Counts, LockHeld, Zero
<1>5. \A c \in Account : counters[c] = 0
  BY <1>1 DEF Zero, Account, Counter
<1>6. Books /\ GaugeCoversQueue
  BY <1>1, <1>2, <1>3, <1>5, <1>7 DEF Books, GaugeCoversQueue, Account
<1> QED BY <1>4, <1>6 DEF CountInv

THEOREM CountInvariance == SpecCounted => [](IInv /\ CountInv)
<1>1. InitCounted => IInv /\ CountInv
  BY CountInit, IInvInit DEF InitCounted
<1>2. IInv /\ CountInv /\ [NextCounted]_countedVars => (IInv /\ CountInv)'
  BY CountedIsTransport, IInvStep, CountStep
<1> QED BY <1>1, <1>2, PTL DEF SpecCounted

(* Every envelope this process captured is counted once, as sent, persisted  *)
(* or dropped, or is undecided or waiting for the sender's mutex, or went    *)
(* with a worker that never started                                          *)
THEOREM TheBooksBalance == SpecCounted => []BooksBalance
<1>1. IInv /\ CountInv => BooksBalance
  BY BooksAre DEF IInv, CountInv
<1> QED BY <1>1, CountInvariance, PTL

(* The gauge of queued envelopes never understates the channel by more than  *)
(* the one send whose caller is still to add it                              *)
THEOREM TheGaugeCovers == SpecCounted => []GaugeCoversQueue
<1>1. CountInv => GaugeCoversQueue
  BY DEF CountInv
<1> QED BY <1>1, CountInvariance, PTL
=============================================================================
