--------------------------- MODULE SessionsProofs ---------------------------
(***************************************************************************)
(* Proofs about Sessions for any number of threads, clients, requests,     *)
(* sessions and events.                                                    *)
(***************************************************************************)
EXTENDS Sessions, SequenceTheorems, TLAPS

USE SessionsAssumption

-----------------------------------------------------------------------------
(* The type.  A thread in a capture has an event in its job, and a session  *)
(* about to be ended was started: neither is in the type.                  *)

JobHasEvent ==
  \A t \in Threads : pc[t] \in {"capture", "read", "mark"} => job[t].event # None

StartedOnHub == \A h \in Hubs : session[h] # None => status[session[h]] # "unused"
StartedInHand ==
  \A t \in Threads : pc[t] = "end" => status[job[t].session] # "unused"

Labels == {"idle", "capture", "read", "mark", "start", "open", "stop", "take", "end", "close"}

LEMMA ReadyIsJob ==
  /\ Ready \in Jobs
  /\ Ready.hub = Main /\ Ready.client = None /\ Ready.event = None
  /\ Ready.session = None /\ Ready.explicit = FALSE /\ Ready.owner = None
BY DEF Ready, Jobs, Hubs

TypeInv == TypeOK /\ JobHasEvent /\ StartedOnHub /\ StartedInHand

Steps(t) == Calls(t) \/ Step(t)

LEMMA ReturnKeeps ==
  ASSUME TypeOK, NEW t \in Threads, Return(t)
  PROVE  /\ job' \in [Threads -> Jobs] /\ job'[t] = Ready /\ pc'[t] = "idle"
         /\ pc' = [pc EXCEPT ![t] = "idle"]
         /\ \A u \in Threads \ {t} : job'[u] = job[u] /\ pc'[u] = pc[u]
BY ReadyIsJob DEF TypeOK, Return, Goto

LEMMA CallMakes ==
  ASSUME TypeOK, NEW t \in Threads, NEW label \in Labels, NEW event \in Events \cup {None},
         NEW explicit \in BOOLEAN, Call(t, label, event, explicit)
  PROVE  /\ job' \in [Threads -> Jobs] /\ job'[t].event = event /\ pc'[t] = label
         /\ pc[t] = "idle" /\ pc' = [pc EXCEPT ![t] = label]
         /\ \A u \in Threads \ {t} : job'[u] = job[u] /\ pc'[u] = pc[u]
<1>1. Ready \in Jobs /\ current[t] \in Hubs
  BY ReadyIsJob DEF TypeOK
<1>2. [Ready EXCEPT !.hub = current[t], !.event = event, !.explicit = explicit] \in Jobs
      /\ [Ready EXCEPT !.hub = current[t], !.event = event, !.explicit = explicit].event = event
  BY <1>1 DEF Jobs
<1> QED BY <1>2 DEF TypeOK, Call, Goto

LEMMA LocalClient ==
  ASSUME TypeOK, NEW t \in Threads, NEW c \in Clients \cup {None}, Local(t, "client", c)
  PROVE  /\ job' \in [Threads -> Jobs] /\ job'[t].client = c
         /\ job'[t].event = job[t].event /\ job'[t].session = job[t].session
         /\ job'[t].owner = job[t].owner
         /\ \A u \in Threads \ {t} : job'[u] = job[u]
<1>1. job[t] \in Jobs
  BY DEF TypeOK
<1> QED BY <1>1 DEF TypeOK, Local, Jobs

LEMMA LocalSession ==
  ASSUME TypeOK, NEW t \in Threads, NEW s \in SessionIds \cup {None}, Local(t, "session", s)
  PROVE  /\ job' \in [Threads -> Jobs] /\ job'[t].session = s
         /\ job'[t].event = job[t].event /\ job'[t].owner = job[t].owner
         /\ \A u \in Threads \ {t} : job'[u] = job[u]
<1>1. job[t] \in Jobs
  BY DEF TypeOK
<1> QED BY <1>1 DEF TypeOK, Local, Jobs

LEMMA MarkKeeps ==
  ASSUME TypeOK, NEW s \in SessionIds, NEW new \in Status, Mark(s, new)
  PROVE  /\ status' \in [SessionIds -> Status \cup {"unused"}]
         /\ \A r \in SessionIds : status[r] # "unused" => status'[r] # "unused"
         /\ status'[s] = new /\ \A r \in SessionIds \ {s} : status'[r] = status[r]
BY DEF TypeOK, Mark, Status

LEMMA HandKeeps ==
  ASSUME TypeOK, NEW record \in Records, Hand(record)
  PROVE  handed' \in Seq(Records)
BY AppendProperties DEF TypeOK, Hand

(* The threads' part of the type *)
JobsOK ==
  /\ pc \in [Threads -> Labels] /\ job \in [Threads -> Jobs]
  /\ \A t \in Threads : /\ pc[t] = "end" => job[t].session # None
                        /\ pc[t] = "close" => job[t].owner # None
  /\ JobHasEvent

LEMMA TypeHasJobs == TypeInv => JobsOK
BY DEF TypeInv, TypeOK, JobsOK, Labels

LEMMA Moves ==
  ASSUME TypeInv, NEW t \in Threads, NEW label \in Labels, Goto(t, label),
         job' \in [Threads -> Jobs], \A u \in Threads \ {t} : job'[u] = job[u],
         label = "end" => job'[t].session # None,
         label = "close" => job'[t].owner # None,
         label \in {"capture", "read", "mark"} => job'[t].event # None
  PROVE  JobsOK'
<1>1. JobsOK
  BY TypeHasJobs
<1>2. pc' \in [Threads -> Labels] /\ pc'[t] = label
      /\ \A u \in Threads \ {t} : pc'[u] = pc[u]
  BY <1>1 DEF JobsOK, Goto
<1> QED BY <1>1, <1>2 DEF JobsOK, JobHasEvent

LEMMA CallMoves ==
  ASSUME TypeInv, NEW t \in Threads, NEW label \in Labels \ {"end", "close"},
         NEW event \in Events \cup {None}, label \in {"capture", "read", "mark"} => event # None,
         NEW explicit \in BOOLEAN, Call(t, label, event, explicit)
  PROVE  JobsOK'
<1>1. Goto(t, label)
  BY DEF Call
<1>2. /\ job' \in [Threads -> Jobs] /\ job'[t].event = event
      /\ \A u \in Threads \ {t} : job'[u] = job[u]
  <2>1. TypeOK
    BY DEF TypeInv
  <2> QED BY <2>1, CallMakes
<1> QED BY <1>1, <1>2, Moves

LEMMA ReturnMoves ==
  ASSUME TypeInv, NEW t \in Threads, Return(t)
  PROVE  JobsOK'
<1>1. Goto(t, "idle")
  BY DEF Return
<1>2. job' \in [Threads -> Jobs] /\ \A u \in Threads \ {t} : job'[u] = job[u]
  BY ReturnKeeps DEF TypeInv
<1> QED BY <1>1, <1>2, Moves DEF Labels

(* A step that opens and takes no session leaves the hubs' sessions and what *)
(* threads have in hand started.                                           *)
LEMMA StaysStarted ==
  ASSUME TypeInv, TypeOK', UNCHANGED session,
         \A r \in SessionIds : status[r] # "unused" => status'[r] # "unused",
         \A t \in Threads : pc'[t] = "end" => pc[t] = "end" /\ job'[t].session = job[t].session
  PROVE  StartedOnHub' /\ StartedInHand'
<1>1. \A h \in Hubs : session[h] # None => session[h] \in SessionIds
  BY DEF TypeInv, TypeOK
<1>2. \A t \in Threads : pc[t] = "end" => job[t].session \in SessionIds
  BY DEF TypeInv, TypeOK, Jobs
<1> QED BY <1>1, <1>2 DEF TypeInv, StartedOnHub, StartedInHand

(* Calls of the application *)
LEMMA CallKeepsType ==
  ASSUME TypeInv, NEW t \in Threads, Calls(t)
  PROVE  TypeInv'
<1>1. ASSUME NEW e \in Events, Capture(t, e) PROVE TypeInv'
  <2> JobsOK'
    BY <1>1, CallMoves DEF Capture, Labels
  <2>1. TypeOK' /\ JobHasEvent'
    BY <1>1 DEF TypeInv, TypeOK, JobsOK, Labels, Capture, hubVars
  <2>2. StartedOnHub' /\ StartedInHand'
    BY <1>1, <2>1, CallMakes, StaysStarted DEF TypeInv, Labels, Capture, hubVars
  <2> QED BY <2>1, <2>2 DEF TypeInv
<1>2. ASSUME NEW e \in Events, Panic(t, e) PROVE TypeInv'
  <2>1. /\ status' \in [SessionIds -> Status \cup {"unused"}]
        /\ \A r \in SessionIds : status[r] # "unused" => status'[r] # "unused"
        /\ crashed' \subseteq SessionIds
    <3>1. CASE ActiveOn(current[t])
      <4>1. session[current[t]] \in SessionIds
        BY <3>1 DEF TypeInv, TypeOK, ActiveOn
      <4>2. Mark(session[current[t]], "crashed")
            /\ crashed' = crashed \cup {session[current[t]]}
        BY <1>2, <3>1 DEF Panic, MarkCrashed
      <4> QED BY <4>1, <4>2, MarkKeeps DEF TypeInv, TypeOK, Status
    <3>2. CASE ~ActiveOn(current[t])
      BY <1>2, <3>2 DEF Panic, MarkCrashed, TypeInv, TypeOK
    <3> QED BY <3>1, <3>2
  <2> JobsOK'
    BY <1>2, CallMoves DEF Panic, Labels
  <2>2. TypeOK' /\ JobHasEvent'
    BY <1>2, <2>1 DEF TypeInv, TypeOK, JobsOK, Labels, Panic
  <2>3. StartedOnHub' /\ StartedInHand'
    BY <1>2, <2>1, <2>2, CallMakes, StaysStarted DEF TypeInv, Labels, Panic
  <2> QED BY <2>2, <2>3 DEF TypeInv
<1>3. CASE Start(t)
  <2> JobsOK'
    BY <1>3, CallMoves DEF Start, Labels
  <2>1. TypeOK' /\ JobHasEvent'
    BY <1>3 DEF TypeInv, TypeOK, JobsOK, Labels, Start, hubVars
  <2>2. StartedOnHub' /\ StartedInHand'
    BY <1>3, <2>1, CallMakes, StaysStarted DEF TypeInv, Labels, Start, hubVars
  <2> QED BY <2>1, <2>2 DEF TypeInv
<1>4. ASSUME NEW explicit \in BOOLEAN, End(t, explicit) PROVE TypeInv'
  <2> JobsOK'
    BY <1>4, CallMoves DEF End, Labels
  <2>1. TypeOK' /\ JobHasEvent'
    BY <1>4 DEF TypeInv, TypeOK, JobsOK, Labels, End, hubVars
  <2>2. StartedOnHub' /\ StartedInHand'
    <3>1. pc'[t] = "stop" /\ \A u \in Threads \ {t} : job'[u] = job[u] /\ pc'[u] = pc[u]
      BY <1>4, CallMakes, "stop" \in Labels, None \in Events \cup {None} DEF TypeInv, End, Labels
    <3> QED BY <1>4, <2>1, <3>1, StaysStarted DEF End, hubVars
  <2> QED BY <2>1, <2>2 DEF TypeInv
<1>5. ASSUME NEW c \in Clients, InitClient(t, c) PROVE TypeInv'
  <2>1. [Ready EXCEPT !.owner = c] \in Jobs
    BY ReadyIsJob DEF Jobs
  <2> JobsOK'
    <3>1. CASE c \in Tracked
      <4>1. Goto(t, "start") /\ job' = [job EXCEPT ![t] = [Ready EXCEPT !.owner = c]]
        BY <1>5, <3>1 DEF InitClient
      <4>2. job' \in [Threads -> Jobs] /\ \A u \in Threads \ {t} : job'[u] = job[u]
        BY <2>1, <4>1 DEF TypeInv, TypeOK
      <4> QED BY <4>1, <4>2, Moves DEF Labels
    <3>2. CASE c \notin Tracked
      BY <1>5, <3>2, TypeHasJobs DEF InitClient, JobsOK, JobHasEvent
    <3> QED BY <3>1, <3>2
  <2>2. TypeOK' /\ JobHasEvent'
    BY <1>5 DEF TypeInv, TypeOK, JobsOK, Labels, InitClient, Hubs
  <2>3. UNCHANGED <<session, status>>
    BY <1>5 DEF InitClient
  <2>4. ASSUME NEW u \in Threads, pc'[u] = "end"
        PROVE  pc[u] = "end" /\ job'[u].session = job[u].session
    <3>1. CASE c \in Tracked
      BY <1>5, <2>4, <3>1 DEF InitClient, Goto, TypeInv, TypeOK
    <3>2. CASE c \notin Tracked
      BY <1>5, <2>4, <3>2 DEF InitClient
    <3> QED BY <3>1, <3>2
  <2>5. StartedOnHub' /\ StartedInHand'
    BY <2>2, <2>3, <2>4, StaysStarted
  <2> QED BY <2>2, <2>5 DEF TypeInv
<1>6. ASSUME NEW c \in Clients, DropGuard(t, c) PROVE TypeInv'
  <2>1. [Ready EXCEPT !.owner = c] \in Jobs /\ [Ready EXCEPT !.owner = c].owner = c /\ c # None
    BY ReadyIsJob DEF Jobs
  <2>2. TypeOK' /\ JobHasEvent'
    BY <1>6, <2>1 DEF TypeInv, TypeOK, JobHasEvent, DropGuard, Goto, hubVars
  <2>3. StartedOnHub' /\ StartedInHand'
    BY <1>6, <2>2, StaysStarted DEF TypeInv, TypeOK, DropGuard, Goto, hubVars
  <2> QED BY <2>2, <2>3 DEF TypeInv
<1>7. ASSUME NEW r \in Requests,
             RequestCall(t, r) \/ RequestRun(t, r) \/ RequestRunEnd(t)
      PROVE  TypeInv'
  <2>1. UNCHANGED <<session, status, pc, job, guard, handed, crashed, replaced, vanished>>
    BY <1>7 DEF RequestCall, RequestRun, RequestRunEnd, hubVars
  <2> JobsOK'
    BY <2>1, TypeHasJobs DEF JobsOK, JobHasEvent
  <2>2. TypeOK' /\ JobHasEvent'
    <3>1. CASE RequestCall(t, r)
      BY <3>1 DEF TypeInv, TypeOK, JobsOK, Labels, RequestCall
    <3>2. CASE RequestRun(t, r)
      BY <3>2 DEF TypeInv, TypeOK, JobsOK, Labels, RequestRun, hubVars, Hubs
    <3>3. CASE RequestRunEnd(t)
      BY <3>3 DEF TypeInv, TypeOK, JobsOK, Labels, RequestRunEnd, hubVars, Hubs
    <3> QED BY <1>7, <3>1, <3>2, <3>3
  <2>3. StartedOnHub' /\ StartedInHand'
    BY <2>1, <2>2, StaysStarted DEF TypeInv
  <2> QED BY <2>2, <2>3 DEF TypeInv
<1>8. CASE RequestRunEnd(t)
  <2>1. current[t] \in Requests
    BY <1>8 DEF RequestRunEnd, TypeInv, TypeOK, Hubs
  <2> QED BY <1>7, <1>8, <2>1
<1> QED BY <1>1, <1>2, <1>3, <1>4, <1>5, <1>6, <1>7, <1>8 DEF Calls

(* A response marks the session of its request's hub, and drops the hub; so *)
(* does a cancelled request.                                               *)
LEMMA HubGoes ==
  ASSUME TypeInv, NEW r \in Requests, DropHub(r), UNCHANGED <<client, current, pc, job, guard>>,
         UNCHANGED <<handed, replaced>>, crashed' \subseteq SessionIds,
         status' \in [SessionIds -> Status \cup {"unused"}],
         \A s \in SessionIds : status[s] # "unused" => status'[s] # "unused"
  PROVE  TypeInv'
<1>1. r \in Hubs /\ session[r] \in SessionIds \cup {None}
  BY DEF TypeInv, TypeOK, Hubs
<1>2. JobsOK'
  BY TypeHasJobs DEF JobsOK, JobHasEvent
<1>3. session' \in [Hubs -> SessionIds \cup {None}] /\ vanished' \subseteq SessionIds
      /\ request' \in [Requests -> {"none", "made", "call", "await", "done"}]
  BY <1>1 DEF DropHub, TypeInv, TypeOK
<1>4. TypeOK' /\ JobHasEvent'
  BY <1>2, <1>3 DEF TypeInv, TypeOK, JobsOK, Labels
<1>5. StartedOnHub'
  BY <1>1 DEF DropHub, TypeInv, TypeOK, StartedOnHub
<1>6. StartedInHand'
  BY DEF TypeInv, TypeOK, Jobs, StartedInHand
<1> QED BY <1>4, <1>5, <1>6 DEF TypeInv

LEMMA RequestEndKeepsType ==
  ASSUME TypeInv, NEW r \in Requests, Cancel(r) \/ \E failed \in BOOLEAN : Respond(r, failed)
  PROVE  TypeInv'
<1>1. CASE Cancel(r)
  BY <1>1, HubGoes DEF Cancel, TypeInv, TypeOK
<1>2. ASSUME NEW failed \in BOOLEAN, Respond(r, failed) PROVE TypeInv'
  <2>1. /\ status' \in [SessionIds -> Status \cup {"unused"}]
        /\ \A s \in SessionIds : status[s] # "unused" => status'[s] # "unused"
        /\ crashed' \subseteq SessionIds
    <3>1. CASE failed /\ ActiveOn(r)
      <4>1. session[r] \in SessionIds
        BY <3>1 DEF TypeInv, TypeOK, ActiveOn, Hubs
      <4>2. Mark(session[r], "crashed") /\ crashed' = crashed \cup {session[r]}
        BY <1>2, <3>1 DEF Respond, MarkCrashed
      <4> QED BY <4>1, <4>2, MarkKeeps DEF TypeInv, TypeOK, Status
    <3>2. CASE ~(failed /\ ActiveOn(r))
      BY <1>2, <3>2 DEF Respond, MarkCrashed, TypeInv, TypeOK
    <3> QED BY <3>1, <3>2
  <2> QED BY <1>2, <2>1, HubGoes DEF Respond
<1> QED BY <1>1, <1>2

(* The ways a step of a call can go on *)
LEMMA AfterEventMoves ==
  ASSUME TypeInv, NEW t \in Threads, pc[t] = "read", AfterEvent(t)
  PROVE  JobsOK' /\ pc'[t] # "end" /\ \A u \in Threads \ {t} : pc'[u] = pc[u] /\ job'[u] = job[u]
<1>1. CASE job[t].event \in ErrorLevel
  <2>1. Goto(t, "mark") /\ UNCHANGED job
    BY <1>1 DEF AfterEvent
  <2>2. job' \in [Threads -> Jobs] /\ job'[t].event # None
    BY <2>1 DEF TypeInv, TypeOK, JobHasEvent
  <2>3. JobsOK'
    BY <2>1, <2>2, Moves DEF Labels
  <2> QED BY <2>1, <2>3 DEF TypeInv, TypeOK, Goto
<1>2. CASE job[t].event \notin ErrorLevel
  BY <1>2, ReturnMoves, ReturnKeeps DEF AfterEvent, TypeInv
<1> QED BY <1>1, <1>2

LEMMA AfterEndMoves ==
  ASSUME TypeInv, NEW t \in Threads, AfterEnd(t)
  PROVE  JobsOK' /\ pc'[t] # "end" /\ \A u \in Threads \ {t} : pc'[u] = pc[u] /\ job'[u] = job[u]
<1>1. CASE job[t].owner = None
  BY <1>1, ReturnMoves, ReturnKeeps DEF AfterEnd, TypeInv
<1>2. CASE job[t].owner # None
  <2>1. Goto(t, "close") /\ UNCHANGED job
    BY <1>2 DEF AfterEnd
  <2>2. job' \in [Threads -> Jobs]
    BY <2>1 DEF TypeInv, TypeOK
  <2>3. JobsOK'
    BY <1>2, <2>1, <2>2, Moves DEF Labels
  <2> QED BY <2>1, <2>3 DEF TypeInv, TypeOK, Goto
<1> QED BY <1>1, <1>2

LEMMA ReadsClient ==
  ASSUME TypeInv, NEW t \in Threads, NEW c \in Clients \cup {None},
         NEW label \in {"read", "open", "take"}, Goto(t, label), Local(t, "client", c),
         label = "read" => job[t].event # None
  PROVE  JobsOK' /\ pc'[t] = label /\ \A u \in Threads \ {t} : pc'[u] = pc[u] /\ job'[u] = job[u]
<1>1. /\ job' \in [Threads -> Jobs] /\ job'[t].event = job[t].event
      /\ \A u \in Threads \ {t} : job'[u] = job[u]
  BY LocalClient DEF TypeInv
<1>2. label \in Labels
  BY DEF Labels
<1>3. JobsOK'
  BY <1>1, <1>2, Moves
<1> QED BY <1>1, <1>3 DEF TypeInv, TypeOK, Goto

LEMMA StepKeepsType ==
  ASSUME TypeInv, NEW t \in Threads, Step(t)
  PROVE  TypeInv'
<1> DEFINE hub == job[t].hub
<1>1. /\ job[t] \in Jobs /\ hub \in Hubs
      /\ client[hub] \in Clients \cup {None} /\ session[hub] \in SessionIds \cup {None}
  BY DEF TypeInv, TypeOK, Jobs
(* Steps that leave sessions and their status alone *)
<1>2. ASSUME JobsOK', pc'[t] # "end", UNCHANGED <<hubVars, current, request, handed, crashed, replaced, vanished>>,
             guard' \in [Clients -> {"none", "init", "live", "dropping", "closed"}],
             \A u \in Threads \ {t} : pc'[u] = pc[u] /\ job'[u] = job[u]
      PROVE  TypeInv'
  <2>1. TypeOK' /\ JobHasEvent'
    BY <1>2 DEF TypeInv, TypeOK, JobsOK, Labels, hubVars
  <2>2. StartedOnHub' /\ StartedInHand'
    BY <1>2, <2>1, StaysStarted DEF hubVars
  <2> QED BY <2>1, <2>2 DEF TypeInv
<1>3. CASE CaptureClient(t)
  <2>1. UNCHANGED <<hubVars, current, guard, request, handed, crashed, replaced, vanished>> /\ pc[t] = "capture"
    BY <1>3 DEF CaptureClient
  <2>2. CASE client[hub] = None
    BY <1>2, <1>3, <2>1, <2>2, ReturnMoves, ReturnKeeps DEF CaptureClient, TypeInv, TypeOK
  <2>3. CASE client[hub] # None
    <3>1. job[t].event # None
      BY <2>1 DEF TypeInv, JobHasEvent
    <3>2. Goto(t, "read") /\ Local(t, "client", client[hub])
      BY <1>3, <2>3 DEF CaptureClient
    <3> QED BY <1>1, <1>2, <2>1, <3>1, <3>2, ReadsClient DEF TypeInv, TypeOK
  <2> QED BY <2>2, <2>3
<1>4. CASE CaptureRead(t)
  <2>1. pc[t] = "read" /\ AfterEvent(t)
        /\ UNCHANGED <<hubVars, current, guard, request, crashed, replaced, vanished>>
    BY <1>4 DEF CaptureRead
  <2>2. JobsOK' /\ pc'[t] # "end" /\ \A u \in Threads \ {t} : pc'[u] = pc[u] /\ job'[u] = job[u]
    BY <2>1, AfterEventMoves
  <2>3. handed' \in Seq(Records)
    <3>1. job[t].event \in Events
      BY <1>1, <2>1 DEF TypeInv, JobHasEvent, Jobs
    <3>2. \A id \in {session[hub], Foreign} :
            [kind |-> "event", event |-> job[t].event, session |-> id] \in Records
      BY <1>1, <3>1 DEF Records
    <3> QED BY <1>4, <3>2, HandKeeps DEF CaptureRead, TypeInv, TypeOK
  <2>4. TypeOK' /\ JobHasEvent'
    BY <2>1, <2>2, <2>3 DEF TypeInv, TypeOK, JobsOK, Labels, hubVars
  <2>5. StartedOnHub' /\ StartedInHand'
    BY <2>1, <2>2, <2>4, StaysStarted DEF hubVars
  <2> QED BY <2>4, <2>5 DEF TypeInv
<1>5. CASE CaptureMark(t)
  <2>1. /\ status' \in [SessionIds -> Status \cup {"unused"}]
        /\ \A s \in SessionIds : status[s] # "unused" => status'[s] # "unused"
    <3>1. CASE UNCHANGED status
      BY <3>1 DEF TypeInv, TypeOK
    <3>2. CASE ActiveOn(hub) /\ Mark(session[hub], "errored")
      BY <1>1, <3>2, MarkKeeps DEF ActiveOn, TypeInv, Status
    <3> QED BY <1>5, <3>1, <3>2 DEF CaptureMark
  <2>2. Return(t) /\ UNCHANGED <<client, session, current, guard, request, handed, crashed, replaced, vanished>>
    BY <1>5 DEF CaptureMark
  <2>3. JobsOK' /\ pc'[t] = "idle" /\ \A u \in Threads \ {t} : pc'[u] = pc[u] /\ job'[u] = job[u]
    BY <2>2, ReturnMoves, ReturnKeeps DEF TypeInv
  <2>4. TypeOK' /\ JobHasEvent'
    BY <2>1, <2>2, <2>3 DEF TypeInv, TypeOK, JobsOK, Labels
  <2>5. StartedOnHub' /\ StartedInHand'
    BY <2>1, <2>2, <2>3, <2>4, StaysStarted
  <2> QED BY <2>4, <2>5 DEF TypeInv
<1>6. CASE StartClient(t)
  <2>1. UNCHANGED <<hubVars, current, request, handed, crashed, replaced, vanished>>
    BY <1>6 DEF StartClient
  <2>2. CASE client[hub] \in Released
    <3>1. Goto(t, "open") /\ Local(t, "client", client[hub]) /\ UNCHANGED guard
      BY <1>6, <2>2 DEF StartClient
    <3> QED BY <1>1, <1>2, <2>1, <3>1, ReadsClient DEF TypeInv, TypeOK
  <2>3. CASE client[hub] \notin Released
    <3>1. Started(t)
      BY <1>6, <2>3 DEF StartClient
    <3>2. JobsOK' /\ pc'[t] = "idle" /\ \A u \in Threads \ {t} : pc'[u] = pc[u] /\ job'[u] = job[u]
      BY <3>1, ReturnMoves, ReturnKeeps DEF Started, TypeInv
    <3>3. guard' \in [Clients -> {"none", "init", "live", "dropping", "closed"}]
      BY <3>1 DEF Started, TypeInv, TypeOK
    <3> QED BY <1>2, <2>1, <3>2, <3>3
  <2> QED BY <2>2, <2>3
<1>7. ASSUME NEW s \in SessionIds, Open(t, s) PROVE TypeInv'
  <2>1. Mark(s, "ok") /\ Started(t) /\ Hand([kind |-> "start", session |-> s])
        /\ UNCHANGED <<client, current, request, crashed, vanished>>
        /\ session' = [session EXCEPT ![hub] = s]
        /\ replaced' = replaced \cup ({session[hub]} \ {None})
    BY <1>7 DEF Open
  <2>2. JobsOK' /\ pc'[t] = "idle" /\ \A u \in Threads \ {t} : pc'[u] = pc[u] /\ job'[u] = job[u]
    BY <2>1, ReturnMoves, ReturnKeeps DEF Started, TypeInv
  <2>3. guard' \in [Clients -> {"none", "init", "live", "dropping", "closed"}]
    BY <2>1 DEF Started, TypeInv, TypeOK
  <2>4. /\ status' \in [SessionIds -> Status \cup {"unused"}]
        /\ \A r \in SessionIds : status[r] # "unused" => status'[r] # "unused"
        /\ status'[s] # "unused"
    BY <2>1, MarkKeeps DEF TypeInv, Status
  <2>5. handed' \in Seq(Records)
    <3>1. [kind |-> "start", session |-> s] \in Records
      BY DEF Records
    <3> QED BY <2>1, <3>1, HandKeeps DEF TypeInv
  <2>6. session' \in [Hubs -> SessionIds \cup {None}] /\ replaced' \subseteq SessionIds
    BY <1>1, <2>1 DEF TypeInv, TypeOK
  <2>7. TypeOK' /\ JobHasEvent'
    BY <2>1, <2>2, <2>3, <2>4, <2>5, <2>6 DEF TypeInv, TypeOK, JobsOK, Labels
  <2>8. StartedOnHub'
    BY <1>1, <2>1, <2>4 DEF TypeInv, TypeOK, StartedOnHub
  <2>9. StartedInHand'
    BY <2>2, <2>4 DEF TypeInv, TypeOK, Jobs, StartedInHand
  <2> QED BY <2>7, <2>8, <2>9 DEF TypeInv
<1>8. CASE StopClient(t)
  <2>1. UNCHANGED <<hubVars, current, guard, request, handed, crashed, replaced, vanished>>
    BY <1>8 DEF StopClient
  <2>2. CASE client[hub] = None
    BY <1>2, <1>8, <2>1, <2>2, AfterEndMoves DEF StopClient, TypeInv, TypeOK
  <2>3. CASE client[hub] # None
    <3>1. Goto(t, "take") /\ Local(t, "client", client[hub])
      BY <1>8, <2>3 DEF StopClient
    <3> QED BY <1>1, <1>2, <2>1, <3>1, ReadsClient DEF TypeInv, TypeOK
  <2> QED BY <2>2, <2>3
<1>9. CASE Take(t)
  <2>1. UNCHANGED <<client, status, current, guard, request, handed, crashed, replaced, vanished>>
        /\ session' = [session EXCEPT ![hub] = None]
    BY <1>9 DEF Take
  <2>2. session' \in [Hubs -> SessionIds \cup {None}] /\ StartedOnHub'
    BY <1>1, <2>1 DEF TypeInv, TypeOK, StartedOnHub
  <2>3. CASE ActiveOn(hub)
    <3>1. Goto(t, "end") /\ Local(t, "session", session[hub])
      BY <1>9, <2>3 DEF Take
    <3>2. /\ job' \in [Threads -> Jobs] /\ job'[t].session = session[hub]
          /\ \A u \in Threads \ {t} : job'[u] = job[u]
      BY <1>1, <3>1, LocalSession DEF TypeInv
    <3>3. session[hub] # None
      BY <2>3 DEF ActiveOn
    <3>4. JobsOK'
      BY <3>1, <3>2, <3>3, Moves DEF Labels
    <3>5. TypeOK' /\ JobHasEvent'
      BY <2>1, <2>2, <3>4 DEF TypeInv, TypeOK, JobsOK, Labels
    <3>6. StartedInHand'
      BY <1>1, <2>1, <3>1, <3>2, <3>3 DEF TypeInv, TypeOK, StartedInHand, StartedOnHub, Goto
    <3> QED BY <2>2, <3>5, <3>6 DEF TypeInv
  <2>4. CASE ~ActiveOn(hub)
    <3>1. JobsOK' /\ pc'[t] # "end" /\ \A u \in Threads \ {t} : pc'[u] = pc[u] /\ job'[u] = job[u]
      BY <1>9, <2>4, AfterEndMoves DEF Take
    <3>2. TypeOK' /\ JobHasEvent'
      BY <2>1, <2>2, <3>1 DEF TypeInv, TypeOK, JobsOK, Labels
    <3>3. StartedInHand'
      BY <2>1, <3>1 DEF TypeInv, StartedInHand
    <3> QED BY <2>2, <3>2, <3>3 DEF TypeInv
  <2> QED BY <2>3, <2>4
<1>10. CASE SendEnd(t)
  <2>1. /\ AfterEnd(t) /\ pc[t] = "end"
        /\ UNCHANGED <<hubVars, current, guard, request, crashed, replaced, vanished>>
        /\ Hand([kind |-> "end", session |-> job[t].session, status |-> Final(t)])
    BY <1>10 DEF SendEnd
  <2>2. JobsOK' /\ pc'[t] # "end" /\ \A u \in Threads \ {t} : pc'[u] = pc[u] /\ job'[u] = job[u]
    BY <2>1, AfterEndMoves
  <2>3. job[t].session \in SessionIds
    BY <1>1, <2>1 DEF TypeInv, TypeOK, Jobs
  <2>4. Final(t) \in FinalStatus
    BY <2>1, <2>3 DEF TypeInv, TypeOK, StartedInHand, Final, FinalStatus, Status
  <2>5. [kind |-> "end", session |-> job[t].session, status |-> Final(t)] \in Records
    BY <2>3, <2>4 DEF Records
  <2>6. handed' \in Seq(Records)
    BY <2>1, <2>5, HandKeeps DEF TypeInv
  <2>7. TypeOK' /\ JobHasEvent'
    BY <2>1, <2>2, <2>6 DEF TypeInv, TypeOK, JobsOK, Labels, hubVars
  <2>8. StartedOnHub' /\ StartedInHand'
    BY <2>1, <2>2, <2>7, StaysStarted DEF hubVars
  <2> QED BY <2>7, <2>8 DEF TypeInv
<1>11. CASE Close(t)
  <2>1. Return(t) /\ UNCHANGED <<hubVars, current, request, handed, crashed, replaced, vanished>>
    BY <1>11 DEF Close
  <2>2. JobsOK' /\ pc'[t] = "idle" /\ \A u \in Threads \ {t} : pc'[u] = pc[u] /\ job'[u] = job[u]
    BY <2>1, ReturnMoves, ReturnKeeps DEF TypeInv
  <2>3. guard' \in [Clients -> {"none", "init", "live", "dropping", "closed"}]
    BY <1>11 DEF Close, TypeInv, TypeOK
  <2> QED BY <1>2, <2>1, <2>2, <2>3
<1> QED BY <1>3, <1>4, <1>5, <1>6, <1>7, <1>8, <1>9, <1>10, <1>11 DEF Step

THEOREM TypeInvariance == Spec => []TypeInv
<1>1. Init => TypeInv
  <2> SUFFICES ASSUME Init PROVE TypeInv
    OBVIOUS
  <2>1. TypeOK
    BY ReadyIsJob, <<>> \in Seq(Records) DEF Init, TypeOK, Hubs
  <2>2. JobHasEvent /\ StartedOnHub /\ StartedInHand
    BY DEF Init, JobHasEvent, StartedOnHub, StartedInHand
  <2> QED BY <2>1, <2>2 DEF TypeInv
<1>2. TypeInv /\ [Next]_vars => TypeInv'
  <2> SUFFICES ASSUME TypeInv, [Next]_vars PROVE TypeInv'
    OBVIOUS
  <2>1. CASE Next
    BY <2>1, CallKeepsType, StepKeepsType, RequestEndKeepsType DEF Next
  <2>2. CASE UNCHANGED vars
    BY <2>2 DEF vars, hubVars, TypeInv, TypeOK, JobHasEvent, StartedOnHub, StartedInHand
  <2> QED BY <2>1, <2>2
<1> QED BY <1>1, <1>2, PTL DEF Spec

(* Every variable keeps its type: a record that is handed over names a       *)
(* session, a foreign one or none, and no session ends that was not started. *)
THEOREM TypeCorrect == Spec => []TypeOK
BY TypeInvariance, PTL DEF TypeInv

-----------------------------------------------------------------------------
(* What a step does to the life of sessions: nothing, or one of seven things. *)
(* A session is on a hub, then in the hand of the thread that took it.      *)

InHand == [t \in Threads |-> IF pc[t] = "end" THEN job[t].session ELSE None]

Hands(record) == handed' = Append(handed, record)

SameLife == UNCHANGED <<session, status, handed, crashed, replaced, vanished, InHand>>

HandsEvent(h, e) ==
  /\ \E id \in {session[h], Foreign} :
       Hands([kind |-> "event", event |-> e, session |-> id])
  /\ UNCHANGED <<session, status, crashed, replaced, vanished, InHand>>

MarksErrored(h) ==
  /\ session[h] # None /\ status[session[h]] = "ok"
  /\ status' = [status EXCEPT ![session[h]] = "errored"]
  /\ UNCHANGED <<session, handed, crashed, replaced, vanished, InHand>>

MarksCrashed(h) ==
  /\ session[h] # None
  /\ status' = [status EXCEPT ![session[h]] = "crashed"]
  /\ crashed' = crashed \cup {session[h]}
  /\ UNCHANGED <<session, handed, replaced, vanished, InHand>>

Opens(h, s) ==
  /\ status[s] = "unused"
  /\ Hands([kind |-> "start", session |-> s])
  /\ status' = [status EXCEPT ![s] = "ok"]
  /\ session' = [session EXCEPT ![h] = s]
  /\ replaced' = replaced \cup ({session[h]} \ {None})
  /\ UNCHANGED <<crashed, vanished, InHand>>

Takes(h, t) ==
  /\ session[h] # None /\ InHand[t] = None
  /\ session' = [session EXCEPT ![h] = None]
  /\ InHand' = [InHand EXCEPT ![t] = session[h]]
  /\ UNCHANGED <<status, handed, crashed, replaced, vanished>>

(* The hub of a request goes, and its session may be marked first *)
Vanishes(h) ==
  /\ session' = [session EXCEPT ![h] = None]
  /\ vanished' = vanished \cup ({session[h]} \ {None})
  /\ \/ UNCHANGED <<status, crashed>>
     \/ /\ session[h] # None
        /\ status' = [status EXCEPT ![session[h]] = "crashed"]
        /\ crashed' = crashed \cup {session[h]}
  /\ UNCHANGED <<handed, replaced, InHand>>

Ends(t, final) ==
  /\ InHand[t] # None
  /\ status[InHand[t]] = "crashed" => final \in {"crashed", "explicit"}
  /\ Hands([kind |-> "end", session |-> InHand[t], status |-> final])
  /\ InHand' = [InHand EXCEPT ![t] = None]
  /\ UNCHANGED <<session, status, crashed, replaced, vanished>>

Life ==
  \/ SameLife
  \/ \E h \in Hubs : \/ \E e \in Events : HandsEvent(h, e)
                     \/ MarksErrored(h) \/ MarksCrashed(h) \/ Vanishes(h)
                     \/ \E s \in SessionIds : Opens(h, s)
                     \/ \E t \in Threads : Takes(h, t)
  \/ \E t \in Threads, final \in FinalStatus : Ends(t, final)

LEMMA HandStays ==
  ASSUME TypeInv, TypeInv', NEW t \in Threads, pc[t] # "end", pc'[t] # "end",
         \A u \in Threads \ {t} : pc'[u] = pc[u] /\ job'[u] = job[u]
  PROVE  UNCHANGED InHand
BY DEF InHand

LEMMA CallsAreLife ==
  ASSUME TypeInv, TypeInv', NEW t \in Threads, Calls(t)
  PROVE  Life
<1>0. /\ pc[t] # "end" /\ pc'[t] # "end"
      /\ \A u \in Threads \ {t} : pc'[u] = pc[u] /\ job'[u] = job[u]
  <2> DEFINE Frame == /\ pc[t] # "end" /\ pc'[t] # "end"
                      /\ \A u \in Threads \ {t} : pc'[u] = pc[u] /\ job'[u] = job[u]
  <2>1. pc \in [Threads -> Labels] /\ job \in [Threads -> Jobs]
    BY TypeHasJobs DEF JobsOK
  <2>2. ASSUME NEW label \in Labels \ {"end"}, NEW event \in Events \cup {None},
               NEW explicit \in BOOLEAN, Call(t, label, event, explicit)
        PROVE  Frame
    BY <2>1, <2>2 DEF Call, Goto
  <2>3. ASSUME NEW e \in Events, Capture(t, e) \/ Panic(t, e) PROVE Frame
    BY <2>2, <2>3 DEF Capture, Panic, Labels
  <2>4. ASSUME Start(t) PROVE Frame
    BY <2>2, <2>4 DEF Start, Labels
  <2>5. ASSUME NEW explicit \in BOOLEAN, End(t, explicit) PROVE Frame
    <3>1. "stop" \in Labels \ {"end"} /\ None \in Events \cup {None}
      BY DEF Labels
    <3> QED BY <2>2, <2>5, <3>1 DEF End
  <2>6. ASSUME NEW c \in Clients, InitClient(t, c) PROVE Frame
    BY <2>1, <2>6 DEF InitClient, Goto
  <2>7. ASSUME NEW c \in Clients, DropGuard(t, c) PROVE Frame
    BY <2>1, <2>7 DEF DropGuard, Goto
  <2>8. ASSUME (\E r \in Requests : RequestCall(t, r) \/ RequestRun(t, r)) \/ RequestRunEnd(t)
        PROVE  Frame
    BY <2>1, <2>8 DEF RequestCall, RequestRun, RequestRunEnd
  <2> HIDE DEF Frame
  <2>9. Frame
    BY <2>3, <2>4, <2>5, <2>6, <2>7, <2>8 DEF Calls
  <2> QED BY <2>9 DEF Frame
<1>1. UNCHANGED InHand
  BY <1>0, HandStays
<1>2. ASSUME NEW e \in Events, Panic(t, e) PROVE Life
  <2>1. current[t] \in Hubs
    BY DEF TypeInv, TypeOK
  <2>2. CASE ActiveOn(current[t])
    <3>1. MarksCrashed(current[t])
      BY <1>1, <1>2, <2>2 DEF Panic, MarkCrashed, ActiveOn, Mark, MarksCrashed
    <3> QED BY <2>1, <3>1 DEF Life
  <2>3. CASE ~ActiveOn(current[t])
    <3>1. SameLife
      BY <1>1, <1>2, <2>3 DEF Panic, MarkCrashed, SameLife
    <3> QED BY <3>1 DEF Life
  <2> QED BY <2>2, <2>3
<1>3. CASE \A e \in Events : ~Panic(t, e)
  <2>1. UNCHANGED <<session, status, handed, crashed, replaced, vanished>>
    BY <1>3 DEF Calls, Capture, Start, End, InitClient, DropGuard, RequestCall, RequestRun,
                RequestRunEnd, hubVars
  <2>2. SameLife
    BY <1>1, <2>1 DEF SameLife
  <2> QED BY <2>2 DEF Life
<1> QED BY <1>2, <1>3

LEMMA RequestEndIsLife ==
  ASSUME TypeInv, NEW r \in Requests, Cancel(r) \/ \E failed \in BOOLEAN : Respond(r, failed)
  PROVE  Life
<1>1. UNCHANGED InHand
  BY DEF Cancel, Respond, InHand
<1>2. CASE Cancel(r)
  <2>1. Vanishes(r)
    BY <1>1, <1>2 DEF Cancel, DropHub, Vanishes
  <2> QED BY <2>1 DEF Life, Hubs
<1>3. ASSUME NEW failed \in BOOLEAN, Respond(r, failed) PROVE Life
  <2>1. Vanishes(r)
    BY <1>1, <1>3 DEF Respond, MarkCrashed, ActiveOn, Mark, DropHub, Vanishes
  <2> QED BY <2>1 DEF Life, Hubs
<1> QED BY <1>2, <1>3

LEMMA StepsAreLife ==
  ASSUME TypeInv, TypeInv', NEW t \in Threads, Step(t)
  PROVE  Life
<1> DEFINE hub == job[t].hub
<1>1. hub \in Hubs /\ job[t] \in Jobs
  BY DEF TypeInv, TypeOK, Jobs
<1>2. \A u \in Threads \ {t} : pc'[u] = pc[u] /\ job'[u] = job[u]
  <2> DEFINE Frame == \A u \in Threads \ {t} : pc'[u] = pc[u] /\ job'[u] = job[u]
  <2>1. pc \in [Threads -> Labels] /\ job \in [Threads -> Jobs]
    BY TypeHasJobs DEF JobsOK
  <2>2. ASSUME NEW label, Goto(t, label), UNCHANGED job PROVE Frame
    BY <2>1, <2>2 DEF Goto
  <2>3. Return(t) => Frame
    BY <2>1 DEF Return, Goto
  <2>4. ASSUME NEW label, NEW c \in Clients \cup {None}, Goto(t, label), Local(t, "client", c)
        PROVE  Frame
    BY <2>1, <2>4 DEF Goto, Local
  <2>5. ASSUME NEW label, NEW s \in SessionIds \cup {None}, Goto(t, label),
               Local(t, "session", s)
        PROVE  Frame
    BY <2>1, <2>5 DEF Goto, Local
  <2>6. client[hub] \in Clients \cup {None} /\ session[hub] \in SessionIds \cup {None}
    BY <1>1 DEF TypeInv, TypeOK
  <2> HIDE DEF Frame
  <2>7. ASSUME CaptureClient(t) \/ StartClient(t) PROVE Frame
    BY <2>3, <2>4, <2>6, <2>7 DEF CaptureClient, StartClient, Started
  <2>8. ASSUME StopClient(t) PROVE Frame
    BY <2>2, <2>3, <2>4, <2>6, <2>8 DEF StopClient, AfterEnd
  <2>9. ASSUME CaptureRead(t) \/ CaptureMark(t) PROVE Frame
    BY <2>2, <2>3, <2>9 DEF CaptureRead, CaptureMark, AfterEvent
  <2>10. ASSUME NEW s \in SessionIds, Open(t, s) PROVE Frame
    BY <2>3, <2>10 DEF Open, Started
  <2>11. ASSUME Take(t) PROVE Frame
    BY <2>2, <2>3, <2>5, <2>6, <2>11 DEF Take, AfterEnd
  <2>12. ASSUME SendEnd(t) \/ Close(t) PROVE Frame
    BY <2>2, <2>3, <2>12 DEF SendEnd, Close, AfterEnd
  <2>13. Frame
    BY <2>7, <2>8, <2>9, <2>10, <2>11, <2>12 DEF Step
  <2> QED BY <2>13 DEF Frame
<1>3. pc[t] # "end" /\ pc'[t] # "end" => UNCHANGED InHand
  BY <1>2, HandStays
<1>4. CASE CaptureClient(t) \/ StartClient(t) \/ StopClient(t) \/ Close(t)
  <2>1. /\ pc[t] # "end" /\ pc'[t] # "end"
        /\ UNCHANGED <<session, status, handed, crashed, replaced, vanished>>
    BY <1>4 DEF TypeInv, TypeOK, CaptureClient, StartClient, StopClient, Close, Started,
                AfterEnd, Return, Goto, hubVars
  <2>2. SameLife
    BY <1>3, <2>1 DEF SameLife
  <2> QED BY <2>2 DEF Life
<1>5. CASE CaptureRead(t)
  <2>1. /\ pc[t] = "read" /\ pc'[t] # "end"
        /\ UNCHANGED <<session, status, crashed, replaced, vanished>>
    BY <1>5 DEF TypeInv, TypeOK, CaptureRead, AfterEvent, Return, Goto, hubVars
  <2>2. job[t].event \in Events
    BY <1>1, <2>1 DEF TypeInv, JobHasEvent, Jobs
  <2>3. CASE UNCHANGED handed
    BY <1>3, <2>1, <2>3 DEF SameLife, Life
  <2>4. CASE \E id \in {session[hub], Foreign} :
               Hand([kind |-> "event", event |-> job[t].event, session |-> id])
    <3>1. HandsEvent(hub, job[t].event)
      BY <1>3, <2>1, <2>4 DEF HandsEvent, Hand, Hands
    <3> QED BY <1>1, <2>2, <3>1 DEF Life
  <2> QED BY <1>5, <2>3, <2>4 DEF CaptureRead
<1>6. CASE CaptureMark(t)
  <2>1. /\ pc[t] = "mark" /\ pc'[t] # "end"
        /\ UNCHANGED <<session, handed, crashed, replaced, vanished>>
    BY <1>6 DEF TypeInv, TypeOK, CaptureMark, Return, Goto
  <2>2. CASE ActiveOn(hub) /\ status[session[hub]] = "ok"
    <3>1. MarksErrored(hub)
      BY <1>3, <1>6, <2>1, <2>2 DEF CaptureMark, ActiveOn, Mark, MarksErrored
    <3> QED BY <1>1, <3>1 DEF Life
  <2>3. CASE ~(ActiveOn(hub) /\ status[session[hub]] = "ok")
    <3>1. SameLife
      BY <1>3, <1>6, <2>1, <2>3 DEF CaptureMark, SameLife
    <3> QED BY <3>1 DEF Life
  <2> QED BY <2>2, <2>3
<1>7. ASSUME NEW s \in SessionIds, Open(t, s) PROVE Life
  <2>1. pc[t] = "open" /\ pc'[t] # "end"
    BY <1>7 DEF TypeInv, TypeOK, Open, Started, Return, Goto
  <2>2. Opens(hub, s)
    BY <1>3, <1>7, <2>1 DEF Open, Mark, Hand, Hands, Opens
  <2> QED BY <1>1, <2>2 DEF Life
<1>8. CASE Take(t)
  <2>1. pc[t] = "take" /\ UNCHANGED <<status, handed, crashed, replaced, vanished>>
        /\ session' = [session EXCEPT ![hub] = None]
    BY <1>8 DEF Take
  <2>2. CASE ActiveOn(hub)
    <3>1. Goto(t, "end") /\ Local(t, "session", session[hub])
      BY <1>8, <2>2 DEF Take
    <3>2. pc'[t] = "end" /\ job'[t].session = session[hub]
      BY <1>1, <3>1, LocalSession DEF TypeInv, TypeOK, Goto
    <3>3. InHand[t] = None /\ InHand' = [InHand EXCEPT ![t] = session[hub]]
      BY <1>2, <2>1, <3>2 DEF InHand
    <3>4. Takes(hub, t)
      BY <2>1, <2>2, <3>3 DEF Takes, ActiveOn
    <3> QED BY <1>1, <3>4 DEF Life
  <2>3. CASE ~ActiveOn(hub)
    <3>1. pc'[t] # "end"
      BY <1>8, <2>1, <2>3 DEF TypeInv, TypeOK, Take, AfterEnd, Return, Goto
    <3>2. session' = session
      BY <1>1, <2>1, <2>3 DEF ActiveOn, TypeInv, TypeOK
    <3>3. SameLife
      BY <1>3, <2>1, <3>1, <3>2 DEF SameLife
    <3> QED BY <3>3 DEF Life
  <2> QED BY <2>2, <2>3
<1>9. CASE SendEnd(t)
  <2>1. /\ pc[t] = "end" /\ UNCHANGED <<session, status, crashed, replaced, vanished>>
        /\ Hand([kind |-> "end", session |-> job[t].session, status |-> Final(t)])
    BY <1>9 DEF SendEnd, hubVars
  <2>2. pc'[t] # "end"
    BY <1>9 DEF TypeInv, TypeOK, SendEnd, AfterEnd, Return, Goto
  <2>3. InHand[t] = job[t].session /\ InHand' = [InHand EXCEPT ![t] = None]
    BY <1>2, <2>1, <2>2 DEF InHand
  <2>4. job[t].session \in SessionIds /\ InHand[t] # None
    BY <1>1, <2>1, <2>3 DEF TypeInv, TypeOK, Jobs
  <2>5. Final(t) \in FinalStatus
    BY <2>1, <2>4 DEF TypeInv, TypeOK, StartedInHand, Final, FinalStatus, Status
  <2>6. Ends(t, Final(t))
    BY <2>1, <2>3, <2>4 DEF Ends, Hand, Hands, Final
  <2> QED BY <2>5, <2>6 DEF Life
<1> QED BY <1>4, <1>5, <1>6, <1>7, <1>8, <1>9 DEF Step

LEMMA NextIsLife ==
  ASSUME TypeInv, TypeInv', [Next]_vars
  PROVE  Life
<1>1. CASE Next
  BY <1>1, CallsAreLife, StepsAreLife, RequestEndIsLife DEF Next
<1>2. CASE UNCHANGED vars
  <2>1. SameLife
    BY <1>2 DEF vars, hubVars, SameLife, InHand
  <2> QED BY <2>1 DEF Life
<1> QED BY <1>1, <1>2

-----------------------------------------------------------------------------
(* The inductive invariant: a session is on at most one hub or in one hand,  *)
(* in neither once it ended, started if a record names it, and what a panic  *)
(* marked stays marked.                                                    *)

OnOneHub == \A g, h \in Hubs : session[g] # None /\ session[g] = session[h] => g = h
InOneHand == \A t, u \in Threads : InHand[t] # None /\ InHand[t] = InHand[u] => t = u
HubOrHand == \A h \in Hubs, t \in Threads : session[h] # None => InHand[t] # session[h]
EndedIsGone ==
  \A j \in DOMAIN handed : handed[j].kind = "end" =>
    /\ \A h \in Hubs : session[h] # handed[j].session
    /\ \A t \in Threads : InHand[t] # handed[j].session
HandedStarted ==
  \A j \in DOMAIN handed :
    handed[j].session \notin {Foreign, None} => status[handed[j].session] # "unused"
StartedHanded ==
  \A s \in SessionIds : status[s] # "unused" => \E i \in DOMAIN handed : StartsAt(s, i)
CrashedStays == \A s \in crashed : status[s] = "crashed"

Places == OnOneHub /\ InOneHand /\ HubOrHand /\ EndedIsGone
InOrder == HandedStarted /\ StartedHanded /\ Bracketed
Crashes == CrashedStays /\ CrashSticks
(* NoneForgotten, but for that a session's hub is in use *)
Remembered ==
  \A s \in SessionIds : status[s] # "unused" =>
    \/ \E h \in Hubs : session[h] = s
    \/ \E t \in Threads : InHand[t] = s
    \/ \E i \in DOMAIN handed : EndsAt(s, i)
    \/ s \in replaced \cup vanished
LifeInv == Places /\ InOrder /\ Crashes /\ Remembered

(* The type of what Life talks about *)
LEMMA LifeTypes ==
  ASSUME TypeInv
  PROVE  /\ session \in [Hubs -> SessionIds \cup {None}]
         /\ status \in [SessionIds -> Status \cup {"unused"}]
         /\ InHand \in [Threads -> SessionIds \cup {None}]
         /\ handed \in Seq(Records) /\ Len(handed) \in Nat /\ DOMAIN handed = 1..Len(handed)
         /\ \A i \in DOMAIN handed :
              /\ handed[i].session \in SessionIds \cup {Foreign, None}
              /\ handed[i].kind \in {"start", "end"} => handed[i].session \in SessionIds
         /\ crashed \subseteq SessionIds
         /\ \A h \in Hubs : session[h] # None => status[session[h]] # "unused"
         /\ \A t \in Threads : InHand[t] # None => status[InHand[t]] # "unused"
<1>1. \A i \in DOMAIN handed : handed[i] \in Records
  BY DEF TypeInv, TypeOK
<1>2. \A r \in Records : /\ r.session \in SessionIds \cup {Foreign, None}
                         /\ r.kind \in {"start", "end"} => r.session \in SessionIds
  BY DEF Records
<1>3. InHand \in [Threads -> SessionIds \cup {None}]
  BY DEF TypeInv, TypeOK, Jobs, InHand
<1> QED BY <1>1, <1>2, <1>3 DEF TypeInv, TypeOK, StartedOnHub, StartedInHand, InHand

LEMMA HandedGrows ==
  ASSUME TypeInv, NEW record \in Records, Hands(record)
  PROVE  /\ Len(handed') = Len(handed) + 1
         /\ DOMAIN handed = 1..Len(handed) /\ DOMAIN handed' = 1..(Len(handed) + 1)
         /\ Len(handed) \in Nat
         /\ \A i \in DOMAIN handed : handed'[i] = handed[i]
         /\ handed'[Len(handed) + 1] = record
<1>1. handed \in Seq(Records)
  BY DEF TypeInv, TypeOK
<1> QED BY <1>1, AppendProperties DEF Hands

(* Places *)
LEMMA PlacesStep ==
  ASSUME TypeInv, TypeInv', LifeInv, Life
  PROVE  Places'
<1> USE DEF LifeInv, Places
<1>1. CASE UNCHANGED <<session, handed, InHand>>
  BY <1>1 DEF OnOneHub, InOneHand, HubOrHand, EndedIsGone
<1>2. ASSUME NEW record \in Records, Hands(record), UNCHANGED <<session, InHand>>,
             record.kind # "end"
      PROVE  Places'
  <2>1. OnOneHub' /\ InOneHand' /\ HubOrHand'
    BY <1>2 DEF OnOneHub, InOneHand, HubOrHand
  <2>2. EndedIsGone'
    BY <1>2, HandedGrows DEF EndedIsGone
  <2> QED BY <2>1, <2>2
<1>3. ASSUME NEW h \in Hubs, NEW e \in Events, HandsEvent(h, e) PROVE Places'
  <2>1. \A id \in {session[h], Foreign} :
          [kind |-> "event", event |-> e, session |-> id] \in Records
    BY LifeTypes DEF Records
  <2> QED BY <1>2, <1>3, <2>1 DEF HandsEvent
<1>5. ASSUME NEW h \in Hubs, NEW s \in SessionIds, Opens(h, s) PROVE Places'
  <2>1. [kind |-> "start", session |-> s] \in Records
    BY DEF Records
  <2>2. /\ \A g \in Hubs : session[g] # s
        /\ \A t \in Threads : InHand[t] # s
        /\ \A j \in DOMAIN handed : handed[j].session # s
    BY <1>5, LifeTypes DEF Opens, HandedStarted, InOrder
  <2>3. /\ session'[h] = s /\ \A g \in Hubs \ {h} : session'[g] = session[g]
        /\ InHand' = InHand /\ s # None
    BY <1>5, LifeTypes DEF Opens
  <2>4. OnOneHub' /\ InOneHand' /\ HubOrHand'
    BY <2>2, <2>3 DEF OnOneHub, InOneHand, HubOrHand
  <2>5. EndedIsGone'
    BY <1>5, <2>1, <2>2, <2>3, HandedGrows DEF Opens, EndedIsGone
  <2> QED BY <2>4, <2>5
<1>6. ASSUME NEW h \in Hubs, NEW t \in Threads, Takes(h, t) PROVE Places'
  <2>1. /\ session'[h] = None /\ \A g \in Hubs \ {h} : session'[g] = session[g]
        /\ InHand'[t] = session[h] /\ \A u \in Threads \ {t} : InHand'[u] = InHand[u]
        /\ session[h] # None /\ handed' = handed
    BY <1>6, LifeTypes DEF Takes
  <2>2. OnOneHub'
    BY <2>1 DEF OnOneHub
  <2>3. InOneHand' /\ HubOrHand'
    BY <2>1 DEF OnOneHub, InOneHand, HubOrHand
  <2>4. EndedIsGone'
    <3>1. \A j \in DOMAIN handed : handed[j].kind = "end" => handed[j].session # None
      BY LifeTypes
    <3> QED BY <2>1, <3>1 DEF EndedIsGone
  <2> QED BY <2>2, <2>3, <2>4
<1>8. ASSUME NEW h \in Hubs, Vanishes(h) PROVE Places'
  <2>1. /\ session'[h] = None /\ \A g \in Hubs \ {h} : session'[g] = session[g]
        /\ InHand' = InHand /\ handed' = handed
    BY <1>8, LifeTypes DEF Vanishes
  <2>2. OnOneHub' /\ InOneHand' /\ HubOrHand'
    BY <2>1 DEF OnOneHub, InOneHand, HubOrHand
  <2>3. \A j \in DOMAIN handed : handed[j].kind = "end" => handed[j].session # None
    BY LifeTypes
  <2> QED BY <2>1, <2>2, <2>3 DEF EndedIsGone
<1>7. ASSUME NEW t \in Threads, NEW final \in FinalStatus, Ends(t, final) PROVE Places'
  <2> DEFINE record == [kind |-> "end", session |-> InHand[t], status |-> final]
  <2>1. InHand[t] \in SessionIds /\ InHand[t] # None
    BY <1>7, LifeTypes DEF Ends
  <2>2. record \in Records
    BY <2>1 DEF Records
  <2>3. /\ session' = session /\ Hands(record)
        /\ InHand'[t] = None /\ \A u \in Threads \ {t} : InHand'[u] = InHand[u]
    BY <1>7, LifeTypes DEF Ends
  <2>4. OnOneHub' /\ InOneHand' /\ HubOrHand'
    BY <2>3 DEF OnOneHub, InOneHand, HubOrHand
  <2>5. record.kind = "end" /\ record.session = InHand[t]
    OBVIOUS
  <2> HIDE DEF record
  <2>6. \A j \in DOMAIN handed : handed[j].kind = "end" => handed[j].session # None
    BY LifeTypes
  <2>7. EndedIsGone'
    BY <2>1, <2>2, <2>3, <2>5, <2>6, HandedGrows DEF EndedIsGone, InOneHand, HubOrHand
  <2> QED BY <2>4, <2>7
<1> QED BY <1>1, <1>3, <1>5, <1>6, <1>7, <1>8 DEF Life, SameLife, MarksErrored, MarksCrashed

(* The order.  What Bracketed says of one record, and that a record appended  *)
(* keeps it.                                                               *)
Begins(w, s, i) == w[i].kind = "start" /\ w[i].session = s
Finishes(w, s, i) == w[i].kind = "end" /\ w[i].session = s
Framed(w, j) ==
  w[j].session \notin {Foreign, None} =>
    /\ \E i \in 1..j : Begins(w, w[j].session, i)
    /\ \A i \in DOMAIN w : /\ Begins(w, w[j].session, i) => i <= j
                           /\ Finishes(w, w[j].session, i) => j <= i

LEMMA BracketedIsFramed ==
  /\ Bracketed <=> \A j \in DOMAIN handed : Framed(handed, j)
  /\ Bracketed' <=> \A j \in DOMAIN handed' : Framed(handed', j)
BY DEF Bracketed, Framed, StartsAt, EndsAt, Begins, Finishes

LEMMA AppendFramed ==
  ASSUME NEW w \in Seq(Records), NEW record \in Records,
         \A j \in DOMAIN w : Framed(w, j),
         LET s == record.session IN
           \/ s \in {Foreign, None}
           \/ /\ record.kind = "start"
              /\ \A j \in DOMAIN w : w[j].session # s
           \/ /\ record.kind # "start"
              /\ \E i \in DOMAIN w : Begins(w, s, i)
              /\ \A i \in DOMAIN w : ~Finishes(w, s, i)
  PROVE  \A j \in DOMAIN Append(w, record) : Framed(Append(w, record), j)
<1> DEFINE v == Append(w, record)
           last == Len(w) + 1
           s == record.session
<1>1. /\ DOMAIN w = 1..Len(w) /\ DOMAIN v = 1..last /\ Len(w) \in Nat
      /\ \A i \in DOMAIN w : v[i] = w[i]
      /\ v[last] = record
  BY AppendProperties
<1> HIDE DEF v
<1>2. /\ \A i \in DOMAIN w : i < last /\ i \in DOMAIN v
      /\ \A i \in DOMAIN v : i \in DOMAIN w \/ i = last
      /\ last \in Nat /\ last \in DOMAIN v /\ \A i \in DOMAIN v : i <= last
  BY <1>1
<1>4. ASSUME NEW j \in DOMAIN w, w[j].session \notin {Foreign, None} PROVE Framed(v, j)
  <2> DEFINE r == w[j].session
  <2>1. /\ \E i \in 1..j : Begins(w, r, i)
        /\ \A i \in DOMAIN w : /\ Begins(w, r, i) => i <= j
                               /\ Finishes(w, r, i) => j <= i
    BY <1>4 DEF Framed
  <2>2. v[j].session = r /\ j < last /\ \A i \in 1..j : i \in DOMAIN w
    BY <1>1, <1>2
  <2>3. r = s => record.kind # "start"
    BY <1>4
  <2> HIDE DEF r
  <2>4. ~Begins(v, r, last)
    BY <1>1, <2>3 DEF Begins
  <2>5. \E i \in 1..j : Begins(v, r, i)
    BY <1>1, <2>1, <2>2 DEF Begins
  <2>6. \A i \in DOMAIN v : Begins(v, r, i) => i <= j
    BY <1>1, <1>2, <2>1, <2>4 DEF Begins
  <2>7. \A i \in DOMAIN v : Finishes(v, r, i) => j <= i
    <3>1. j <= last
      BY <1>1, <2>2
    <3> QED BY <1>1, <1>2, <2>1, <3>1 DEF Finishes
  <2> QED BY <2>2, <2>5, <2>6, <2>7 DEF Framed
<1>5. ASSUME s \notin {Foreign, None} PROVE Framed(v, last)
  <2>1. \E i \in 1..last : Begins(v, s, i)
    <3>1. CASE record.kind = "start"
      BY <1>1, <1>2, <3>1 DEF Begins
    <3>2. CASE record.kind # "start"
      <4>1. PICK i \in DOMAIN w : Begins(w, s, i)
        BY <1>5, <3>2
      <4> QED BY <1>1, <1>2, <4>1 DEF Begins
    <3> QED BY <3>1, <3>2
  <2>2. \A i \in DOMAIN w : ~Finishes(w, s, i)
    BY <1>5 DEF Finishes
  <2>3. \A i \in DOMAIN v : Finishes(v, s, i) => last <= i
    BY <1>1, <1>2, <2>2 DEF Finishes
  <2>4. \A i \in DOMAIN v : Begins(v, s, i) => i <= last
    BY <1>2
  <2> QED BY <1>1, <2>1, <2>3, <2>4 DEF Framed
<1>6. ASSUME NEW j \in DOMAIN v PROVE Framed(v, j)
  <2>1. CASE v[j].session \in {Foreign, None}
    BY <2>1 DEF Framed
  <2>2. CASE v[j].session \notin {Foreign, None} /\ j \in DOMAIN w
    BY <1>1, <1>4, <2>2
  <2>3. CASE v[j].session \notin {Foreign, None} /\ j = last
    BY <1>1, <1>5, <2>3
  <2> QED BY <1>2, <2>1, <2>2, <2>3
<1> QED BY <1>6 DEF v

(* A record other than a start is handed over while its session, if any, is *)
(* started and not ended.                                                  *)
LEMMA HandedInTime ==
  ASSUME TypeInv, LifeInv, NEW record \in Records, record.kind # "start", Hands(record),
         status' = status,
         record.session \notin {Foreign, None} =>
           /\ status[record.session] # "unused"
           /\ \A j \in DOMAIN handed : handed[j].kind = "end" => handed[j].session # record.session
  PROVE  InOrder'
<1> DEFINE s == record.session
<1>1. /\ handed' = Append(handed, record) /\ handed \in Seq(Records)
      /\ s \in SessionIds \cup {Foreign, None}
  BY DEF Hands, TypeInv, TypeOK, Records
<1>2. HandedStarted'
  <2>1. \A j \in DOMAIN handed' : j \in DOMAIN handed \/ j = Len(handed) + 1
    BY HandedGrows
  <2> QED BY <2>1, HandedGrows DEF LifeInv, InOrder, HandedStarted
<1>3. StartedHanded'
  <2>1. \A i \in DOMAIN handed : i \in DOMAIN handed'
    BY HandedGrows
  <2> QED BY <2>1, HandedGrows DEF LifeInv, InOrder, StartedHanded, StartsAt
<1>4. \/ s \in {Foreign, None}
      \/ /\ \E i \in DOMAIN handed : Begins(handed, s, i)
         /\ \A i \in DOMAIN handed : ~Finishes(handed, s, i)
  BY <1>1 DEF LifeInv, InOrder, StartedHanded, StartsAt, Begins, Finishes
<1>5. Bracketed'
  <2>1. \A j \in DOMAIN handed : Framed(handed, j)
    BY BracketedIsFramed DEF LifeInv, InOrder
  <2>2. \A j \in DOMAIN Append(handed, record) : Framed(Append(handed, record), j)
    BY <1>1, <1>4, <2>1, AppendFramed
  <2> QED BY <1>1, <2>2, BracketedIsFramed
<1> QED BY <1>2, <1>3, <1>5 DEF InOrder

LEMMA InOrderStep ==
  ASSUME TypeInv, TypeInv', LifeInv, Life
  PROVE  InOrder'
<1> USE DEF LifeInv, InOrder
<1>1. CASE UNCHANGED <<handed, status>>
  BY <1>1 DEF HandedStarted, StartedHanded, Bracketed, StartsAt, EndsAt
(* A mark changes the status of a session that is started *)
<1>2. ASSUME NEW h \in Hubs, session[h] # None, NEW new \in {"errored", "crashed"},
             status' = [status EXCEPT ![session[h]] = new], handed' = handed
      PROVE  InOrder'
  <2>1. /\ session[h] \in SessionIds /\ status[session[h]] # "unused"
        /\ \A s \in SessionIds \ {session[h]} : status'[s] = status[s]
        /\ status'[session[h]] # "unused"
    BY <1>2, LifeTypes
  <2>2. \A s \in SessionIds : status'[s] = "unused" <=> status[s] = "unused"
    BY <2>1
  <2>3. HandedStarted' /\ StartedHanded'
    BY <1>2, <2>2, LifeTypes DEF HandedStarted, StartedHanded, StartsAt
  <2>4. Bracketed'
    BY <1>2 DEF Bracketed, StartsAt, EndsAt
  <2> QED BY <2>3, <2>4
<1>3. ASSUME NEW h \in Hubs, NEW e \in Events, HandsEvent(h, e) PROVE InOrder'
  <2>1. PICK id \in {session[h], Foreign} :
          Hands([kind |-> "event", event |-> e, session |-> id]) /\ status' = status
    BY <1>3 DEF HandsEvent
  <2> DEFINE record == [kind |-> "event", event |-> e, session |-> id]
  <2>2. record \in Records /\ record.kind = "event" /\ record.session = id
    BY LifeTypes DEF Records
  <2> HIDE DEF record
  <2>3. id \notin {Foreign, None} => id = session[h] /\ status[session[h]] # "unused"
    BY LifeTypes
  <2>4. \A j \in DOMAIN handed : handed[j].kind = "end" => handed[j].session # session[h]
    BY DEF Places, EndedIsGone
  <2>5. Hands(record)
    BY <2>1 DEF record
  <2> QED BY <2>1, <2>2, <2>3, <2>4, <2>5, HandedInTime
<1>4. ASSUME NEW t \in Threads, NEW final \in FinalStatus, Ends(t, final) PROVE InOrder'
  <2> DEFINE record == [kind |-> "end", session |-> InHand[t], status |-> final]
  <2>1. InHand[t] \in SessionIds /\ InHand[t] # None /\ status[InHand[t]] # "unused"
    BY <1>4, LifeTypes DEF Ends
  <2>2. record \in Records /\ record.kind = "end" /\ record.session = InHand[t]
    BY <2>1 DEF Records
  <2>3. Hands(record) /\ status' = status
    BY <1>4 DEF Ends
  <2> HIDE DEF record
  <2>4. \A j \in DOMAIN handed : handed[j].kind = "end" => handed[j].session # InHand[t]
    BY DEF Places, EndedIsGone
  <2> QED BY <2>1, <2>2, <2>3, <2>4, HandedInTime
<1>6. ASSUME NEW h \in Hubs, Vanishes(h) PROVE InOrder'
  <2>1. CASE UNCHANGED status
    BY <1>1, <1>6, <2>1 DEF Vanishes
  <2>2. CASE ~UNCHANGED status
    BY <1>2, <1>6, <2>2 DEF Vanishes
  <2> QED BY <2>1, <2>2
<1>5. ASSUME NEW h \in Hubs, NEW s \in SessionIds, Opens(h, s) PROVE InOrder'
  <2> DEFINE record == [kind |-> "start", session |-> s]
  <2>1. record \in Records /\ record.kind = "start" /\ record.session = s
    BY DEF Records
  <2>2. /\ Hands(record) /\ status[s] = "unused" /\ status'[s] = "ok"
        /\ \A r \in SessionIds \ {s} : status'[r] = status[r]
    BY <1>5, LifeTypes DEF Opens
  <2> HIDE DEF record
  <2>3. \A j \in DOMAIN handed : handed[j].session # s
    BY <2>2, LifeTypes DEF HandedStarted
  <2>4. /\ \A j \in DOMAIN handed' : j \in DOMAIN handed \/ j = Len(handed) + 1
        /\ \A j \in DOMAIN handed : j \in DOMAIN handed' /\ handed'[j] = handed[j]
        /\ handed'[Len(handed) + 1] = record /\ Len(handed) + 1 \in DOMAIN handed'
    BY <2>1, <2>2, HandedGrows
  <2>5. HandedStarted'
    BY <2>1, <2>2, <2>3, <2>4, LifeTypes DEF HandedStarted
  <2>6. StartedHanded'
    BY <2>1, <2>2, <2>4 DEF StartedHanded, StartsAt
  <2>7. Bracketed'
    <3>1. \A j \in DOMAIN handed : Framed(handed, j)
      BY BracketedIsFramed
    <3>2. handed' = Append(handed, record) /\ handed \in Seq(Records)
      BY <2>2 DEF Hands, TypeInv, TypeOK
    <3>3. \A j \in DOMAIN Append(handed, record) : Framed(Append(handed, record), j)
      BY <2>1, <2>3, <3>1, <3>2, AppendFramed
    <3> QED BY <3>2, <3>3, BracketedIsFramed
  <2> QED BY <2>5, <2>6, <2>7
<1> QED BY <1>1, <1>2, <1>3, <1>4, <1>5, <1>6
        DEF Life, SameLife, MarksErrored, MarksCrashed, Takes

(* Crashed sessions *)
LEMMA CrashesStep ==
  ASSUME TypeInv, TypeInv', LifeInv, Life
  PROVE  Crashes'
<1> USE DEF LifeInv, Crashes
<1>1. CASE UNCHANGED <<handed, status, crashed>>
  BY <1>1 DEF CrashedStays, CrashSticks, EndsAt
(* What is handed over is no end, or one that says so *)
<1>2. ASSUME NEW record \in Records, Hands(record), crashed' = crashed, CrashedStays',
             record.kind = "end" /\ record.session \in crashed =>
               record.status \in {"crashed", "explicit"}
      PROVE  Crashes'
  <2>1. \A i \in DOMAIN handed' : i \in DOMAIN handed \/ i = Len(handed) + 1
    BY <1>2, HandedGrows
  <2> QED BY <1>2, <2>1, HandedGrows DEF CrashSticks, EndsAt
<1>3. ASSUME NEW h \in Hubs, NEW e \in Events, HandsEvent(h, e) PROVE Crashes'
  <2>1. \A id \in {session[h], Foreign} :
          [kind |-> "event", event |-> e, session |-> id] \in Records
    BY LifeTypes DEF Records
  <2> QED BY <1>2, <1>3, <2>1 DEF HandsEvent, CrashedStays
<1>4. ASSUME NEW h \in Hubs, MarksErrored(h) PROVE Crashes'
  <2>1. CrashedStays'
    BY <1>4, LifeTypes DEF MarksErrored, CrashedStays
  <2> QED BY <1>4, <2>1 DEF MarksErrored, CrashSticks, EndsAt
<1>5. ASSUME NEW h \in Hubs, MarksCrashed(h) \/ (Vanishes(h) /\ ~UNCHANGED <<status, crashed>>)
      PROVE  Crashes'
  <2>1. /\ session[h] \in SessionIds /\ crashed' = crashed \cup {session[h]} /\ handed' = handed
        /\ status' = [status EXCEPT ![session[h]] = "crashed"]
    BY <1>5, LifeTypes DEF MarksCrashed, Vanishes
  <2>2. CrashedStays'
    BY <2>1, LifeTypes DEF CrashedStays
  <2>3. \A i \in DOMAIN handed : handed[i].kind = "end" => handed[i].session # session[h]
    BY DEF Places, EndedIsGone
  <2> QED BY <2>1, <2>2, <2>3 DEF CrashSticks, EndsAt
<1>6. ASSUME NEW h \in Hubs, NEW s \in SessionIds, Opens(h, s) PROVE Crashes'
  <2>1. [kind |-> "start", session |-> s] \in Records
    BY DEF Records
  <2>2. CrashedStays'
    BY <1>6, LifeTypes DEF Opens, CrashedStays
  <2> QED BY <1>2, <1>6, <2>1, <2>2 DEF Opens
<1>7. ASSUME NEW t \in Threads, NEW final \in FinalStatus, Ends(t, final) PROVE Crashes'
  <2> DEFINE record == [kind |-> "end", session |-> InHand[t], status |-> final]
  <2>1. InHand[t] \in SessionIds
    BY <1>7, LifeTypes DEF Ends
  <2>2. record \in Records /\ record.session = InHand[t] /\ record.status = final
    BY <2>1 DEF Records
  <2>3. Hands(record) /\ crashed' = crashed /\ CrashedStays'
        /\ (status[InHand[t]] = "crashed" => final \in {"crashed", "explicit"})
    BY <1>7 DEF Ends, CrashedStays
  <2> HIDE DEF record
  <2> QED BY <1>2, <2>2, <2>3 DEF CrashedStays
<1>8. ASSUME NEW h \in Hubs, Vanishes(h), UNCHANGED <<status, crashed>> PROVE Crashes'
  BY <1>1, <1>8 DEF Vanishes
<1> QED BY <1>1, <1>3, <1>4, <1>5, <1>6, <1>7, <1>8 DEF Life, SameLife, Takes

(* What was started is somewhere *)
LEMMA ForgetsNone ==
  ASSUME TypeInv, TypeInv', LifeInv, Life
  PROVE  Remembered'
<1> DEFINE Somewhere(s) == \/ \E h \in Hubs : session[h] = s
                           \/ \E t \in Threads : InHand[t] = s
                           \/ \E i \in DOMAIN handed : handed[i].kind = "end" /\ handed[i].session = s
                           \/ s \in replaced \cup vanished
           SomewhereNext(s) == \/ \E h \in Hubs : session'[h] = s
                               \/ \E t \in Threads : InHand'[t] = s
                               \/ \E i \in DOMAIN handed' : handed'[i].kind = "end" /\ handed'[i].session = s
                               \/ s \in replaced' \cup vanished'
<1>1. Remembered <=> \A s \in SessionIds : status[s] # "unused" => Somewhere(s)
  BY DEF Remembered, EndsAt
<1>2. Remembered' <=> \A s \in SessionIds : status'[s] # "unused" => SomewhereNext(s)
  BY DEF Remembered, EndsAt
<1>3. ASSUME NEW s \in SessionIds, status'[s] # "unused" PROVE SomewhereNext(s)
  <2>1. status[s] # "unused" => Somewhere(s)
    BY <1>1 DEF LifeInv
  <2>2. CASE SameLife
    BY <1>3, <2>1, <2>2 DEF SameLife
  <2>3. ASSUME NEW h \in Hubs, NEW e \in Events, HandsEvent(h, e) PROVE SomewhereNext(s)
    <3>1. \A id \in {session[h], Foreign} :
            [kind |-> "event", event |-> e, session |-> id] \in Records
      BY LifeTypes DEF Records
    <3> QED BY <1>3, <2>1, <2>3, <3>1, HandedGrows DEF HandsEvent
  <2>4. ASSUME NEW h \in Hubs, MarksErrored(h) \/ MarksCrashed(h) PROVE SomewhereNext(s)
    <3>1. status[s] # "unused"
      BY <1>3, <2>4, LifeTypes DEF MarksErrored, MarksCrashed
    <3> QED BY <2>1, <2>4, <3>1 DEF MarksErrored, MarksCrashed
  <2>5. ASSUME NEW h \in Hubs, NEW r \in SessionIds, Opens(h, r) PROVE SomewhereNext(s)
    <3>1. CASE s = r
      BY <2>5, <3>1, LifeTypes DEF Opens
    <3>2. CASE s # r
      <4>1. status[s] # "unused"
        BY <1>3, <2>5, <3>2, LifeTypes DEF Opens
      <4>2. CASE session[h] = s
        BY <2>5, <4>2 DEF Opens
      <4>3. CASE session[h] # s
        <5>1. [kind |-> "start", session |-> r] \in Records
          BY DEF Records
        <5>2. \A g \in Hubs \ {h} : session'[g] = session[g]
          BY <2>5, LifeTypes DEF Opens
        <5> QED BY <2>1, <2>5, <4>1, <4>3, <5>1, <5>2, HandedGrows DEF Opens
      <4> QED BY <4>2, <4>3
    <3> QED BY <3>1, <3>2
  <2>6. ASSUME NEW h \in Hubs, NEW t \in Threads, Takes(h, t) PROVE SomewhereNext(s)
    <3>1. /\ InHand'[t] = session[h] /\ InHand[t] = None
          /\ \A u \in Threads \ {t} : InHand'[u] = InHand[u]
          /\ \A g \in Hubs \ {h} : session'[g] = session[g]
      BY <2>6, LifeTypes DEF Takes
    <3> QED BY <1>3, <2>1, <2>6, <3>1 DEF Takes
  <2>7. ASSUME NEW t \in Threads, NEW final \in FinalStatus, Ends(t, final)
        PROVE  SomewhereNext(s)
    <3> DEFINE record == [kind |-> "end", session |-> InHand[t], status |-> final]
    <3>1. InHand[t] \in SessionIds /\ \A u \in Threads \ {t} : InHand'[u] = InHand[u]
      BY <2>7, LifeTypes DEF Ends
    <3>2. record \in Records /\ record.kind = "end" /\ record.session = InHand[t]
      BY <3>1 DEF Records
    <3>3. Hands(record) /\ UNCHANGED <<session, status, replaced, vanished>>
      BY <2>7 DEF Ends
    <3> HIDE DEF record
    <3>4. /\ \A i \in DOMAIN handed : i \in DOMAIN handed' /\ handed'[i] = handed[i]
          /\ Len(handed) + 1 \in DOMAIN handed' /\ handed'[Len(handed) + 1] = record
      BY <3>2, <3>3, HandedGrows
    <3>5. CASE InHand[t] = s
      BY <3>2, <3>4, <3>5
    <3>6. CASE InHand[t] # s
      BY <1>3, <2>1, <3>1, <3>3, <3>4, <3>6
    <3> QED BY <3>5, <3>6
  <2>8. ASSUME NEW h \in Hubs, Vanishes(h) PROVE SomewhereNext(s)
    <3>1. \A g \in Hubs \ {h} : session'[g] = session[g]
      BY <2>8, LifeTypes DEF Vanishes
    <3>2. status[s] # "unused"
      BY <1>3, <2>8, LifeTypes DEF Vanishes
    <3> QED BY <2>1, <2>8, <3>1, <3>2 DEF Vanishes
  <2> HIDE DEF Somewhere, SomewhereNext
  <2> QED BY <2>2, <2>3, <2>4, <2>5, <2>6, <2>7, <2>8 DEF Life
<1> QED BY <1>2, <1>3

(* A session is at one place at a time, all along what threads do to it.    *)
THEOREM LifeInvariance == Spec => []LifeInv
<1>1. Init => LifeInv
  <2> SUFFICES ASSUME Init PROVE LifeInv
    OBVIOUS
  <2>1. InHand = [t \in Threads |-> None] /\ DOMAIN handed = {} /\ crashed = {}
    BY DEF Init, InHand
  <2>2. Places
    BY <2>1 DEF Init, Places, OnOneHub, InOneHand, HubOrHand, EndedIsGone
  <2>3. InOrder /\ Crashes /\ Remembered
    BY <2>1 DEF Init, InOrder, HandedStarted, StartedHanded, Bracketed, Crashes, CrashedStays,
                CrashSticks, Remembered
  <2> QED BY <2>2, <2>3 DEF LifeInv
<1>2. TypeInv /\ TypeInv' /\ LifeInv /\ [Next]_vars => LifeInv'
  <2> SUFFICES ASSUME TypeInv, TypeInv', LifeInv, [Next]_vars PROVE LifeInv'
    OBVIOUS
  <2>1. Life
    BY NextIsLife
  <2> QED BY <2>1, PlacesStep, InOrderStep, CrashesStep, ForgetsNone DEF LifeInv
<1> QED BY <1>1, <1>2, TypeInvariance, PTL DEF Spec

(* The clients are handed a session's start, then its events, then its end, *)
(* although different threads hand them over: the read lock that           *)
(* capture_event holds keeps take() from coming between, and what a thread *)
(* took is on no hub an event could read it from.                          *)
THEOREM SessionsBracketed == Spec => []Bracketed
BY LifeInvariance, PTL DEF LifeInv, InOrder

(* end_session and the guard's drop may race: take() gives the session to   *)
(* one of them.                                                            *)
THEOREM SessionsEndOnce == Spec => []EndsOnce
<1>1. TypeInv /\ LifeInv => EndsOnce
  <2> SUFFICES ASSUME TypeInv, LifeInv, NEW i \in DOMAIN handed, NEW j \in DOMAIN handed,
                      NEW s \in SessionIds, EndsAt(s, i), EndsAt(s, j)
               PROVE  i = j
    BY DEF EndsOnce
  <2>1. handed[i].session = s /\ handed[j].session = s /\ s # None
    BY DEF EndsAt
  <2>2. i <= j /\ j <= i
    BY <2>1 DEF LifeInv, InOrder, Bracketed
  <2>3. i \in Nat /\ j \in Nat
    BY LifeTypes
  <2> QED BY <2>2, <2>3
<1> QED BY <1>1, TypeInvariance, LifeInvariance, PTL

(* A session that a panic marked is not marked errored after it, and its    *)
(* end says crashed unless the application gave the status.                *)
THEOREM CrashesStick == Spec => []CrashSticks
BY LifeInvariance, PTL DEF LifeInv, Crashes

-----------------------------------------------------------------------------
(* A call is on the main hub or on the one that is current on its thread; a  *)
(* request whose hub is current on a thread is being called there, and on no *)
(* other; the hub of a request that is done has no session.                *)
InUse ==
  /\ \A t \in Threads : pc[t] # "idle" => job[t].hub \in {Main, current[t]}
  /\ \A t \in Threads : current[t] \in Requests => request[current[t]] = "call"
  /\ \A t, u \in Threads : current[t] = current[u] /\ current[t] # Main => t = u
  /\ \A r \in Requests : request[r] = "done" => session[r] = None

LEMMA StepStaysOnHub ==
  ASSUME TypeInv, NEW t \in Threads, Step(t)
  PROVE  /\ \A u \in Threads \ {t} : pc'[u] = pc[u] /\ job'[u] = job[u]
         /\ pc[t] # "idle" /\ UNCHANGED <<current, request>>
         /\ pc'[t] = "idle" \/ job'[t].hub = job[t].hub
         /\ \E s \in SessionIds \cup {None} :
              session' \in {session, [session EXCEPT ![job[t].hub] = s]}
<1> DEFINE hub == job[t].hub
           Frame == /\ \A u \in Threads \ {t} : pc'[u] = pc[u] /\ job'[u] = job[u]
                    /\ pc'[t] = "idle" \/ job'[t].hub = hub
<1>1. pc \in [Threads -> Labels] /\ job \in [Threads -> Jobs] /\ job[t] \in Jobs
  BY TypeHasJobs DEF JobsOK
<1>2. ASSUME NEW label, Goto(t, label), UNCHANGED job PROVE Frame
  BY <1>1, <1>2 DEF Goto
<1>3. Return(t) => Frame
  BY <1>1 DEF Return, Goto
<1>4. ASSUME NEW label, NEW c \in Clients \cup {None}, Goto(t, label), Local(t, "client", c)
      PROVE  Frame
  BY <1>1, <1>4 DEF Goto, Local, Jobs
<1>5. ASSUME NEW label, NEW s \in SessionIds \cup {None}, Goto(t, label), Local(t, "session", s)
      PROVE  Frame
  BY <1>1, <1>5 DEF Goto, Local, Jobs
<1>6. client[hub] \in Clients \cup {None} /\ session[hub] \in SessionIds \cup {None}
  BY <1>1 DEF TypeInv, TypeOK, Jobs
<1> HIDE DEF Frame
<1>7. CASE CaptureClient(t) \/ StartClient(t) \/ StopClient(t)
  <2>1. Frame
    BY <1>2, <1>3, <1>4, <1>6, <1>7
       DEF CaptureClient, StartClient, Started, StopClient, AfterEnd
  <2> QED BY <1>7, <2>1 DEF Frame, CaptureClient, StartClient, StopClient, hubVars
<1>8. CASE CaptureRead(t) \/ CaptureMark(t)
  <2>1. Frame
    BY <1>2, <1>3, <1>8 DEF CaptureRead, CaptureMark, AfterEvent
  <2> QED BY <1>8, <2>1 DEF Frame, CaptureRead, CaptureMark, hubVars
<1>9. ASSUME NEW s \in SessionIds, Open(t, s)
      PROVE  /\ Frame /\ pc[t] # "idle" /\ UNCHANGED <<current, request>>
             /\ session' = [session EXCEPT ![hub] = s]
  <2>1. Frame
    BY <1>3, <1>9 DEF Open, Started
  <2> QED BY <1>9, <2>1 DEF Open
<1>10. CASE Take(t)
  <2>1. Frame
    BY <1>2, <1>3, <1>5, <1>6, <1>10 DEF Take, AfterEnd
  <2> QED BY <1>10, <2>1 DEF Frame, Take
<1>11. CASE SendEnd(t) \/ Close(t)
  <2>1. Frame
    BY <1>2, <1>3, <1>11 DEF SendEnd, Close, AfterEnd
  <2> QED BY <1>11, <2>1 DEF Frame, SendEnd, Close, hubVars
<1>12. ASSUME NEW s \in SessionIds, Open(t, s)
       PROVE  /\ \A u \in Threads \ {t} : pc'[u] = pc[u] /\ job'[u] = job[u]
              /\ pc[t] # "idle" /\ UNCHANGED <<current, request>>
              /\ pc'[t] = "idle" \/ job'[t].hub = job[t].hub
              /\ \E r \in SessionIds \cup {None} :
                   session' \in {session, [session EXCEPT ![job[t].hub] = r]}
  BY <1>9, <1>12 DEF Frame
<1> QED BY <1>7, <1>8, <1>10, <1>11, <1>12 DEF Step

LEMMA InUseStep ==
  ASSUME TypeInv, InUse, [Next]_vars
  PROVE  InUse'
<1>0. /\ current \in [Threads -> Hubs] /\ session \in [Hubs -> SessionIds \cup {None}]
      /\ request \in [Requests -> {"none", "made", "call", "await", "done"}]
      /\ pc \in [Threads -> Labels] /\ job \in [Threads -> Jobs]
  BY TypeHasJobs DEF TypeInv, TypeOK, JobsOK
<1>1. ASSUME NEW t \in Threads, Step(t) PROVE InUse'
  <2>1. PICK s \in SessionIds \cup {None} :
          session' \in {session, [session EXCEPT ![job[t].hub] = s]}
    BY <1>1, StepStaysOnHub
  <2>2. \A r \in Requests : request[r] = "done" => job[t].hub # r
    BY <1>1, StepStaysOnHub DEF InUse
  <2>3. \A r \in Requests : request[r] = "done" => session'[r] = None
    BY <1>0, <2>1, <2>2 DEF InUse, Hubs
  <2> QED BY <1>1, <2>3, StepStaysOnHub DEF InUse
<1>2. ASSUME NEW t \in Threads, NEW label \in Labels, NEW job2 \in Jobs,
             job2.hub \in {Main, current[t]},
             pc' = [pc EXCEPT ![t] = label], job' = [job EXCEPT ![t] = job2],
             UNCHANGED <<current, request, session>>
      PROVE  InUse'
  <2>1. job'[t].hub \in {Main, current[t]} /\ \A u \in Threads \ {t} : pc'[u] = pc[u] /\ job'[u] = job[u]
    BY <1>0, <1>2
  <2> QED BY <1>2, <2>1 DEF InUse
<1>3. ASSUME NEW t \in Threads, NEW label \in Labels, NEW event \in Events \cup {None},
             NEW explicit \in BOOLEAN, Call(t, label, event, explicit),
             UNCHANGED <<current, request, session>>
      PROVE  InUse'
  <2>1. PICK job2 : job2 = [Ready EXCEPT !.hub = current[t], !.event = event, !.explicit = explicit]
    OBVIOUS
  <2>2. job2 \in Jobs /\ job2.hub = current[t]
    BY <1>0, <2>1, ReadyIsJob DEF Jobs
  <2> QED BY <1>2, <1>3, <2>1, <2>2 DEF Call, Goto
<1>4. ASSUME NEW t \in Threads, NEW e \in Events, Capture(t, e) \/ Panic(t, e) PROVE InUse'
  BY <1>3, <1>4 DEF Capture, Panic, hubVars, Labels
<1>5. ASSUME NEW t \in Threads, Start(t) PROVE InUse'
  BY <1>3, <1>5 DEF Start, hubVars, Labels
<1>6. ASSUME NEW t \in Threads, NEW explicit \in BOOLEAN, End(t, explicit) PROVE InUse'
  <2>1. "stop" \in Labels /\ None \in Events \cup {None}
    BY DEF Labels
  <2> QED BY <1>3, <1>6, <2>1 DEF End, hubVars
<1>7. ASSUME NEW t \in Threads, NEW c \in Clients, InitClient(t, c) \/ DropGuard(t, c)
      PROVE  InUse'
  <2>1. PICK job2 : job2 = [Ready EXCEPT !.owner = c]
    OBVIOUS
  <2>2. job2 \in Jobs /\ job2.hub = Main
    BY <2>1, ReadyIsJob DEF Jobs
  <2>3. CASE c \in Tracked \/ DropGuard(t, c)
    BY <1>2, <1>7, <2>1, <2>2, <2>3 DEF InitClient, DropGuard, Goto, hubVars, Labels
  <2>4. CASE c \notin Tracked /\ InitClient(t, c)
    BY <2>4 DEF InitClient, InUse
  <2> QED BY <1>7, <2>3, <2>4
<1>8. ASSUME NEW t \in Threads, NEW r \in Requests, RequestCall(t, r) PROVE InUse'
  <2>1. /\ request[r] = "none" /\ request' = [request EXCEPT ![r] = "made"]
        /\ UNCHANGED <<session, current, pc, job>>
    BY <1>8 DEF RequestCall
  <2> QED BY <1>0, <2>1 DEF InUse
<1>9. ASSUME NEW t \in Threads, NEW r \in Requests, RequestRun(t, r) PROVE InUse'
  <2>1. /\ pc[t] = "idle" /\ request[r] = "made" /\ r # Main
        /\ current' = [current EXCEPT ![t] = r] /\ request' = [request EXCEPT ![r] = "call"]
        /\ UNCHANGED <<session, pc, job>>
    BY <1>9 DEF RequestRun, hubVars
  <2>2. \A u \in Threads : current[u] # r
    BY <2>1 DEF InUse
  <2> QED BY <1>0, <2>1, <2>2 DEF InUse
<1>10. ASSUME NEW t \in Threads, RequestRunEnd(t) PROVE InUse'
  <2>1. /\ pc[t] = "idle" /\ current[t] \in Requests
        /\ current' = [current EXCEPT ![t] = Main]
        /\ request' = [request EXCEPT ![current[t]] = "await"]
        /\ UNCHANGED <<session, pc, job>>
    BY <1>0, <1>10 DEF RequestRunEnd, hubVars, Hubs
  <2>2. \A u \in Threads \ {t} : current[u] # current[t]
    BY <2>1 DEF InUse
  <2> QED BY <1>0, <2>1, <2>2 DEF InUse
<1>11. ASSUME NEW r \in Requests, Cancel(r) \/ \E failed \in BOOLEAN : Respond(r, failed)
       PROVE  InUse'
  <2>1. /\ request[r] # "call" /\ DropHub(r) /\ UNCHANGED <<current, pc, job>>
    BY <1>11 DEF Cancel, Respond
  <2>2. \A t \in Threads : current[t] # r
    BY <2>1 DEF InUse
  <2> QED BY <1>0, <2>1, <2>2 DEF InUse, DropHub, Hubs
<1>12. CASE UNCHANGED vars
  BY <1>12 DEF vars, hubVars, InUse
<1> QED BY <1>1, <1>4, <1>5, <1>6, <1>7, <1>8, <1>9, <1>10, <1>11, <1>12 DEF Next, Calls

(* A started session is on a hub in use, in the hand of the thread that ends *)
(* it, or ended, unless it was replaced or its request's hub was dropped: no *)
(* interleaving of start, end, drop and requests loses another one.         *)
THEOREM NoSessionForgotten == Spec => []NoneForgotten
<1>1. Init => InUse
  BY DEF Init, InUse, Hubs
<1>2. TypeInv /\ InUse /\ [Next]_vars => InUse'
  BY InUseStep
<1>3. TypeInv /\ LifeInv /\ InUse => NoneForgotten
  <2> SUFFICES ASSUME TypeInv, LifeInv, InUse, NEW s \in SessionIds, status[s] # "unused"
               PROVE  \/ \E h \in Hubs : session[h] = s /\ (h \in Requests => request[h] # "done")
                      \/ \E t \in Threads : pc[t] = "end" /\ job[t].session = s
                      \/ Ended(s) \/ s \in replaced \cup vanished
    BY DEF NoneForgotten
  <2>1. \A t \in Threads : InHand[t] = s => pc[t] = "end" /\ job[t].session = s
    BY DEF InHand
  <2> QED BY <2>1 DEF LifeInv, Remembered, InUse, Ended
<1> QED BY <1>1, <1>2, <1>3, TypeInvariance, LifeInvariance, PTL DEF Spec
=============================================================================
