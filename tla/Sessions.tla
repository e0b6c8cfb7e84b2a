------------------------------ MODULE Sessions ------------------------------
(***************************************************************************)
(* Release-health sessions: who starts, marks and ends the session of a    *)
(* hub (src/src/hub.rs, src/src/session.rs), called by the application's   *)
(* threads, the panic hook (panic.rs), init and its guard (lib.rs) and the *)
(* request layers (integrations/axum.rs, integrations/actix.rs).           *)
(*                                                                         *)
(* Every use of a hub's RwLock is one step: nothing the holder does while  *)
(* it holds the lock can be seen by a thread that needs it.  In particular *)
(* capture_event hands its event to the client with the read lock held.    *)
(***************************************************************************)
EXTENDS Naturals, Sequences, FiniteSets

CONSTANTS
  Threads,
  Clients,     \* one per call of init
  Tracked,     \* clients with auto_session_tracking in SessionMode::Application
  Released,    \* clients with a release, without which Session::start is None
  Main,        \* MAIN_HUB
  Requests,    \* the hub each request gets from the axum or actix layer
  Axum,        \* those of the axum layer, the only one to use Hub::run
  SessionIds,
  Events,      \* error events
  ErrorLevel,  \* those of level error or fatal, or of no level
  Foreign,     \* an id that an event brings, or a hook puts into it
  None

ASSUME SessionsAssumption ==
  /\ Tracked \subseteq Clients /\ Released \subseteq Clients
  /\ ErrorLevel \subseteq Events
  /\ Main \notin Requests /\ Axum \subseteq Requests
  /\ None \notin Clients \cup SessionIds \cup Events
  /\ Foreign \notin SessionIds \cup {None}

Hubs == {Main} \cup Requests

VARIABLES
  client,    \* inner.client of each hub
  session,   \* inner.session of each hub
  status,    \* SessionStatus of each session
  current,   \* CURRENT_HUB of each thread
  pc, job,   \* where each thread is in a call, and the call's local variables
  guard,     \* the ClientInitGuard of each client
  request,   \* how far each request is
  handed       \* what was handed to the clients' transports, in order

(* History: read by the properties alone *)
VARIABLES
  crashed,   \* sessions that were active on a hub when a panic marked it
  replaced,  \* sessions that start_session overwrote
  vanished   \* sessions active on a request's hub when it was dropped

hubVars == <<client, session, status>>
vars == <<hubVars, current, pc, job, guard, request, handed, crashed, replaced,
          vanished>>

Status == {"ok", "errored", "crashed"}
(* A session ends with its status, or as the caller of                       *)
(* end_session_with_status says.                                             *)
FinalStatus == {"exited", "errored", "crashed", "explicit"}

Records ==
  [kind : {"start"}, session : SessionIds]
    \cup [kind : {"event"}, event : Events, session : SessionIds \cup {Foreign, None}]
    \cup [kind : {"end"}, session : SessionIds, status : FinalStatus]

Ready == [hub |-> Main, client |-> None, event |-> None, session |-> None,
          explicit |-> FALSE, owner |-> None]

Jobs == [hub : Hubs, client : Clients \cup {None}, event : Events \cup {None},
         session : SessionIds \cup {None}, explicit : BOOLEAN, owner : Clients \cup {None}]

TypeOK ==
  /\ client \in [Hubs -> Clients \cup {None}]
  /\ session \in [Hubs -> SessionIds \cup {None}]
  /\ status \in [SessionIds -> Status \cup {"unused"}]
  /\ current \in [Threads -> Hubs]
  /\ pc \in [Threads -> {"idle", "capture", "read", "mark", "start", "open",
                         "stop", "take", "end", "close"}]
  /\ job \in [Threads -> Jobs]
  /\ guard \in [Clients -> {"none", "init", "live", "dropping", "closed"}]
  /\ request \in [Requests -> {"none", "made", "call", "await", "done"}]
  /\ handed \in Seq(Records)
  /\ \A t \in Threads : /\ pc[t] = "end" => job[t].session # None
                        /\ pc[t] = "close" => job[t].owner # None
  /\ crashed \cup replaced \cup vanished \subseteq SessionIds

-----------------------------------------------------------------------------

Goto(t, label) == pc' = [pc EXCEPT ![t] = label]
Local(t, field, value) == job' = [job EXCEPT ![t][field] = value]
Hand(record) == handed' = Append(handed, record)
ActiveOn(h) == session[h] # None

Return(t) == Goto(t, "idle") /\ job' = [job EXCEPT ![t] = Ready]

(* A call of t on the thread's current hub begins *)
Call(t, label, event, explicit) ==
  /\ pc[t] = "idle" /\ Goto(t, label)
  /\ job' = [job EXCEPT ![t] =
               [Ready EXCEPT !.hub = current[t], !.event = event, !.explicit = explicit]]

Mark(s, new) == status' = [status EXCEPT ![s] = new]

-----------------------------------------------------------------------------
(* Hub::capture_event *)

Fresh(e) == (\A t \in Threads : job[t].event # e)
              /\ \A i \in DOMAIN handed : handed[i].kind = "event" => handed[i].event # e

Capture(t, e) ==
  /\ Fresh(e) /\ Call(t, "capture", e, FALSE)
  /\ UNCHANGED <<hubVars, current, guard, request, handed, crashed, replaced, vanished>>

(* The client is read first, under a lock of its own *)
CaptureClient(t) ==
  /\ pc[t] = "capture"
  /\ IF client[job[t].hub] = None THEN Return(t)
     ELSE Goto(t, "read") /\ Local(t, "client", client[job[t].hub])
  /\ UNCHANGED <<hubVars, current, guard, request, handed, crashed, replaced, vanished>>

AfterEvent(t) ==
  IF job[t].event \in ErrorLevel THEN Goto(t, "mark") /\ UNCHANGED job ELSE Return(t)

(* Mutant: the read lock covers the session id only, and the event is handed *)
(* over after it was released, together with the mark                        *)
CaptureReadShort(t) ==
  /\ pc[t] = "read"
  /\ \/ /\ job[t].session = None /\ ActiveOn(job[t].hub)
        /\ Local(t, "session", session[job[t].hub]) /\ UNCHANGED <<pc, handed>>
     \/ /\ job[t].session # None \/ ~ActiveOn(job[t].hub)
        /\ Hand([kind |-> "event", event |-> job[t].event, session |-> job[t].session])
        /\ AfterEvent(t)
  /\ UNCHANGED <<hubVars, current, guard, request, crashed, replaced, vanished>>

(* With the read lock held: the event gets the id of the active session if it *)
(* has none, and is handed over, unless the pipeline drops it.               *)
CaptureRead(t) ==
  /\ pc[t] = "read"
  /\ \/ \E id \in {session[job[t].hub], Foreign} :
          Hand([kind |-> "event", event |-> job[t].event, session |-> id])
     \/ UNCHANGED handed
  /\ AfterEvent(t)
  /\ UNCHANGED <<hubVars, current, guard, request, crashed, replaced, vanished>>

(* Mutant: a copy of the session is marked and written back *)
CaptureMarkCopy(t) ==
  /\ pc[t] = "mark"
  /\ \/ /\ job[t].session = None /\ ActiveOn(job[t].hub)
        /\ Local(t, "session", session[job[t].hub]) /\ UNCHANGED <<session, pc>>
     \/ /\ job[t].session = None /\ ~ActiveOn(job[t].hub)
        /\ Return(t) /\ UNCHANGED session
     \/ /\ job[t].session # None
        /\ session' = [session EXCEPT ![job[t].hub] = job[t].session]
        /\ Return(t)
  /\ UNCHANGED <<client, status, current, guard, request, handed, crashed, replaced, vanished>>

(* Mutant: mark_errored does not look at the status *)
CaptureMarkAny(t) ==
  /\ pc[t] = "mark"
  /\ IF ActiveOn(job[t].hub) THEN Mark(session[job[t].hub], "errored") ELSE UNCHANGED status
  /\ Return(t)
  /\ UNCHANGED <<client, session, current, guard, request, handed, crashed, replaced, vanished>>

(* The write lock is taken anew: it marks whatever session is active by now *)
CaptureMark(t) ==
  /\ pc[t] = "mark"
  /\ IF ActiveOn(job[t].hub) /\ status[session[job[t].hub]] = "ok"
     THEN Mark(session[job[t].hub], "errored")
     ELSE UNCHANGED status
  /\ Return(t)
  /\ UNCHANGED <<client, session, current, guard, request, handed, crashed, replaced, vanished>>

(* Hub::mark_session_crashed *)
MarkCrashed(h) ==
  IF ActiveOn(h)
  THEN Mark(session[h], "crashed") /\ crashed' = crashed \cup {session[h]}
  ELSE UNCHANGED <<status, crashed>>

(* panic_handler: the session is marked, then the panic's event captured *)
Panic(t, e) ==
  /\ Fresh(e) /\ e \in ErrorLevel /\ Call(t, "capture", e, FALSE)
  /\ MarkCrashed(current[t])
  /\ UNCHANGED <<client, session, current, guard, request, handed, replaced, vanished>>

-----------------------------------------------------------------------------
(* Hub::start_session *)

Start(t) ==
  /\ Call(t, "start", None, FALSE)
  /\ UNCHANGED <<hubVars, current, guard, request, handed, crashed, replaced, vanished>>

(* init: the client is bound to the main hub before its session starts *)
InitClient(t, c) ==
  /\ guard[c] = "none" /\ pc[t] = "idle"
  /\ client' = [client EXCEPT ![Main] = c]
  /\ IF c \in Tracked
     THEN /\ guard' = [guard EXCEPT ![c] = "init"] /\ Goto(t, "start")
          /\ job' = [job EXCEPT ![t] = [Ready EXCEPT !.owner = c]]
     ELSE guard' = [guard EXCEPT ![c] = "live"] /\ UNCHANGED <<pc, job>>
  /\ UNCHANGED <<session, status, current, request, handed, crashed, replaced, vanished>>

(* start_session returns, and init hands out the guard *)
Started(t) ==
  /\ Return(t)
  /\ guard' = [c \in Clients |-> IF c = job[t].owner THEN "live" ELSE guard[c]]

StartClient(t) ==
  /\ pc[t] = "start"
  /\ IF client[job[t].hub] \in Released
     THEN Goto(t, "open") /\ Local(t, "client", client[job[t].hub]) /\ UNCHANGED guard
     ELSE Started(t)
  /\ UNCHANGED <<hubVars, current, request, handed, crashed, replaced, vanished>>

(* With the write lock held: the start is handed over, the session becomes   *)
(* the active one, and one that was active before is forgotten.              *)
Open(t, s) ==
  /\ pc[t] = "open" /\ status[s] = "unused"
  /\ Hand([kind |-> "start", session |-> s])
  /\ Mark(s, "ok")
  /\ session' = [session EXCEPT ![job[t].hub] = s]
  /\ replaced' = replaced \cup ({session[job[t].hub]} \ {None})
  /\ Started(t)
  /\ UNCHANGED <<client, current, request, crashed, vanished>>

-----------------------------------------------------------------------------
(* Hub::end_session, end_session_with_status, and the drop of the guard *)

End(t, explicit) ==
  /\ Call(t, "stop", None, explicit)
  /\ UNCHANGED <<hubVars, current, guard, request, handed, crashed, replaced, vanished>>

DropGuard(t, c) ==
  /\ guard[c] = "live" /\ pc[t] = "idle"
  /\ guard' = [guard EXCEPT ![c] = "dropping"]
  /\ Goto(t, IF c \in Tracked THEN "stop" ELSE "close")
  /\ job' = [job EXCEPT ![t] = [Ready EXCEPT !.owner = c]]
  /\ UNCHANGED <<hubVars, current, request, handed, crashed, replaced, vanished>>

AfterEnd(t) ==
  IF job[t].owner = None THEN Return(t) ELSE Goto(t, "close") /\ UNCHANGED job

StopClient(t) ==
  /\ pc[t] = "stop"
  /\ IF client[job[t].hub] = None THEN AfterEnd(t)
     ELSE Goto(t, "take") /\ Local(t, "client", client[job[t].hub])
  /\ UNCHANGED <<hubVars, current, guard, request, handed, crashed, replaced, vanished>>

(* Mutant: the session is read, and cleared only once its end was sent *)
TakeLater(t) ==
  /\ pc[t] = "take"
  /\ IF ActiveOn(job[t].hub)
     THEN Goto(t, "end") /\ Local(t, "session", session[job[t].hub])
     ELSE AfterEnd(t)
  /\ UNCHANGED <<hubVars, current, guard, request, handed, crashed, replaced, vanished>>

(* Mutant: an end is sent whether or not a session is active *)
TakeUnchecked(t) ==
  /\ pc[t] = "take"
  /\ session' = [session EXCEPT ![job[t].hub] = None]
  /\ Goto(t, "end") /\ Local(t, "session", session[job[t].hub])
  /\ UNCHANGED <<client, status, current, guard, request, handed, crashed, replaced, vanished>>

(* inner.session.take(), with the write lock held; what is sent is its copy *)
Take(t) ==
  /\ pc[t] = "take"
  /\ session' = [session EXCEPT ![job[t].hub] = None]
  /\ IF ActiveOn(job[t].hub)
     THEN Goto(t, "end") /\ Local(t, "session", session[job[t].hub])
     ELSE AfterEnd(t)
  /\ UNCHANGED <<client, status, current, guard, request, handed, crashed, replaced, vanished>>

(* Session::to_end *)
Final(t) ==
  IF job[t].explicit THEN "explicit"
  ELSE IF status[job[t].session] = "ok" THEN "exited" ELSE status[job[t].session]

(* The end is handed over with no lock held *)
SendEnd(t) ==
  /\ pc[t] = "end"
  /\ Hand([kind |-> "end", session |-> job[t].session, status |-> Final(t)])
  /\ AfterEnd(t)
  /\ UNCHANGED <<hubVars, current, guard, request, crashed, replaced, vanished>>

Close(t) ==
  /\ pc[t] = "close" /\ Return(t)
  /\ guard' = [guard EXCEPT ![job[t].owner] = "closed"]
  /\ UNCHANGED <<hubVars, current, request, handed, crashed, replaced, vanished>>

-----------------------------------------------------------------------------
(* The request layers *)

(* The layer makes a hub with the client of the current one and no session *)
RequestCall(t, r) ==
  /\ pc[t] = "idle" /\ request[r] = "none"
  /\ client' = [client EXCEPT ![r] = client[current[t]]]
  /\ request' = [request EXCEPT ![r] = "made"]
  /\ UNCHANGED <<session, status, current, pc, job, guard, handed, crashed, replaced, vanished>>

(* Hub::run binds that hub while the inner service is called, ... *)
RequestRun(t, r) ==
  /\ pc[t] = "idle" /\ r \in Axum /\ request[r] = "made" /\ current[t] = Main
  /\ current' = [current EXCEPT ![t] = r]
  /\ request' = [request EXCEPT ![r] = "call"]
  /\ UNCHANGED <<hubVars, pc, job, guard, handed, crashed, replaced, vanished>>

(* ... and no longer while the future it returned is polled *)
RequestRunEnd(t) ==
  /\ pc[t] = "idle" /\ current[t] # Main
  /\ current' = [current EXCEPT ![t] = Main]
  /\ request' = [request EXCEPT ![current[t]] = "await"]
  /\ UNCHANGED <<hubVars, pc, job, guard, handed, crashed, replaced, vanished>>

(* The future ends and its hub is dropped, with the session it may have *)
DropHub(r) ==
  /\ request' = [request EXCEPT ![r] = "done"]
  /\ session' = [session EXCEPT ![r] = None]
  /\ vanished' = vanished \cup ({session[r]} \ {None})

(* A 5xx marks the session of the request's own hub *)
Respond(r, failed) ==
  /\ request[r] = IF r \in Axum THEN "await" ELSE "made"
  /\ IF failed THEN MarkCrashed(r) ELSE UNCHANGED <<status, crashed>>
  /\ DropHub(r)
  /\ UNCHANGED <<client, current, pc, job, guard, handed, replaced>>

(* The server drops the future, before its first poll or at its await *)
Cancel(r) ==
  /\ request[r] \in {"made", "await"}
  /\ DropHub(r)
  /\ UNCHANGED <<client, status, current, pc, job, guard, handed, crashed, replaced>>

-----------------------------------------------------------------------------

Init ==
  /\ client = [h \in Hubs |-> None] /\ session = [h \in Hubs |-> None]
  /\ status = [s \in SessionIds |-> "unused"]
  /\ current = [t \in Threads |-> Main]
  /\ pc = [t \in Threads |-> "idle"] /\ job = [t \in Threads |-> Ready]
  /\ guard = [c \in Clients |-> "none"] /\ request = [r \in Requests |-> "none"]
  /\ handed = <<>> /\ crashed = {} /\ replaced = {} /\ vanished = {}

Calls(t) ==   \* what the application may do
  \/ \E e \in Events : Capture(t, e) \/ Panic(t, e)
  \/ Start(t)
  \/ \E explicit \in BOOLEAN : End(t, explicit)
  \/ \E c \in Clients : InitClient(t, c) \/ DropGuard(t, c)
  \/ \E r \in Requests : RequestCall(t, r) \/ RequestRun(t, r)
  \/ RequestRunEnd(t)

Step(t) ==
  \/ CaptureClient(t) \/ CaptureRead(t) \/ CaptureMark(t)
  \/ StartClient(t) \/ \E s \in SessionIds : Open(t, s)
  \/ StopClient(t) \/ Take(t) \/ SendEnd(t) \/ Close(t)

Next ==
  \/ \E t \in Threads : Calls(t) \/ Step(t)
  \/ \E r \in Requests : Cancel(r) \/ \E failed \in BOOLEAN : Respond(r, failed)

Spec == Init /\ [][Next]_vars

-----------------------------------------------------------------------------
(* Properties *)

StartsAt(s, i) == handed[i].kind = "start" /\ handed[i].session = s
EndsAt(s, i) == handed[i].kind = "end" /\ handed[i].session = s
Ended(s) == \E i \in DOMAIN handed : EndsAt(s, i)

(* A session ends at most once, whoever calls end_session or drops the guard *)
(* at the same time.                                                         *)
EndsOnce ==
  \A i, j \in DOMAIN handed : \A s \in SessionIds : EndsAt(s, i) /\ EndsAt(s, j) => i = j

(* The clients are handed the records of a session in order: its start,      *)
(* once, then the events that capture_event gave its id, then its end,       *)
(* although they come from different threads; no event is given the id of a  *)
(* session that was not started.  What the backend sees may differ: the      *)
(* transport spools, replays and drops single envelopes.                     *)
Bracketed ==
  \A j \in DOMAIN handed : LET s == handed[j].session IN
    s \notin {Foreign, None} =>
      /\ \E i \in 1..j : StartsAt(s, i)
      /\ \A i \in DOMAIN handed :
           /\ StartsAt(s, i) => i <= j
           /\ EndsAt(s, i) => j <= i

(* A panic is not talked down: a session that was active when a panic marked *)
(* it ends as crashed, unless the application gives the status itself.       *)
CrashSticks ==
  \A i \in DOMAIN handed : \A s \in crashed :
    EndsAt(s, i) => handed[i].status \in {"crashed", "explicit"}

(* A session that was started is active on a hub that is in use, about to be *)
(* ended by the thread that took it, or ended, whoever starts, ends and      *)
(* drops guards at the same time.  Two ways lose it without an end: a later  *)
(* start on the same hub, and the end of the request whose hub it is on.     *)
NoneForgotten ==
  \A s \in SessionIds : status[s] # "unused" =>
    \/ \E h \in Hubs : session[h] = s /\ (h \in Requests => request[h] # "done")
    \/ \E t \in Threads : pc[t] = "end" /\ job[t].session = s
    \/ Ended(s) \/ s \in replaced \cup vanished

(* "An error/fatal event marks the active session errored" (README.md:124):  *)
(* a session whose id an error event carries does not end as exited.         *)
ErrorsShow ==
  \A i, j \in DOMAIN handed :
    handed[i].kind = "event" /\ handed[i].event \in ErrorLevel /\ EndsAt(handed[i].session, j)
      => handed[j].status # "exited"
=============================================================================
