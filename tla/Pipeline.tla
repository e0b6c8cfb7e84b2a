------------------------------ MODULE Pipeline ------------------------------
(***************************************************************************)
(* The capture pipeline of one Client (src/src/client.rs) under its hub:   *)
(* scope data laid over an event (src/src/scope.rs), integrations, the     *)
(* sanitizer, before_send, sampling and delivery, breadcrumbs, the calls   *)
(* that bypass the pipeline, and the tracing layer's events, for threads   *)
(* that do all of this at once.                                            *)
(*                                                                         *)
(* capture_event keeps the hub's read lock from taking the scope until the *)
(* envelope is handed over, so a thread inside the pipeline keeps every    *)
(* writer of the scope waiting; what waits for whom is in HubLock.  Event  *)
(* ids, identity defaults and the session are left out (Sessions has the   *)
(* session); the sanitizer's fallback is too: no field of ErrorEvent fails *)
(* to be read back after scrubbing.                                        *)
(***************************************************************************)
EXTENDS Naturals, Sequences, FiniteSets, Scrub

CONSTANTS
  Threads,
  None,
  App,            \* what an event or a hook names, not the scope
  Options,        \* the ClientOptions to check: of the hooks any may do anything
  Buckets,        \* what sample() counts to: 1000 in the code
  Fine,           \* the rates an f32 tells apart in each bucket
  MaxBreadcrumbs, \* the scope's cap: 100 in the code
  Brought,        \* user, tags and breadcrumbs an event brings or a hook puts into it
  Bodies,         \* payloads the application or a hook makes: sets of leaves
  Additions,      \* leaves an integration or before_send may put on an event
  MaxCaptures,    \* bound: captures
  MaxAdds         \* bound: breadcrumbs added

(* user and tags are named by the thread that set them *)
Names == Threads \cup {App, None}
Crumbs == [by : Names, n : 1..MaxAdds]
Scopes == [user : Names, tags : Names, crumbs : Seq(Crumbs)]

(* Without an api key there is no transport.  sample_rate is a fraction of    *)
(* Full; one that rounds to a bucket's own quotient is that bucket's.        *)
Full == Buckets * Fine
ClientOptions == [send_default_pii : BOOLEAN, transport : BOOLEAN, rate : 0..Full]

ASSUME PipelineAssumption ==
  /\ None \notin Threads \cup {App} /\ IsFiniteSet(Threads)
  /\ Options \subseteq ClientOptions
  /\ Buckets \in Nat \ {0} /\ Fine \in Nat \ {0} /\ MaxBreadcrumbs \in Nat \ {0}
  /\ Brought \subseteq Scopes /\ Bodies \subseteq SUBSET Leaves /\ Additions \subseteq Leaves
  /\ MaxCaptures \in Nat /\ MaxAdds \in Nat

VARIABLES
  options,        \* of the client
  scope,          \* the hub's top scope
  sample_counter, events_captured, events_dropped,
  pc,             \* where each thread is
  event,          \* what each thread has in hand
  envelope,       \* what the last step handed to the transport
  handed          \* how many envelopes the transport was handed

(* History: read by the properties alone *)
VARIABLES
  pushed,         \* every breadcrumb that got on the scope, in order
  refused,        \* breadcrumbs before_breadcrumb dropped
  kept, missed,   \* events the sampler kept, and dropped
  panicked,       \* events an integration or before_send panicked on
  brought         \* what each event brought, None once a hook has changed that

vars == <<options, scope, sample_counter, events_captured, events_dropped, pc, event,
          envelope, handed, pushed, refused, kept, missed, panicked, brought>>

UnderReadLock == {"integrations", "sanitize", "before_send", "sample", "deliver"}
Positions == UnderReadLock \cup {"idle", "push", "ingest"}

ErrorEvents == [user : Names, tags : Names, crumbs : Seq(Crumbs), body : SUBSET Leaves]
EventOf(own, body) == [user |-> own.user, tags |-> own.tags, crumbs |-> own.crumbs, body |-> body]
Nothing == [user |-> None, tags |-> None, crumbs |-> <<>>]
NoEvent == EventOf(Nothing, {})

TypeOK ==
  /\ options \in Options
  /\ scope \in Scopes /\ Len(scope.crumbs) <= MaxBreadcrumbs
  /\ \A n \in {sample_counter, events_captured, events_dropped, handed, refused, kept,
                missed, panicked} : n \in Nat
  /\ pc \in [Threads -> Positions]
  /\ event \in [Threads -> ErrorEvents] /\ envelope \in ErrorEvents \cup {None}
  /\ pushed \in Seq(Crumbs) /\ brought \in [Threads -> Scopes \cup {None}]

-----------------------------------------------------------------------------
Step(t, from, to) == pc[t] = from /\ pc' = [pc EXCEPT ![t] = to]
NothingHanded == envelope' = None /\ UNCHANGED handed
Finish(t) == event' = [event EXCEPT ![t] = NoEvent] /\ brought' = [brought EXCEPT ![t] = None]
Count(captures, drops) ==
  /\ events_captured' = events_captured + captures
  /\ events_dropped' = events_dropped + drops

(* scope.apply_to_event: the event's own user wins, the scope's tags do,   *)
(* and the scope's breadcrumbs come before the event's.                    *)
apply_to_event(e) ==
  [e EXCEPT !.user = IF @ = None THEN scope.user ELSE @,
            !.tags = IF scope.tags = None THEN @ ELSE scope.tags,
            !.crumbs = scope.crumbs \o @]

capture_event(t, own, body) ==
  /\ Step(t, "idle", "integrations") /\ events_captured < MaxCaptures
  /\ Count(1, 0)
  /\ event' = [event EXCEPT ![t] = apply_to_event(EventOf(own, body))]
  /\ brought' = [brought EXCEPT ![t] = own]
  /\ NothingHanded
  /\ UNCHANGED <<options, scope, sample_counter, pushed, refused, kept, missed, panicked>>

(* The event is gone: an integration, before_send or the sampler dropped it *)
Dropped(t, from) ==
  /\ Step(t, from, "idle") /\ Count(0, 1) /\ Finish(t)
  /\ NothingHanded
  /\ UNCHANGED <<options, scope, pushed, refused, panicked>>

PassOn(t, from, to, e) ==
  /\ Step(t, from, to) /\ event' = [event EXCEPT ![t] = e]
  /\ NothingHanded
  /\ UNCHANGED <<options, scope, sample_counter, events_captured, events_dropped, pushed,
                 refused, kept, missed, panicked>>

(* A panic that is caught further up the thread: the read lock is released  *)
(* by the unwinding, unpoisoned, and no counter is changed.                *)
Panics(t, from) ==
  /\ Step(t, from, "idle") /\ Count(0, 0) /\ Finish(t)
  /\ panicked' = panicked + 1
  /\ NothingHanded
  /\ UNCHANGED <<options, scope, sample_counter, pushed, refused, kept, missed>>

(* A hook of the application keeps the event, adds to it, returns another,  *)
(* drops it or panics                                                      *)
Hook(t, from, to) ==
  \/ \E added \in {{}} \cup {{leaf} : leaf \in Additions} :
       PassOn(t, from, to, [event[t] EXCEPT !.body = @ \cup added]) /\ UNCHANGED brought
  \/ \E own \in Brought, body \in Bodies :
       PassOn(t, from, to, EventOf(own, body)) /\ brought' = [brought EXCEPT ![t] = None]
  \/ Dropped(t, from) /\ UNCHANGED <<sample_counter, kept, missed>>
  \/ Panics(t, from)

process_event(t) == Hook(t, "integrations", "sanitize")

sanitized_event_for_hook(t) ==
  /\ PassOn(t, "sanitize", "before_send",
            [event[t] EXCEPT !.body = IF options.send_default_pii THEN @ ELSE scrub_value(@)])
  /\ UNCHANGED brought

before_send(t) == Hook(t, "before_send", "sample")

SampledOut(t) == Dropped(t, "sample") /\ missed' = missed + 1 /\ UNCHANGED kept
SampledIn(t) ==
  /\ Step(t, "sample", "deliver") /\ kept' = kept + 1
  /\ NothingHanded
  /\ UNCHANGED <<options, scope, events_captured, events_dropped, event, pushed, refused,
                 missed, panicked, brought>>

(* Mutant: the counter is read after it was incremented *)
SampleAfter(t) ==
  /\ sample_counter' = sample_counter + 1
  /\ IF (sample_counter' % Buckets) * Fine < options.rate THEN SampledIn(t) ELSE SampledOut(t)

(* Rates of none and of all do not count *)
sample(t) ==
  /\ sample_counter' = sample_counter + IF options.rate \in {0, Full} THEN 0 ELSE 1
  /\ IF (sample_counter % Buckets) * Fine < options.rate THEN SampledIn(t) ELSE SampledOut(t)

(* Mutant: without a transport the event is not counted as dropped *)
DeliverQuietly(t, from) ==
  /\ Step(t, from, "idle") /\ Finish(t) /\ Count(0, 0)
  /\ IF options.transport
     THEN /\ envelope' = [event[t] EXCEPT !.body =
                            IF options.send_default_pii THEN @ ELSE scrub_value(@)]
          /\ handed' = handed + 1
     ELSE NothingHanded
  /\ UNCHANGED <<options, scope, sample_counter, pushed, refused, kept, missed, panicked>>

(* Mutant: what was sanitized for the hook is not scrubbed again *)
DeliverAsIs(t, from) ==
  /\ Step(t, from, "idle") /\ Finish(t)
  /\ IF options.transport
     THEN envelope' = event[t] /\ handed' = handed + 1 /\ Count(0, 0)
     ELSE NothingHanded /\ Count(0, 1)
  /\ UNCHANGED <<options, scope, sample_counter, pushed, refused, kept, missed, panicked>>

deliver(t, from) ==
  /\ Step(t, from, "idle") /\ Finish(t)
  /\ IF options.transport
     THEN /\ envelope' = [event[t] EXCEPT !.body =
                            IF options.send_default_pii THEN @ ELSE scrub_value(@)]
          /\ handed' = handed + 1 /\ Count(0, 0)
     ELSE NothingHanded /\ Count(0, 1)
  /\ UNCHANGED <<options, scope, sample_counter, pushed, refused, kept, missed, panicked>>

(* capture_spans, capture_log, capture_db_queries and the others: counted,  *)
(* then delivered; an empty batch does nothing.                            *)
Ingest(t, body) ==
  /\ Step(t, "idle", "ingest") /\ events_captured < MaxCaptures
  /\ Count(1, 0)
  /\ event' = [event EXCEPT ![t] = EventOf(Nothing, body)]
  /\ NothingHanded
  /\ UNCHANGED <<options, scope, sample_counter, pushed, refused, kept, missed, panicked,
                 brought>>

(* get_diagnostics().events_captured: the client's count or the transport's, *)
(* which counts what it is handed, whichever is larger                      *)
Reported == IF handed > events_captured THEN handed ELSE events_captured

-----------------------------------------------------------------------------
(* Writers of the scope *)

ScopeFree == \A t \in Threads : pc[t] \notin UnderReadLock
Adds == Len(pushed) + refused + Cardinality({t \in Threads : pc[t] = "push"})

(* Mutant: a writer does not wait for the events in the pipeline *)
ConfigureAtOnce(t) ==
  /\ pc[t] = "idle"
  /\ scope' = [scope EXCEPT !.user = t, !.tags = t]
  /\ NothingHanded
  /\ UNCHANGED <<options, sample_counter, events_captured, events_dropped, pc, event, pushed,
                 refused, kept, missed, panicked, brought>>

(* A closure that sets the user and a tag *)
configure_scope(t) ==
  /\ pc[t] = "idle" /\ ScopeFree
  /\ scope' = [scope EXCEPT !.user = t, !.tags = t]
  /\ NothingHanded
  /\ UNCHANGED <<options, sample_counter, events_captured, events_dropped, pc, event, pushed,
                 refused, kept, missed, panicked, brought>>

(* before_breadcrumb runs with no lock held *)
add_breadcrumb(t) ==
  /\ pc[t] = "idle" /\ Adds < MaxAdds
  /\ \/ Step(t, "idle", "push") /\ Count(0, 0) /\ UNCHANGED refused
     \/ UNCHANGED pc /\ Count(0, 1) /\ refused' = refused + 1
  /\ NothingHanded
  /\ UNCHANGED <<options, scope, sample_counter, event, pushed, kept, missed, panicked, brought>>

(* Mutant: the ring is not trimmed *)
PushUntrimmed(t) ==
  LET crumb == [by |-> t, n |-> Len(pushed) + 1]
  IN  /\ Step(t, "push", "idle") /\ ScopeFree
      /\ scope' = [scope EXCEPT !.crumbs = Append(@, crumb)]
      /\ pushed' = Append(pushed, crumb)
      /\ NothingHanded
      /\ UNCHANGED <<options, sample_counter, events_captured, events_dropped, event, refused,
                     kept, missed, panicked, brought>>

(* Scope::add_breadcrumb *)
Push(t) ==
  LET crumb == [by |-> t, n |-> Len(pushed) + 1]
      crumbs == Append(scope.crumbs, crumb)
  IN  /\ Step(t, "push", "idle") /\ ScopeFree
      /\ scope' = [scope EXCEPT !.crumbs =
                     IF Len(crumbs) > MaxBreadcrumbs THEN Tail(crumbs) ELSE crumbs]
      /\ pushed' = Append(pushed, crumb)
      /\ NothingHanded
      /\ UNCHANGED <<options, sample_counter, events_captured, events_dropped, event, refused,
                     kept, missed, panicked, brought>>

-----------------------------------------------------------------------------
(* The tracing layer turns an event of the application into one of these,  *)
(* by its level or by the filter it was given.                             *)
default_event_filter(level) ==
  CASE level = "error" -> "exception"
    [] level \in {"warn", "info"} -> "breadcrumb"
    [] OTHER -> "ignore"

OnEvent(t, filter, body) ==
  \/ filter = "breadcrumb" /\ add_breadcrumb(t)
  \/ filter = "log" /\ Ingest(t, body)
  \/ filter \in {"event", "exception"} /\ capture_event(t, Nothing, body)

Filters == {default_event_filter(level) : level \in {"error", "warn", "info", "debug", "trace"}}
             \cup {"event", "log"}

Init ==
  /\ options \in Options
  /\ scope = Nothing
  /\ sample_counter = 0 /\ events_captured = 0 /\ events_dropped = 0
  /\ pc = [t \in Threads |-> "idle"] /\ event = [t \in Threads |-> NoEvent]
  /\ envelope = None /\ handed = 0
  /\ pushed = <<>> /\ refused = 0 /\ kept = 0 /\ missed = 0 /\ panicked = 0
  /\ brought = [t \in Threads |-> None]

Next ==
  \E t \in Threads :
    \/ \E own \in Brought, body \in Bodies : capture_event(t, own, body)
    \/ \E filter \in Filters, body \in Bodies : OnEvent(t, filter, body)
    \/ process_event(t) \/ sanitized_event_for_hook(t) \/ before_send(t) \/ sample(t)
    \/ deliver(t, "deliver") \/ deliver(t, "ingest")
    \/ configure_scope(t) \/ Push(t)

Spec == Init /\ [][Next]_vars

-----------------------------------------------------------------------------
(* Properties *)

(* Whatever integrations and before_send add, and whichever call it went    *)
(* through, nothing exposed is handed to the transport unless the          *)
(* application asked for it ("callbacks cannot reintroduce secrets",       *)
(* client.rs:116).                                                         *)
NothingExposed ==
  envelope # None /\ ~options.send_default_pii
    => \A leaf \in envelope.body : ~Exposed(leaf)

(* before_send is never shown what the sanitizer is there to hide, even    *)
(* when an integration has just added it (options.rs:60).                  *)
HookSeesNothingExposed ==
  \A t \in Threads : pc[t] = "before_send" /\ ~options.send_default_pii
    => \A leaf \in event[t].body : ~Exposed(leaf)

(* Every capture that get_diagnostics reports is handed over, counted as    *)
(* dropped, or still in a thread's hand, once the breadcrumbs that share the *)
(* counter are set aside; the one way to vanish from the books is a hook    *)
(* that panics.                                                             *)
CapturesCounted ==
  Reported + refused
    = handed + events_dropped + panicked
        + Cardinality({t \in Threads : pc[t] \in UnderReadLock \cup {"ingest"}})

(* However threads share the counter, the sampler counts each event that    *)
(* reaches it once and keeps the first of every Buckets, as many as the     *)
(* rate is above: one between two buckets is rounded up.  At the edges it   *)
(* keeps none or all.                                                       *)
SamplerKeepsRate ==
  LET part == sample_counter % Buckets
      first == (options.rate + Fine - 1) \div Fine
  IN  /\ options.rate = 0 => kept = 0
      /\ options.rate = Full => missed = 0
      /\ options.rate \notin {0, Full} =>
           /\ kept + missed = sample_counter
           /\ kept = (sample_counter \div Buckets) * first
                       + IF part < first THEN part ELSE first

LastFew(s, n) == SubSeq(s, IF Len(s) > n THEN Len(s) - n + 1 ELSE 1, Len(s))

(* Until a hook changes them, an event's user, tags and breadcrumbs tell    *)
(* the state the scope has up to the hand-over, not one a thread has since  *)
(* changed, laid over what the event brought: its user unless it has one,   *)
(* the scope's tags, and its newest breadcrumbs in the order they were      *)
(* added, before the event's own.                                           *)
EventIsFresh ==
  \A t \in Threads : pc[t] \in UnderReadLock /\ brought[t] # None =>
    /\ event[t].user = IF brought[t].user = None THEN scope.user ELSE brought[t].user
    /\ event[t].tags = IF scope.tags = None THEN brought[t].tags ELSE scope.tags
    /\ event[t].crumbs = LastFew(pushed, MaxBreadcrumbs) \o brought[t].crumbs
=============================================================================
