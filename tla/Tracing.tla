------------------------------- MODULE Tracing -------------------------------
(***************************************************************************)
(* Distributed traces: spans (src/src/performance.rs), the trace context   *)
(* on the hubs, the axum and actix request layers, the reqwest middleware  *)
(* of outbound calls, the tracing layer's spans and the database records   *)
(* of the sqlx layer, for a process that serves requests and sends some of *)
(* them itself.                                                            *)
(*                                                                         *)
(* What a span says besides its place in a trace, its status and tags, is  *)
(* left out, and a client is bound.  An actor is a request's handler, or   *)
(* the application outside of any request; its code can be cancelled       *)
(* wherever it awaits.  A span's id is its place in spans; the spans of    *)
(* callers outside are negative.                                           *)
(***************************************************************************)
EXTENDS Integers, Sequences, FiniteSets, Propagation

CONSTANTS
  Requests,
  Main,       \* MAIN_HUB, and the application's code that runs on it
  None,
  LayersOf,   \* of each request, the layers it may meet
  SettingsOf, \* of each actor, the settings of the reqwest middleware it uses
  MaxPublished, \* bound: times the application sets the ids of a scope
  MaxSpans,   \* bound: spans
  MaxTraces   \* bound: traces started

(* axum_no_span is the axum layer with enable_transaction(false) *)
Layers == {"axum", "axum_no_span", "actix"}
Settings == [span : BOOLEAN, inject : BOOLEAN, record : BOOLEAN]

ASSUME TracingAssumption ==
  /\ Main \notin Requests /\ None \notin Requests \cup {Main} \cup Settings
  /\ LayersOf \in [Requests -> SUBSET Layers]
  /\ SettingsOf \in [Requests \cup {Main} -> SUBSET Settings]
  /\ MaxPublished \in Nat /\ MaxSpans \in Nat /\ MaxTraces \in Nat

Actors == Requests \cup {Main}
Hubs == Actors     \* the hub a layer makes is named by its request

VARIABLES
  context,  \* the trace context on the top scope of each hub
  request,  \* of each request: its phase, layer, inbound context and server span
  call,     \* the outbound call each actor awaits
  spans,    \* every Span made
  record,   \* the HTTP or database record the last step sent
  traces    \* how many traces were started

(* History: read by the properties alone *)
VARIABLES
  via,      \* of each request, the context and span of the call that sent it, whether
            \* its headers keep the trace, and the first actor of the chain
  shared,   \* traces, by number, on a hub that is ambient, now or before
  mixed,    \* spans whose id was on a scope beside another trace than theirs
  published \* how often the application set the ids of a scope

history == <<via, shared, mixed, published>>
vars == <<context, request, call, spans, record, traces, history>>

(* "left": ended by a panic that left its hub bound to a thread *)
Phases == {"none", "made", "call", "poll", "done", "left"}
NoRequest == [phase |-> "none", layer |-> "actix", inbound |-> NoContext, span |-> NoSpan]
NoCall == [ctx |-> NoContext, span |-> NoSpan, headers |-> NoHeaders, with |-> None,
           reached |-> FALSE, kept |-> FALSE]
NotCalled(r) == [root |-> r, ctx |-> NoContext, span |-> NoSpan, kept |-> FALSE]
NoRecord == [kind |-> "none", by |-> Main, trace |-> NoTrace, span |-> NoSpan]
NoneSent == record' = NoRecord

Span == [kind : {"server", "client", "app"}, by : Actors, trace : TraceIds, parent : Int,
         finished : BOOLEAN, sent : Nat]
Call == [ctx : TraceContexts, span : Nat, headers : Headers, with : Settings \cup {None},
         reached : BOOLEAN, kept : BOOLEAN]

TypeOK ==
  /\ context \in [Hubs -> TraceContexts]
  /\ request \in [Requests -> [phase : Phases, layer : Layers,
                               inbound : TraceContexts, span : 0..Len(spans)]]
  /\ call \in [Actors -> Call] /\ \A a \in Actors : call[a].span <= Len(spans)
  /\ spans \in Seq(Span) /\ Len(spans) <= MaxSpans
  /\ record \in [kind : {"none", "inbound", "outbound", "db"}, by : Actors,
                  trace : TraceIds \cup {NoTrace}, span : Int]
  /\ traces \in 0..MaxTraces
  /\ via \in [Requests -> [root : Actors, ctx : TraceContexts, span : Nat, kept : BOOLEAN]]
  /\ shared \in SUBSET Nat /\ mixed \in SUBSET Nat /\ published \in 0..MaxPublished

-----------------------------------------------------------------------------
(* Spans *)

NewTrace == WireId(traces + 1)

NewSpan(kind, by, trace, parent) ==
  [kind |-> kind, by |-> by, trace |-> trace, parent |-> parent,
   finished |-> FALSE, sent |-> 0]

(* Mutant: finish does not note that the span was sent *)
SendAgain(sp) == [sp EXCEPT !.finished = TRUE, !.sent = @ + 1]

Send(sp) == IF sp.finished THEN sp ELSE [sp EXCEPT !.finished = TRUE, !.sent = @ + 1]

Dropped(sp) == Send(sp)
Finished(sp) == Dropped(Send(sp))   \* finish takes the span, which is dropped after it

FinishSpan(id) ==
  spans' = [s \in DOMAIN spans |-> IF s = id THEN Finished(spans[s]) ELSE spans[s]]

(* The spans ss are dropped with the future that held them *)
DropSpans(ss) ==
  spans' = [s \in DOMAIN spans |-> IF s \in ss THEN Dropped(spans[s]) ELSE spans[s]]

(* Mutant: no trace is made for a span that is given none *)
ContinuedTraceBare(trace) == trace

(* Span::continued: the trace that is given, or one made for the span *)
ContinuedTrace(trace) == IF trace = NoTrace THEN NewTrace ELSE trace

Root(a) == IF a = Main THEN Main ELSE via[a].root

-----------------------------------------------------------------------------
(* Requests *)

(* What callers outside of the process send *)
ExternalHeaders ==
  LET id(form) == [n |-> traces + 1, form |-> form]
      tp(form, ok) == [trace |-> id(form), span |-> -1, wellFormed |-> ok] IN
  { [NoHeaders EXCEPT !.traceparent = tp("cased", TRUE), !.xRequestId = 1],
    [NoHeaders EXCEPT !.traceparent = tp("loose", TRUE), !.xTraceId = id("wire")],
    [NoHeaders EXCEPT !.traceparent = tp("wire", FALSE),
                      !.xRequestId = Blank, !.xAllstakRequestId = 1] }

(* Hubs that are current where no hub is bound for the code that runs: the   *)
(* main one and, on a thread where a panic went through Hub::run, the one    *)
(* that was bound then; who is polled on which thread is the runtime's say.  *)
Ambient == {Main} \cup {r \in Requests : request[r].phase = "left"}

(* Only the axum layer binds its hub, and only for the call of the service,  *)
(* not for the future it returns.                                            *)
CurrentHubs(a) == IF a # Main /\ request[a].phase = "call" THEN {a} ELSE Ambient

(* The span on a scope, if its trace is not the one beside it *)
Mixes(ctx) == {s \in {ctx.span} \cap DOMAIN spans : spans[s].trace # ctx.trace}

(* actix takes the request id from the first header there is, used or not *)
Received(layer, h) ==
  IF layer = "actix"
  THEN [Extract(h) EXCEPT !.request = Usable(First(h.xRequestId, h.xAllstakRequestId, NoRequestId))]
  ELSE Extract(h)

(* What configure_scope leaves on the hub the layer made from the top scope  *)
(* of the current one                                                        *)
Configured(ctx, inbound) ==
  [ctx EXCEPT !.trace = IF inbound.trace = NoTrace THEN @ ELSE inbound.trace,
              !.request = IF inbound.request = NoRequestId THEN @ ELSE inbound.request]

(* Mutant: the layer has no hub of its own and publishes on the current one *)
LayerHubCurrent(r) == Main

(* The hub the layer configures: new_from_top makes one for the request *)
LayerHub(r) == r

(* The layer's call: a hub from the top of the current one, the context the  *)
(* headers carry, and for axum the server span, published on that hub.  The  *)
(* axum layer without a span leaves one that was there beside the new trace; *)
(* actix makes a hub that nothing uses.                                      *)
Serve(r, layer, h, hub) ==
  LET inbound == Received(layer, h)
      ctx == Configured(context[hub], inbound)
      opens == layer = "axum"
      sp == NewSpan("server", r, ContinuedTrace(inbound.trace), inbound.span)
      id == Len(spans) + 1 IN
  /\ spans' = IF opens THEN Append(spans, sp) ELSE spans
  /\ context' = [context EXCEPT ![LayerHub(r)] =
       IF opens THEN [ctx EXCEPT !.trace = sp.trace, !.span = id] ELSE ctx]
  /\ request' = [request EXCEPT ![r] =
       [phase |-> "made", layer |-> layer, inbound |-> inbound,
        span |-> IF opens THEN id ELSE NoSpan]]
  /\ mixed' = IF layer = "axum_no_span" THEN mixed \cup Mixes(ctx) ELSE mixed

ServeExternal(r, layer, h, hub) ==
  /\ request[r].phase = "none" /\ traces < MaxTraces /\ Len(spans) < MaxSpans
  /\ Serve(r, layer, h, hub)
  /\ traces' = traces + 1     \* the caller's, or the server span's
  /\ NoneSent /\ UNCHANGED <<call, via, shared, published>>

(* The request that a, an actor of this process, awaits the answer of *)
ServeCall(r, layer, a, hub) ==
  /\ request[r].phase = "none" /\ call[a].with # None /\ ~call[a].reached
  /\ Len(spans) < MaxSpans
  /\ Serve(r, layer, call[a].headers, hub)
  /\ traces' = IF layer = "axum" /\ Extract(call[a].headers).trace = NoTrace
               THEN traces + 1 ELSE traces
  /\ traces' <= MaxTraces
  /\ call' = [call EXCEPT ![a].reached = TRUE]
  /\ via' = [via EXCEPT ![r] = [root |-> Root(a), ctx |-> call[a].ctx,
                                span |-> call[a].span, kept |-> call[a].kept]]
  /\ NoneSent /\ UNCHANGED <<shared, published>>

(* The first poll of the layer's future; the service's own future follows *)
RunCall(r) ==
  /\ request[r].phase = "made"
  /\ request' = [request EXCEPT ![r].phase = IF request[r].layer = "actix" THEN "poll" ELSE "call"]
  /\ NoneSent /\ UNCHANGED <<context, call, spans, traces, history>>

RunCallEnd(r) ==
  /\ request[r].phase = "call" /\ call[r].with = None
  /\ request' = [request EXCEPT ![r].phase = "poll"]
  /\ NoneSent /\ UNCHANGED <<context, call, spans, traces, history>>

(* The layer's future is gone, and with it the hub and the context it held,  *)
(* unless a thread has the hub still                                         *)
EndRequest(r, phase) ==
  /\ request' = [request EXCEPT ![r].phase = phase, ![r].inbound = NoContext]
  /\ context' = IF phase = "left" THEN context ELSE [context EXCEPT ![r] = NoContext]
  /\ shared' = IF phase = "left" THEN shared \cup ({context[r].trace.n} \ {0}) ELSE shared
  /\ via' = [via EXCEPT ![r] = [NotCalled(r) EXCEPT !.root = via[r].root]]
  /\ UNCHANGED <<traces, mixed, published>>

(* The handler answered: the server span is sent, the request recorded *)
Respond(r) ==
  /\ request[r].phase = "poll" /\ call[r].with = None
  /\ EndRequest(r, "done")
  /\ FinishSpan(request[r].span)
  /\ record' = [kind |-> "inbound", by |-> r, trace |-> request[r].inbound.trace,
                span |-> request[r].span]
  /\ UNCHANGED call

DropRequest(r, phase) ==
  /\ EndRequest(r, phase)
  /\ call' = [call EXCEPT ![r] = NoCall]
  /\ DropSpans({request[r].span, call[r].span})
  /\ NoneSent

(* The future is dropped where the handler awaits, as it is when the client  *)
(* is gone, or unwound by a panic of the handler                             *)
CancelRequest(r) == request[r].phase \in {"made", "poll"} /\ DropRequest(r, "done")

(* The service panics before it returns its future: Hub::run is unwound      *)
(* without putting back the hub that was current                             *)
PanicInRun(r) == request[r].phase = "call" /\ DropRequest(r, "left")

-----------------------------------------------------------------------------
(* What code of the application does, in a handler or outside *)

Runs(a) == IF a = Main THEN TRUE ELSE request[a].phase \in {"call", "poll"}
Free(a) == Runs(a) /\ call[a].with = None

transaction(a) == NewSpan("app", a, NewTrace, NoSpan)

(* Span::transaction, and every span of the tracing layer, nested or not: a  *)
(* trace of its own                                                          *)
StartTransaction(a) ==
  /\ Free(a) /\ traces < MaxTraces /\ Len(spans) < MaxSpans
  /\ spans' = Append(spans, transaction(a))
  /\ traces' = traces + 1
  /\ NoneSent /\ UNCHANGED <<context, request, call, history>>

StartChild(a, s) ==
  /\ Free(a) /\ Len(spans) < MaxSpans
  /\ spans[s].kind = "app" /\ spans[s].by = a /\ ~spans[s].finished
  /\ spans' = Append(spans, NewSpan("app", a, spans[s].trace, s))
  /\ NoneSent /\ UNCHANGED <<context, request, call, traces, history>>

(* finish, on_close, or just going out of scope *)
EndSpan(s) ==
  /\ spans[s].kind = "app" /\ ~spans[s].finished
  /\ \E sp \in {Finished(spans[s]), Dropped(spans[s])} : spans' = [spans EXCEPT ![s] = sp]
  /\ NoneSent /\ UNCHANGED <<context, request, call, traces, history>>

(* configure_scope: what set_trace_id and set_span_id leave on a hub that is *)
(* current                                                                   *)
Publish(a, hub, trace, span) ==
  /\ Free(a) /\ published < MaxPublished /\ published' = published + 1
  /\ context' = [context EXCEPT ![hub].trace = trace, ![hub].span = span]
  /\ shared' = IF hub \in Ambient THEN shared \cup ({trace.n} \ {0}) ELSE shared
  /\ mixed' = mixed \cup Mixes([trace |-> trace, span |-> span])
  /\ NoneSent /\ UNCHANGED <<request, call, spans, via>>

(* Either id or both, of spans of its own, or none *)
SetIds(a, hub) ==
  LET own == {s \in DOMAIN spans : spans[s].kind = "app" /\ spans[s].by = a} IN
  \E trace \in {context[hub].trace, NoTrace} \cup {spans[s].trace : s \in own},
     span \in {context[hub].span, NoSpan} \cup own :
    Publish(a, hub, trace, span) /\ UNCHANGED traces

(* A trace id it made itself; one in wire form is like that of a span *)
SetOwnId(a, hub, form) ==
  /\ traces < MaxTraces /\ traces' = traces + 1
  /\ \E span \in {context[hub].span, NoSpan} :
       Publish(a, hub, [n |-> traces + 1, form |-> form], span)

(* db::build_record: tied to the current hub's context *)
build_record(a, hub) ==
  [kind |-> "db", by |-> a, trace |-> context[hub].trace, span |-> context[hub].span]

(* An sqlx event, or capture_query *)
Query(a, hub) ==
  /\ Free(a)
  /\ record' = build_record(a, hub)
  /\ UNCHANGED <<context, request, call, spans, traces, history>>

(* AllstakHttpMiddleware::handle up to its await: the current hub's context, *)
(* with a trace if it had none, the client span, and the headers, which the  *)
(* application may have copied from the request it serves.                   *)
StartCall(a, hub, with, forwards) ==
  LET ctx == [context[hub] EXCEPT !.trace = ContinuedTrace(@)]
      span == IF with.span THEN Len(spans) + 1 ELSE NoSpan
      own == IF forwards THEN [NoHeaders EXCEPT !.traceparent =
               [trace |-> request[a].inbound.trace, span |-> request[a].inbound.span,
                wellFormed |-> request[a].inbound.span # NoSpan]]
             ELSE NoHeaders IN
  /\ Free(a) /\ (forwards => a # Main)
  /\ Len(spans) < MaxSpans
  /\ traces' = traces + (IF context[hub].trace = NoTrace \/ ctx.trace.form = "junk" THEN 1 ELSE 0)
  /\ traces' <= MaxTraces
  /\ spans' = IF with.span THEN Append(spans, NewSpan("client", a, ctx.trace, ctx.span)) ELSE spans
  /\ call' = [call EXCEPT ![a] =
       [ctx |-> ctx, span |-> span, with |-> with,
        headers |-> IF with.inject THEN Inject(ctx, span, own, NewTrace) ELSE own,
        reached |-> FALSE,
        kept |-> with.inject /\ (with.span \/ ~forwards)]]
  /\ NoneSent /\ UNCHANGED <<context, request, history>>

(* Mutant: the record is made from the context that is current by then *)
EndCallRereads(a) ==
  LET c == call[a] IN
  /\ c.with # None
  /\ call' = [call EXCEPT ![a] = NoCall]
  /\ FinishSpan(c.span)
  /\ record' = IF c.with.record
               THEN [kind |-> "outbound", by |-> a, span |-> c.span,
                     trace |-> context[CHOOSE hub \in CurrentHubs(a) : TRUE].trace]
               ELSE NoRecord
  /\ UNCHANGED <<context, request, traces, history>>

(* handle after its await: an answer, or status 0 for none *)
EndCall(a) ==
  LET c == call[a] IN
  /\ c.with # None
  /\ call' = [call EXCEPT ![a] = NoCall]
  /\ FinishSpan(c.span)
  /\ record' = IF c.with.record
               THEN [kind |-> "outbound", by |-> a, trace |-> c.ctx.trace, span |-> c.span]
               ELSE NoRecord
  /\ UNCHANGED <<context, request, traces, history>>

(* The future of the call alone is dropped, by a timeout around it *)
CancelCall(a) ==
  /\ call[a].with # None
  /\ call' = [call EXCEPT ![a] = NoCall]
  /\ DropSpans({call[a].span})
  /\ NoneSent /\ UNCHANGED <<context, request, traces, history>>

-----------------------------------------------------------------------------

Init ==
  /\ context = [h \in Hubs |-> NoContext]
  /\ request = [r \in Requests |-> NoRequest]
  /\ call = [a \in Actors |-> NoCall]
  /\ spans = <<>> /\ record = NoRecord /\ traces = 0
  /\ via = [r \in Requests |-> NotCalled(r)] /\ shared = {} /\ mixed = {} /\ published = 0

Next ==
  \/ \E r \in Requests :
       \/ \E layer \in LayersOf[r], hub \in Ambient :
            \/ \E h \in ExternalHeaders : ServeExternal(r, layer, h, hub)
            \/ \E a \in Actors \ {r} : ServeCall(r, layer, a, hub)
       \/ RunCall(r) \/ RunCallEnd(r) \/ Respond(r) \/ CancelRequest(r) \/ PanicInRun(r)
  \/ \E a \in Actors :
       \/ StartTransaction(a) \/ EndCall(a) \/ CancelCall(a)
       \/ \E s \in DOMAIN spans : StartChild(a, s)
       \/ \E hub \in CurrentHubs(a) :
            \/ SetIds(a, hub) \/ Query(a, hub)
            \/ \E form \in {"loose", "junk"} : SetOwnId(a, hub, form)
            \/ \E with \in SettingsOf[a], forwards \in BOOLEAN : StartCall(a, hub, with, forwards)
  \/ \E s \in DOMAIN spans : EndSpan(s)

Spec == Init /\ [][Next]_vars

-----------------------------------------------------------------------------
(* Properties *)

(* A span is sent once, whether it is finished, goes out of scope, or its    *)
(* future is cancelled while it is open: a server span when its request has  *)
(* ended, a client span when its call has.                                   *)
SentOnce ==
  \A s \in DOMAIN spans :
    spans[s].sent =
      CASE spans[s].kind = "server" ->
             IF request[spans[s].by].phase \in {"done", "left"} THEN 1 ELSE 0
        [] spans[s].kind = "client" -> IF call[spans[s].by].span = s THEN 0 ELSE 1
        [] OTHER -> IF spans[s].finished THEN 1 ELSE 0

(* Spans and records form trees: what names one of the process's spans as    *)
(* its parent has that span's trace id, across calls and services, unless    *)
(* that id has no wire form and the child is the span of another service: on *)
(* the wire it becomes another id (propagation.rs:138).  A database record   *)
(* is in the trace of the span it names, and the record of a request, if it  *)
(* came with a trace, or of a call in that of its span, whatever became      *)
(* current while the answer was awaited.  Spans that a scope had beside      *)
(* another trace, which the two setters and the axum layer without a span    *)
(* allow, say nothing of where their children are.                           *)
OneTree ==
  /\ \A s \in DOMAIN spans :
       LET p == spans[s].parent IN
       p > 0 =>
         /\ p < s
         /\ \/ spans[p].trace = spans[s].trace
            \/ spans[s].kind = "server" /\ spans[p].trace.form # "wire"
            \/ p \in mixed
  /\ record.span > 0 =>
       \/ spans[record.span].trace = record.trace
       \/ record.kind = "db" /\ record.span \in mixed
       \/ record.kind = "inbound" /\ record.trace = NoTrace

(* "so a downstream AllStak-instrumented service can continue the same       *)
(* trace" (propagation.rs:167): the service called reads the very trace id   *)
(* the caller's span and record have, if that id has wire form, the client   *)
(* span as its parent, and the caller's request id.                          *)
TraceContinues ==
  \A r \in Requests : via[r].kept =>
    /\ via[r].ctx.trace.form = "wire" => request[r].inbound.trace = via[r].ctx.trace
    /\ request[r].inbound.span = via[r].span
    /\ request[r].inbound.request = via[r].ctx.request

(* Requests that are served at once do not end up in each other's traces:    *)
(* two spans are in one trace, told apart by the digits of its id, only if   *)
(* one chain of calls made both, or the trace was on a hub that is ambient:  *)
(* the application put it on the main hub, or its request panicked inside    *)
(* Hub::run, after which anybody may find its hub current.                   *)
TracesKeepApart ==
  \A s, t \in DOMAIN spans :
    spans[s].trace.n = spans[t].trace.n =>
      Root(spans[s].by) = Root(spans[t].by) \/ spans[s].trace.n \in shared

(* "When called inside a request handled by the axum / actix middleware, the *)
(* client span nests under the request span and shares its trace             *)
(* automatically." (README.md:217)                                           *)
NestsUnderRequest ==
  \A s \in DOMAIN spans :
    spans[s].kind = "client" /\ spans[s].by # Main =>
      LET r == request[spans[s].by] IN
      r.layer = "axum" => spans[s].parent = r.span /\ spans[s].trace = spans[r.span].trace
=============================================================================
