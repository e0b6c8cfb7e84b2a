---------------------------- MODULE TracingProofs ----------------------------
(***************************************************************************)
(* Proofs about Tracing for every value of its constants: any number of    *)
(* requests, in whatever chains they call each other, any layers and       *)
(* middleware settings, any number of spans, traces and published ids.     *)
(***************************************************************************)
EXTENDS Tracing, SequenceLemmas

USE TracingAssumption

-----------------------------------------------------------------------------
(* Reading and stamping headers *)

Ids == TraceIds \cup {NoTrace}

LEMMA IdsAre ==
  /\ NoTrace \in Ids /\ NoTrace.n = 0 /\ NoTrace.form = "none"
  /\ \A id \in TraceIds : id \in Ids /\ id # NoTrace /\ id.n \in Nat \ {0} /\ id.form # "none"
  /\ \A id \in Ids : id.n \in Nat
  /\ \A n \in Nat \ {0} : WireId(n) \in TraceIds /\ WireId(n).n = n /\ WireId(n).form = "wire"
  /\ \A id \in TraceIds : id.form = "wire" => WireId(id.n) = id
BY DEF Ids, TraceIds, NoTrace, WireId

LEMMA LoweredIs ==
  ASSUME NEW id \in Ids
  PROVE  /\ Lowered(id) \in Ids /\ Lowered(id).n = id.n
         /\ IsValidTraceId(Lowered(id)) => Lowered(id) \in TraceIds /\ Lowered(id).form = "wire"
<1>1. CASE id.form = "cased"
  <2>1. id \in TraceIds
    BY <1>1, IdsAre DEF Ids
  <2> QED BY <1>1, <2>1, IdsAre DEF Lowered
<1>2. CASE id.form # "cased"
  BY <1>2, IdsAre DEF Lowered, IsValidTraceId, Ids
<1> QED BY <1>1, <1>2

(* What a context without a trace knows of its caller: nothing *)
LEMMA ContextsAre ==
  /\ NoContext \in TraceContexts /\ NoContext.trace = NoTrace /\ NoContext.span = NoSpan
  /\ NoContext.request = NoRequestId
  /\ \A ctx \in TraceContexts : ctx.trace \in Ids /\ ctx.span \in Int /\ ctx.request \in Nat
BY IdsAre DEF TraceContexts, NoContext, NoSpan, NoRequestId, Ids

LEMMA NoHeadersAre ==
  /\ NoHeaders \in Headers
  /\ NoHeaders.traceparent = NoTraceparent
  /\ NoTraceparent \in Traceparents /\ ~NoTraceparent.wellFormed
  /\ NoHeaders.xAllstakTraceId = NoTrace /\ NoHeaders.xTraceId = NoTrace
  /\ NoHeaders.xRequestId = NoRequestId /\ NoHeaders.xAllstakRequestId = NoRequestId
BY IdsAre DEF Headers, NoHeaders, Traceparents, NoTraceparent, NoSpan, NoRequestId, RequestIds, Ids

(* The headers extract reads the trace from *)
Decides(h) == h.traceparent.wellFormed /\ IsValidTraceId(Lowered(h.traceparent.trace))

LEMMA ExtractIs ==
  ASSUME NEW h \in Headers
  PROVE  /\ Extract(h) \in TraceContexts
         /\ Decides(h) => /\ Extract(h).trace = Lowered(h.traceparent.trace)
                          /\ Extract(h).span = h.traceparent.span
                          /\ Extract(h).trace # NoTrace
         /\ ~Decides(h) =>
              /\ Extract(h).span = NoSpan
              /\ Extract(h).trace =
                   IF IsValidTraceId(Lowered(h.xAllstakTraceId)) THEN Lowered(h.xAllstakTraceId)
                   ELSE IF IsValidTraceId(Lowered(h.xTraceId)) THEN Lowered(h.xTraceId)
                   ELSE NoTrace
         /\ Extract(h).request =
              First(Usable(h.xRequestId), Usable(h.xAllstakRequestId), NoRequestId)
<1>1. /\ h.traceparent.trace \in Ids /\ h.traceparent.span \in Int
      /\ h.xAllstakTraceId \in Ids /\ h.xTraceId \in Ids
      /\ Usable(h.xRequestId) \in Nat /\ Usable(h.xAllstakRequestId) \in Nat
  BY DEF Headers, Traceparents, Ids, RequestIds, Usable, NoRequestId
<1> DEFINE low == Lowered(h.traceparent.trace)
           one == Lowered(h.xAllstakTraceId)
           two == Lowered(h.xTraceId)
<1>2. /\ low \in Ids /\ one \in Ids /\ two \in Ids
      /\ IsValidTraceId(low) => low # NoTrace
      /\ IsValidTraceId(one) => one # NoTrace
      /\ IsValidTraceId(two) => two # NoTrace
  BY <1>1, LoweredIs, IdsAre
<1>3. FirstValidTrace(h.xAllstakTraceId, h.xTraceId) =
        IF IsValidTraceId(one) THEN one ELSE IF IsValidTraceId(two) THEN two ELSE NoTrace
  BY <1>2 DEF FirstValidTrace, First
<1>4. ParseTraceparent(h.traceparent) =
        IF Decides(h) THEN [trace |-> low, span |-> h.traceparent.span]
        ELSE [trace |-> NoTrace, span |-> NoSpan]
  BY DEF ParseTraceparent, Decides
<1>5. Extract(h) =
        [trace |-> IF Decides(h) THEN low ELSE FirstValidTrace(h.xAllstakTraceId, h.xTraceId),
         span |-> IF Decides(h) THEN h.traceparent.span ELSE NoSpan,
         request |-> First(Usable(h.xRequestId), Usable(h.xAllstakRequestId), NoRequestId)]
  <2>1. CASE Decides(h)
    BY <1>2, <1>4, <2>1 DEF Extract, First, Decides
  <2>2. CASE ~Decides(h)
    BY <1>4, <2>2 DEF Extract, First
  <2> QED BY <2>1, <2>2
<1>6. FirstValidTrace(h.xAllstakTraceId, h.xTraceId) \in Ids
  BY <1>2, <1>3, IdsAre
<1> HIDE DEF low, one, two
<1>7. Extract(h) \in TraceContexts
  <2>1. First(Usable(h.xRequestId), Usable(h.xAllstakRequestId), NoRequestId) \in Nat
    BY <1>1 DEF First
  <2> QED BY <1>1, <1>2, <1>5, <1>6, <2>1 DEF TraceContexts, Ids, NoSpan
<1>8. Decides(h) => low # NoTrace
  BY <1>2 DEF Decides, low
<1> QED BY <1>3, <1>5, <1>7, <1>8 DEF low, one, two

LEMMA NoHeadersRead == Extract(NoHeaders).trace = NoTrace /\ Extract(NoHeaders).span = NoSpan
<1>1. ~Decides(NoHeaders) /\ Lowered(NoTrace) = NoTrace /\ ~IsValidTraceId(NoTrace)
  BY NoHeadersAre, IdsAre DEF Decides, Lowered, IsValidTraceId
<1> QED BY <1>1, NoHeadersAre, ExtractIs

(* What a layer reads, actix too; the request id is the one that inject stamps *)
LEMMA ReceivedIs ==
  ASSUME NEW h \in Headers, NEW layer
  PROVE  /\ Received(layer, h) \in TraceContexts
         /\ Received(layer, h).trace = Extract(h).trace /\ Received(layer, h).span = Extract(h).span
         /\ h.xRequestId = NoRequestId /\ h.xAllstakRequestId \in Nat =>
              Received(layer, h).request = h.xAllstakRequestId
<1>1. PICK x \in TraceContexts : x = Extract(h)
  BY ExtractIs
<1>2. PICK id \in Nat : id = Usable(First(h.xRequestId, h.xAllstakRequestId, NoRequestId))
  BY DEF Headers, RequestIds, Usable, First, NoRequestId
<1>3. LET y == [x EXCEPT !.request = id]
      IN  y \in TraceContexts /\ y.trace = x.trace /\ y.span = x.span /\ y.request = id
  BY DEF TraceContexts
<1>4. ASSUME h.xRequestId = NoRequestId, h.xAllstakRequestId \in Nat
      PROVE  x.request = h.xAllstakRequestId /\ id = h.xAllstakRequestId
  <2>1. Usable(h.xRequestId) = NoRequestId /\ Usable(h.xAllstakRequestId) = h.xAllstakRequestId
    BY <1>4 DEF Usable, Blank, NoRequestId
  <2> QED BY <1>1, <1>2, <1>4, <2>1, ExtractIs DEF First
<1>5. CASE layer = "actix"
  <2>1. Received(layer, h) = [x EXCEPT !.request = id]
    BY <1>1, <1>2, <1>5 DEF Received
  <2> QED BY <1>1, <1>3, <1>4, <2>1
<1>6. CASE layer # "actix"
  <2>1. Received(layer, h) = x
    BY <1>1, <1>6 DEF Received
  <2> QED BY <1>1, <1>4, <2>1
<1> QED BY <1>5, <1>6

(* What inject stamps for a context that has a trace, as the middleware's has *)
LEMMA InjectIs ==
  ASSUME NEW ctx \in TraceContexts, ctx.trace # NoTrace, NEW span \in Int,
         NEW own \in Headers, NEW fresh \in TraceIds,
         NEW h, h = Inject(ctx, span, own, fresh)
  PROVE  LET wire == NormalizeTraceId(ctx.trace, fresh)
         IN  /\ h \in Headers /\ wire \in TraceIds
             /\ h.xAllstakTraceId = wire /\ h.xTraceId = own.xTraceId
             /\ h.traceparent = IF span = NoSpan THEN own.traceparent
                                ELSE [trace |-> wire, span |-> span, wellFormed |-> TRUE]
             /\ h.xRequestId = own.xRequestId
             /\ h.xAllstakRequestId =
                  IF ctx.request # NoRequestId THEN ctx.request ELSE own.xAllstakRequestId
<1> DEFINE wire == NormalizeTraceId(ctx.trace, fresh)
           tp == IF span = NoSpan THEN own.traceparent
                 ELSE [trace |-> wire, span |-> span, wellFormed |-> TRUE]
           id == IF ctx.request # NoRequestId THEN ctx.request ELSE own.xAllstakRequestId
<1>1. wire \in TraceIds
  <2>1. ctx.trace \in TraceIds
    BY DEF TraceContexts
  <2> QED BY <2>1, IdsAre DEF NormalizeTraceId
<1>2. tp \in Traceparents /\ id \in RequestIds
  BY <1>1 DEF Traceparents, Headers, TraceContexts, RequestIds
<1>3. Inject(ctx, span, own, fresh) =
        [own EXCEPT !.xAllstakTraceId = wire, !.traceparent = tp, !.xAllstakRequestId = id]
  BY DEF Inject
<1> HIDE DEF wire, tp, id
<1>4. Inject(ctx, span, own, fresh) =
        [traceparent |-> tp, xAllstakTraceId |-> wire, xTraceId |-> own.xTraceId,
         xRequestId |-> own.xRequestId, xAllstakRequestId |-> id]
  BY <1>3 DEF Headers
<1>5. Inject(ctx, span, own, fresh) \in Headers
  BY <1>1, <1>2, <1>4 DEF Headers
<1> QED BY <1>1, <1>4, <1>5 DEF wire, tp, id

-----------------------------------------------------------------------------
(* What the steps do to the spans *)

LEMMA SpansAre ==
  ASSUME TypeOK
  PROVE  /\ Len(spans) \in Nat /\ DOMAIN spans = 1..Len(spans)
         /\ \A s \in DOMAIN spans : spans[s] \in Span
BY LenProperties, ElementOfSeq DEF TypeOK

LEMMA Appended ==
  ASSUME TypeOK, NEW sp \in Span, spans' = Append(spans, sp)
  PROVE  /\ spans' \in Seq(Span) /\ Len(spans') = Len(spans) + 1
         /\ DOMAIN spans' = 1..(Len(spans) + 1) /\ DOMAIN spans = 1..Len(spans)
         /\ Len(spans) \in Nat
         /\ \A s \in DOMAIN spans : spans'[s] = spans[s]
         /\ spans'[Len(spans) + 1] = sp
BY AppendIs, LenProperties DEF TypeOK

LEMMA SendIs ==
  ASSUME NEW sp \in Span
  PROVE  /\ Send(sp) \in Span /\ Dropped(sp) = Send(sp) /\ Finished(sp) = Send(sp)
         /\ Send(sp).kind = sp.kind /\ Send(sp).by = sp.by /\ Send(sp).trace = sp.trace
         /\ Send(sp).parent = sp.parent /\ Send(sp).finished = TRUE
         /\ Send(sp).sent = IF sp.finished THEN sp.sent ELSE sp.sent + 1
<1>1. /\ Send(sp) \in Span
      /\ Send(sp).kind = sp.kind /\ Send(sp).by = sp.by /\ Send(sp).trace = sp.trace
      /\ Send(sp).parent = sp.parent /\ Send(sp).finished = TRUE
      /\ Send(sp).sent = IF sp.finished THEN sp.sent ELSE sp.sent + 1
  <2>1. CASE sp.finished
    BY <2>1 DEF Send, Span
  <2>2. CASE ~sp.finished
    <3>1. Send(sp) = [sp EXCEPT !.finished = TRUE, !.sent = sp.sent + 1]
      BY <2>2 DEF Send
    <3>2. /\ Send(sp).kind = sp.kind /\ Send(sp).by = sp.by /\ Send(sp).trace = sp.trace
          /\ Send(sp).parent = sp.parent /\ Send(sp).finished = TRUE
          /\ Send(sp).sent = sp.sent + 1
      BY <3>1 DEF Span
    <3>3. PICK n \in Nat : n = sp.sent + 1
      BY DEF Span
    <3>4. [sp EXCEPT !.finished = TRUE, !.sent = n] \in Span
      BY DEF Span
    <3> QED BY <2>2, <3>1, <3>2, <3>3, <3>4
  <2> QED BY <2>1, <2>2
<1>2. Send(Send(sp)) = Send(sp)
  BY <1>1 DEF Send
<1> QED BY <1>1, <1>2 DEF Dropped, Finished

(* The spans ss are closed: each is sent, unless it was before *)
Closed(ss) ==
  /\ spans' \in Seq(Span) /\ Len(spans') = Len(spans) /\ DOMAIN spans' = DOMAIN spans
  /\ \A s \in DOMAIN spans :
       /\ spans'[s].kind = spans[s].kind /\ spans'[s].by = spans[s].by
       /\ spans'[s].trace = spans[s].trace /\ spans'[s].parent = spans[s].parent
       /\ spans'[s].finished = (spans[s].finished \/ s \in ss)
       /\ spans'[s].sent = IF s \in ss /\ ~spans[s].finished THEN spans[s].sent + 1
                           ELSE spans[s].sent

LEMMA Marked ==
  ASSUME TypeOK, NEW ss,
         spans' = [s \in DOMAIN spans |-> IF s \in ss THEN Send(spans[s]) ELSE spans[s]]
  PROVE  Closed(ss)
<1>1. \A s \in DOMAIN spans : spans[s] \in Span /\ Send(spans[s]) \in Span
  BY SpansAre, SendIs
<1>2. spans' \in [DOMAIN spans -> Span]
  BY <1>1
<1>3. spans' \in Seq(Span)
  BY <1>2, SameLengthIsSeq DEF TypeOK
<1>4. DOMAIN spans' = DOMAIN spans /\ Len(spans') = Len(spans)
  BY <1>2, <1>3, SpansAre, LenProperties
<1>5. ASSUME NEW s \in DOMAIN spans
      PROVE  /\ spans'[s].kind = spans[s].kind /\ spans'[s].by = spans[s].by
             /\ spans'[s].trace = spans[s].trace /\ spans'[s].parent = spans[s].parent
             /\ spans'[s].finished = (spans[s].finished \/ s \in ss)
             /\ spans'[s].sent = IF s \in ss /\ ~spans[s].finished THEN spans[s].sent + 1
                                 ELSE spans[s].sent
  <2>1. spans[s] \in Span /\ spans'[s] = IF s \in ss THEN Send(spans[s]) ELSE spans[s]
    BY <1>1
  <2>2. spans[s].finished \in BOOLEAN
    BY <2>1 DEF Span
  <2>3. CASE s \in ss
    BY <2>1, <2>2, <2>3, SendIs
  <2>4. CASE s \notin ss
    BY <2>1, <2>2, <2>4
  <2> QED BY <2>3, <2>4
<1> QED BY <1>3, <1>4, <1>5 DEF Closed

LEMMA FinishCloses ==
  ASSUME TypeOK, NEW id, FinishSpan(id) PROVE Closed({id})
<1>1. \A s \in DOMAIN spans : Finished(spans[s]) = Send(spans[s])
  BY SpansAre, SendIs
<1>2. spans' = [s \in DOMAIN spans |-> IF s \in {id} THEN Send(spans[s]) ELSE spans[s]]
  BY <1>1 DEF FinishSpan
<1> QED BY <1>2, Marked

LEMMA DropCloses ==
  ASSUME TypeOK, NEW ss, DropSpans(ss) PROVE Closed(ss)
<1>1. \A s \in DOMAIN spans : Dropped(spans[s]) = Send(spans[s])
  BY SpansAre, SendIs
<1>2. spans' = [s \in DOMAIN spans |-> IF s \in ss THEN Send(spans[s]) ELSE spans[s]]
  BY <1>1 DEF DropSpans
<1> QED BY <1>2, Marked

LEMMA EndCloses ==
  ASSUME TypeOK, NEW s \in DOMAIN spans, EndSpan(s) PROVE Closed({s})
<1>1. spans' = [spans EXCEPT ![s] = Send(spans[s])]
  BY SpansAre, SendIs DEF EndSpan
<1>2. spans' = [u \in DOMAIN spans |-> IF u \in {s} THEN Send(spans[u]) ELSE spans[u]]
  BY <1>1
<1> QED BY <1>2, Marked

-----------------------------------------------------------------------------
(* What serving a request and starting a call come to *)

LEMMA ActorsAre ==
  /\ Main \in Actors /\ Main \notin Requests /\ None \notin Actors /\ Requests \subseteq Actors
  /\ Hubs = Actors
  /\ \A a \in Actors : a # Main => a \in Requests
  /\ \A a \in Actors : CurrentHubs(a) \subseteq Actors
  /\ Ambient \subseteq Actors /\ Main \in Ambient
BY DEF Actors, Hubs, CurrentHubs, Ambient, TracingAssumption

LEMMA NewTraceIs ==
  ASSUME TypeOK
  PROVE  NewTrace \in TraceIds /\ NewTrace.n = traces + 1 /\ NewTrace.form = "wire"
         /\ traces \in Nat
<1>1. traces \in Nat /\ traces + 1 \in Nat \ {0}
  BY DEF TypeOK, TracingAssumption
<1> QED BY <1>1, IdsAre DEF NewTrace

LEMMA ContinuedIs ==
  ASSUME TypeOK, NEW trace \in Ids
  PROVE  /\ ContinuedTrace(trace) \in TraceIds
         /\ ContinuedTrace(trace).n = IF trace = NoTrace THEN traces + 1 ELSE trace.n
         /\ trace # NoTrace => ContinuedTrace(trace) = trace
BY NewTraceIs DEF ContinuedTrace, Ids

LEMMA ServeIs ==
  ASSUME TypeOK, NEW r \in Requests, NEW layer \in Layers, NEW h \in Headers,
         NEW hub \in Actors, Serve(r, layer, h, hub)
  PROVE  \E id \in {NoSpan, Len(spans) + 1}, c \in TraceContexts :
           /\ request' = [request EXCEPT ![r] = [phase |-> "made", layer |-> layer,
                                                 inbound |-> Received(layer, h), span |-> id]]
           /\ context' = [context EXCEPT ![r] = c]
           /\ IF layer = "axum"
              THEN /\ id = Len(spans) + 1 /\ c.span = id
                   /\ c.trace = ContinuedTrace(Extract(h).trace)
                   /\ spans' = Append(spans, NewSpan("server", r, c.trace, Extract(h).span))
              ELSE /\ id = NoSpan /\ c.trace \in {context[hub].trace, Extract(h).trace}
                   /\ c.span = context[hub].span /\ UNCHANGED spans
           /\ mixed' = IF layer = "axum_no_span" THEN mixed \cup Mixes(c) ELSE mixed
<1>1. PICK inbound \in TraceContexts :
        /\ inbound = Received(layer, h)
        /\ inbound.trace = Extract(h).trace /\ inbound.span = Extract(h).span
  BY ReceivedIs
<1>2. PICK main \in TraceContexts : main = context[hub]
  BY ActorsAre DEF TypeOK
<1> DEFINE ctx == Configured(main, inbound)
           trace == ContinuedTrace(inbound.trace)
           id == Len(spans) + 1
<1>3. ctx \in TraceContexts /\ ctx.trace \in {main.trace, inbound.trace} /\ ctx.span = main.span
  BY ContextsAre DEF Configured, TraceContexts
<1>4. trace \in TraceIds
  BY ContextsAre, ContinuedIs
<1>5. NewSpan("server", r, trace, inbound.span).trace = trace
  BY DEF NewSpan
<1>6. Len(spans) \in Nat
  BY SpansAre
<1>7. CASE layer = "axum"
  <2>1. PICK c0 \in TraceContexts : c0 = ctx
    BY <1>3
  <2> DEFINE c == [c0 EXCEPT !.trace = trace, !.span = id]
  <2>2. c \in TraceContexts /\ c.trace = trace /\ c.span = id
    <3> HIDE DEF trace, id
    <3>1. id \in Int
      BY <1>6 DEF id
    <3>2. /\ [c0 EXCEPT !.trace = trace, !.span = id] \in TraceContexts
          /\ [c0 EXCEPT !.trace = trace, !.span = id].trace = trace
          /\ [c0 EXCEPT !.trace = trace, !.span = id].span = id
      <4>1. PICK t \in TraceIds, i \in Int : t = trace /\ i = id
        BY <1>4, <3>1
      <4>2. /\ [c0 EXCEPT !.trace = t, !.span = i] \in TraceContexts
            /\ [c0 EXCEPT !.trace = t, !.span = i].trace = t
            /\ [c0 EXCEPT !.trace = t, !.span = i].span = i
        BY DEF TraceContexts
      <4> QED BY <4>1, <4>2
    <3> QED BY <3>2
  <2>3. /\ spans' = Append(spans, NewSpan("server", r, trace, inbound.span))
        /\ context' = [context EXCEPT ![r] = c]
        /\ request' = [request EXCEPT ![r] = [phase |-> "made", layer |-> layer,
                                              inbound |-> inbound, span |-> id]]
        /\ UNCHANGED mixed
    BY <1>1, <1>2, <1>5, <1>7, <2>1 DEF Serve, LayerHub
  <2> HIDE DEF c, trace, id
  <2>4. id = Len(spans) + 1
    BY DEF id
  <2>5. trace = ContinuedTrace(inbound.trace)
    BY DEF trace
  <2> QED BY <1>1, <1>7, <2>2, <2>3, <2>4, <2>5
<1>8. CASE layer # "axum"
  <2>1. /\ UNCHANGED spans /\ context' = [context EXCEPT ![r] = ctx]
        /\ request' = [request EXCEPT ![r] = [phase |-> "made", layer |-> layer,
                                              inbound |-> inbound, span |-> NoSpan]]
        /\ mixed' = IF layer = "axum_no_span" THEN mixed \cup Mixes(ctx) ELSE mixed
    BY <1>1, <1>2, <1>8 DEF Serve, LayerHub
  <2> QED BY <1>1, <1>2, <1>3, <1>8, <2>1
<1> QED BY <1>7, <1>8

(* The headers a call leaves with: those of the request it was made for, if   *)
(* the application copied them, and over them what the middleware injects.   *)
Copied(a, own) ==
  /\ own \in Headers /\ own.xAllstakTraceId = NoTrace /\ own.xTraceId = NoTrace
  /\ own.xRequestId = NoRequestId /\ own.xAllstakRequestId = NoRequestId
  /\ \/ own.traceparent = NoTraceparent
     \/ /\ a # Main
        /\ own.traceparent.trace = request[a].inbound.trace
        /\ own.traceparent.span = request[a].inbound.span

LEMMA CopiedIs ==
  ASSUME TypeOK, NEW a \in Requests
  PROVE  Copied(a, [NoHeaders EXCEPT !.traceparent =
                      [trace |-> request[a].inbound.trace, span |-> request[a].inbound.span,
                       wellFormed |-> request[a].inbound.span # NoSpan]])
<1>1. PICK inbound \in TraceContexts : inbound = request[a].inbound
  BY DEF TypeOK
<1>2. PICK none \in Headers : none = NoHeaders
  BY NoHeadersAre
<1>3. PICK wellFormed \in BOOLEAN : wellFormed = (inbound.span # NoSpan)
  OBVIOUS
<1>4. PICK tp \in Traceparents :
        tp = [trace |-> inbound.trace, span |-> inbound.span, wellFormed |-> wellFormed]
  BY ContextsAre DEF Traceparents, Ids
<1>5. tp.trace = inbound.trace /\ tp.span = inbound.span
  BY <1>4
<1> DEFINE own == [none EXCEPT !.traceparent = tp]
<1>6. /\ own \in Headers /\ own.traceparent = tp
      /\ own.xAllstakTraceId = none.xAllstakTraceId /\ own.xTraceId = none.xTraceId
      /\ own.xRequestId = none.xRequestId /\ own.xAllstakRequestId = none.xAllstakRequestId
  BY DEF Headers
<1>7. Copied(a, own)
  <2> HIDE DEF own
  <2> QED BY <1>1, <1>2, <1>5, <1>6, NoHeadersAre, ActorsAre DEF Copied
<1> QED BY <1>1, <1>2, <1>3, <1>4, <1>7

(* What the service reads from the headers of a call: the span it was made   *)
(* with and its trace, or what the application copied.                       *)
Reads(a, ctx, span, h) ==
  LET x == Extract(h) IN
  /\ x.span > 0 =>
       \/ x.span = span /\ (ctx.trace.form # "wire" \/ x.trace = ctx.trace)
       \/ /\ a # Main /\ x.span = request[a].inbound.span
          /\ x.trace = Lowered(request[a].inbound.trace)
  /\ \/ x.trace.n \in {0, ctx.trace.n}
     \/ x.trace.n = traces + 1 /\ ctx.trace.form = "junk"
     \/ a # Main /\ x.trace.n = request[a].inbound.trace.n

(* The service called reads what the caller has, all but an id without wire form *)
Kept(ctx, span, h) ==
  /\ ctx.trace.form = "wire" => Extract(h).trace = ctx.trace
  /\ Extract(h).span = span
  /\ \A layer \in Layers : Received(layer, h).request = ctx.request

LEMMA CopiedReads ==
  ASSUME TypeOK, NEW a \in Actors, NEW ctx \in TraceContexts, NEW own, Copied(a, own)
  PROVE  Reads(a, ctx, NoSpan, own)
<1>1. own \in Headers /\ own.traceparent.trace \in Ids
  BY DEF Copied, Headers, Traceparents, Ids
<1>2. CASE Decides(own)
  <2>1. /\ Extract(own).trace = Lowered(own.traceparent.trace)
        /\ Extract(own).span = own.traceparent.span
    BY <1>1, <1>2, ExtractIs
  <2>2. own.traceparent # NoTraceparent
    BY <1>2, NoHeadersAre DEF Decides
  <2>3. Extract(own).trace.n = own.traceparent.trace.n
    BY <1>1, <2>1, LoweredIs
  <2> QED BY <2>1, <2>2, <2>3 DEF Copied, Reads
<1>3. CASE ~Decides(own)
  <2>1. Lowered(NoTrace) = NoTrace /\ ~IsValidTraceId(NoTrace)
    BY IdsAre DEF Lowered, IsValidTraceId
  <2>2. Extract(own).span = NoSpan /\ Extract(own).trace = NoTrace
    BY <1>1, <1>3, <2>1, ExtractIs DEF Copied
  <2> QED BY <2>2, IdsAre DEF Reads, NoSpan
<1> QED BY <1>2, <1>3

LEMMA InjectReads ==
  ASSUME TypeOK, NEW a \in Actors, NEW ctx \in TraceContexts, ctx.trace \in TraceIds,
         NEW span \in Nat, NEW own, Copied(a, own),
         NEW h, h = Inject(ctx, span, own, NewTrace)
  PROVE  /\ h \in Headers /\ Reads(a, ctx, span, h)
         /\ span # NoSpan \/ own.traceparent = NoTraceparent => Kept(ctx, span, h)
<1> DEFINE wire == NormalizeTraceId(ctx.trace, NewTrace)
<1>1. /\ h \in Headers /\ wire \in TraceIds
      /\ h.xAllstakTraceId = wire
      /\ h.traceparent = IF span = NoSpan THEN own.traceparent
                         ELSE [trace |-> wire, span |-> span, wellFormed |-> TRUE]
      /\ h.xRequestId = own.xRequestId
      /\ h.xAllstakRequestId =
           IF ctx.request # NoRequestId THEN ctx.request ELSE own.xAllstakRequestId
  BY InjectIs, NewTraceIs, IdsAre DEF Copied
<1>2. /\ wire.form = "wire" /\ Lowered(wire) = wire /\ IsValidTraceId(wire)
      /\ wire.n = IF ctx.trace.form = "junk" THEN traces + 1 ELSE ctx.trace.n
      /\ ctx.trace.form = "wire" => wire = ctx.trace
  <2>1. wire = IF ctx.trace.form = "junk" THEN NewTrace ELSE WireId(ctx.trace.n)
    BY DEF NormalizeTraceId
  <2>2. /\ wire.form = "wire"
        /\ wire.n = IF ctx.trace.form = "junk" THEN traces + 1 ELSE ctx.trace.n
        /\ ctx.trace.form = "wire" => wire = ctx.trace
    <3> HIDE DEF wire
    <3> QED BY <2>1, NewTraceIs, IdsAre
  <2> HIDE DEF wire
  <2> QED BY <2>2 DEF Lowered, IsValidTraceId
<1> HIDE DEF wire
<1>3. \A layer \in Layers : Received(layer, h).request = ctx.request
  <2>1. h.xRequestId = NoRequestId /\ h.xAllstakRequestId = ctx.request /\ ctx.request \in Nat
    BY <1>1, ContextsAre DEF Copied
  <2> QED BY <1>1, <2>1, ReceivedIs
<1>4. CASE span # NoSpan
  <2>1. h.traceparent.trace = wire /\ h.traceparent.span = span /\ h.traceparent.wellFormed
    BY <1>1, <1>4
  <2>2. Extract(h).trace = wire /\ Extract(h).span = span
    BY <1>1, <1>2, <2>1, ExtractIs DEF Decides
  <2> QED BY <1>1, <1>2, <1>3, <2>2 DEF Reads, Kept
<1>5. CASE span = NoSpan
  <2>1. h.traceparent = own.traceparent /\ (Decides(h) <=> Decides(own))
    BY <1>1, <1>5 DEF Decides
  <2>2. CASE Decides(h)
    <3>1. Extract(h).trace = Extract(own).trace /\ Extract(h).span = Extract(own).span
      BY <1>1, <2>1, <2>2, ExtractIs DEF Copied
    <3>2. own.traceparent # NoTraceparent
      BY <2>1, <2>2, NoHeadersAre DEF Decides
    <3> QED BY <1>1, <1>3, <1>5, <3>1, <3>2, CopiedReads DEF Reads
  <2>3. CASE ~Decides(h)
    <3>1. Extract(h).trace = wire /\ Extract(h).span = NoSpan
      BY <1>1, <1>2, <2>3, ExtractIs
    <3> QED BY <1>1, <1>2, <1>3, <1>5, <3>1 DEF Reads, Kept, NoSpan
  <2> QED BY <2>2, <2>3
<1> QED BY <1>4, <1>5

LEMMA StartCallIs ==
  ASSUME TypeOK, NEW a \in Actors, NEW with \in Settings, NEW forwards \in BOOLEAN,
         NEW hub \in Actors, StartCall(a, hub, with, forwards)
  PROVE  \E ctx \in TraceContexts, span \in {NoSpan, Len(spans) + 1}, h \in Headers,
            kept \in BOOLEAN :
           /\ call' = [call EXCEPT ![a] =
                [ctx |-> ctx, span |-> span, with |-> with, headers |-> h,
                 reached |-> FALSE, kept |-> kept]]
           /\ ctx.trace = ContinuedTrace(context[hub].trace)
           /\ ctx.span = context[hub].span
           /\ IF span = NoSpan THEN UNCHANGED spans
              ELSE spans' = Append(spans, NewSpan("client", a, ctx.trace, ctx.span))
           /\ Reads(a, ctx, span, h)
           /\ kept => Kept(ctx, span, h)
           /\ context[hub].trace = NoTrace \/ ctx.trace.form = "junk" => traces' = traces + 1
<1>1. PICK top \in TraceContexts : top = context[hub]
  BY ActorsAre DEF TypeOK
<1>2. PICK ctx \in TraceContexts :
        /\ ctx = [top EXCEPT !.trace = ContinuedTrace(top.trace)]
        /\ ctx.trace = ContinuedTrace(top.trace) /\ ctx.span = top.span
        /\ ctx.trace \in TraceIds
  <2>1. PICK trace \in TraceIds : trace = ContinuedTrace(top.trace)
    BY ContinuedIs, ContextsAre
  <2>2. /\ [top EXCEPT !.trace = trace] \in TraceContexts
        /\ [top EXCEPT !.trace = trace].trace = trace
        /\ [top EXCEPT !.trace = trace].span = top.span
    BY DEF TraceContexts
  <2> QED BY <2>1, <2>2
<1>3. Len(spans) \in Nat /\ with.span \in BOOLEAN /\ with.inject \in BOOLEAN
  BY SpansAre DEF Settings
<1>4. PICK span \in {NoSpan, Len(spans) + 1} :
        span = IF with.span THEN Len(spans) + 1 ELSE NoSpan
  OBVIOUS
<1>5. span \in Nat /\ (span = NoSpan <=> ~with.span)
  BY <1>3, <1>4 DEF NoSpan
<1>6. PICK own \in Headers :
        /\ own = IF forwards THEN [NoHeaders EXCEPT !.traceparent =
                   [trace |-> request[a].inbound.trace, span |-> request[a].inbound.span,
                    wellFormed |-> request[a].inbound.span # NoSpan]]
                 ELSE NoHeaders
        /\ Copied(a, own) /\ (~forwards => own.traceparent = NoTraceparent)
  <2>1. CASE forwards
    <3>1. a \in Requests
      BY <2>1, ActorsAre DEF StartCall
    <3> QED BY <2>1, <3>1, CopiedIs DEF Copied
  <2>2. CASE ~forwards
    BY <2>2, NoHeadersAre DEF Copied
  <2> QED BY <2>1, <2>2
<1>7. PICK h \in Headers :
        /\ h = IF with.inject THEN Inject(ctx, span, own, NewTrace) ELSE own
        /\ Reads(a, ctx, span, h)
        /\ with.inject /\ (span # NoSpan \/ own.traceparent = NoTraceparent) => Kept(ctx, span, h)
  <2>1. CASE with.inject
    <3>1. PICK h : h = Inject(ctx, span, own, NewTrace)
      OBVIOUS
    <3>2. /\ h \in Headers /\ Reads(a, ctx, span, h)
          /\ span # NoSpan \/ own.traceparent = NoTraceparent => Kept(ctx, span, h)
      <4>1. ctx.trace \in TraceIds /\ span \in Nat /\ Copied(a, own)
        BY <1>2, <1>5, <1>6
      <4> QED BY <3>1, <4>1, InjectReads
    <3> QED BY <2>1, <3>1, <3>2
  <2>2. CASE ~with.inject
    <3>1. Reads(a, ctx, NoSpan, own)
      BY <1>2, <1>6, CopiedReads
    <3>2. Extract(own).span \in Int
      BY ExtractIs, ContextsAre
    <3>3. Reads(a, ctx, span, own)
      BY <3>1, <3>2 DEF Reads, NoSpan
    <3> QED BY <1>6, <2>2, <3>3
  <2> QED BY <2>1, <2>2
<1>8. PICK kept \in BOOLEAN :
        kept = (with.inject /\ (with.span \/ ~forwards))
  OBVIOUS
<1>9. /\ call' = [call EXCEPT ![a] =
           [ctx |-> ctx, span |-> span, with |-> with, headers |-> h,
            reached |-> FALSE, kept |-> kept]]
      /\ spans' = IF with.span THEN Append(spans, NewSpan("client", a, ctx.trace, ctx.span))
                  ELSE spans
      /\ traces' = traces + (IF top.trace = NoTrace \/ ctx.trace.form = "junk" THEN 1 ELSE 0)
  <2>1. h = IF with.inject THEN Inject(ctx, span, own, NewTrace) ELSE own
    BY <1>7
  <2>2. own = IF forwards THEN [NoHeaders EXCEPT !.traceparent =
                [trace |-> request[a].inbound.trace, span |-> request[a].inbound.span,
                 wellFormed |-> request[a].inbound.span # NoSpan]]
              ELSE NoHeaders
    BY <1>6
  <2>3. ctx = [top EXCEPT !.trace = ContinuedTrace(top.trace)]
    BY <1>2
  <2> QED BY <1>1, <1>4, <1>8, <2>1, <2>2, <2>3 DEF StartCall
<1>10. kept => Kept(ctx, span, h)
  BY <1>5, <1>6, <1>7, <1>8
<1> QED BY <1>1, <1>2, <1>5, <1>7, <1>9, <1>10

-----------------------------------------------------------------------------
(* Type correctness *)

Served(n) == [phase : Phases, layer : Layers, inbound : TraceContexts, span : 0..n]

LEMMA RecordsAre ==
  /\ NoRecord \in [kind : {"none", "inbound", "outbound", "db"}, by : Actors, trace : Ids, span : Int]
  /\ NoCall \in Call /\ NoCall.span = NoSpan /\ NoCall.with = None /\ NoCall.kept = FALSE
  /\ NoCall.ctx = NoContext /\ NoCall.headers = NoHeaders
  /\ \A r \in Requests : /\ NotCalled(r) \in [root : Actors, ctx : TraceContexts, span : Nat,
                                              kept : BOOLEAN]
                         /\ NotCalled(r).root = r /\ NotCalled(r).kept = FALSE
  /\ \A n \in Nat : NoRequest \in Served(n)
  /\ NoRequest.phase = "none" /\ NoRequest.layer = "actix" /\ NoRequest.inbound = NoContext
  /\ NoRequest.span = NoSpan
<1>1. NoRecord \in [kind : {"none", "inbound", "outbound", "db"}, by : Actors, trace : Ids, span : Int]
  BY ActorsAre, IdsAre DEF NoRecord, NoSpan
<1>2. /\ NoCall \in Call /\ NoCall.span = NoSpan /\ NoCall.with = None /\ NoCall.kept = FALSE
      /\ NoCall.ctx = NoContext /\ NoCall.headers = NoHeaders
  BY ContextsAre, NoHeadersAre DEF NoCall, Call, NoSpan
<1>3. ASSUME NEW r \in Requests
      PROVE  /\ NotCalled(r) \in [root : Actors, ctx : TraceContexts, span : Nat, kept : BOOLEAN]
             /\ NotCalled(r).root = r /\ NotCalled(r).kept = FALSE
  BY ActorsAre, ContextsAre DEF NotCalled, NoSpan
<1>4. ASSUME NEW n \in Nat PROVE NoRequest \in Served(n)
  BY ContextsAre DEF NoRequest, Served, Phases, Layers, NoSpan
<1>5. /\ NoRequest.phase = "none" /\ NoRequest.layer = "actix" /\ NoRequest.inbound = NoContext
      /\ NoRequest.span = NoSpan
  BY DEF NoRequest
<1> QED BY <1>1, <1>2, <1>3, <1>4, <1>5

(* TypeOK in the parts that the steps change *)
TypeSpans == spans \in Seq(Span) /\ Len(spans) <= MaxSpans
TypeRequests ==
  /\ context \in [Actors -> TraceContexts]
  /\ request \in [Requests -> Served(Len(spans))]
  /\ via \in [Requests -> [root : Actors, ctx : TraceContexts, span : Nat, kept : BOOLEAN]]
TypeCalls == call \in [Actors -> Call] /\ \A a \in Actors : call[a].span <= Len(spans)
TypeRecord ==
  record \in [kind : {"none", "inbound", "outbound", "db"}, by : Actors, trace : Ids, span : Int]
TypeBounds ==
  /\ traces \in 0..MaxTraces /\ published \in 0..MaxPublished
  /\ shared \in SUBSET Nat /\ mixed \in SUBSET Nat

LEMMA TypeParts ==
  TypeOK <=> TypeSpans /\ TypeRequests /\ TypeCalls /\ TypeRecord /\ TypeBounds
BY ActorsAre DEF TypeOK, TypeSpans, TypeRequests, TypeCalls, TypeRecord, TypeBounds, Served, Ids

LEMMA TypePartsNext ==
  TypeSpans' /\ TypeRequests' /\ TypeCalls' /\ TypeRecord' /\ TypeBounds' => TypeOK'
BY ActorsAre DEF TypeOK, TypeSpans, TypeRequests, TypeCalls, TypeRecord, TypeBounds, Served, Ids

LEMMA NoneSentTypes == NoneSent => TypeRecord'
BY RecordsAre DEF NoneSent, TypeRecord

(* Spans only ever get more *)
LEMMA LongerTypes ==
  ASSUME TypeOK, Len(spans') \in {Len(spans), Len(spans) + 1}
  PROVE  /\ UNCHANGED <<context, request, via>> => TypeRequests'
         /\ UNCHANGED call => TypeCalls'
         /\ \A r \in Requests : request[r] \in Served(Len(spans'))
<1>1. Len(spans) \in Nat /\ request \in [Requests -> Served(Len(spans))]
  BY SpansAre, TypeParts DEF TypeRequests
<1>2. Len(spans') \in Nat /\ Len(spans) <= Len(spans')
  BY <1>1
<1>3. Served(Len(spans)) \subseteq Served(Len(spans'))
  BY <1>1, <1>2 DEF Served
<1>4. request \in [Requests -> Served(Len(spans'))]
  BY <1>1, <1>3
<1>5. UNCHANGED <<context, request, via>> => TypeRequests'
  BY <1>4, TypeParts DEF TypeRequests
<1>6. UNCHANGED call => TypeCalls'
  <2>1. \A a \in Actors : call[a].span \in Nat /\ call[a].span <= Len(spans)
    BY TypeParts DEF TypeCalls, Call
  <2>2. \A a \in Actors : call[a].span <= Len(spans')
    BY <1>1, <1>2, <2>1
  <2> QED BY <2>2, TypeParts DEF TypeCalls
<1> QED BY <1>4, <1>5, <1>6

LEMMA SpansType ==
  ASSUME TypeOK, Len(spans) < MaxSpans, NEW sp \in Span, spans' = Append(spans, sp)
  PROVE  TypeSpans' /\ Len(spans') = Len(spans) + 1
<1>1. spans' \in Seq(Span) /\ Len(spans') = Len(spans) + 1 /\ Len(spans) \in Nat
  BY Appended
<1> QED BY <1>1 DEF TypeSpans, TracingAssumption

LEMMA ClosedType ==
  ASSUME TypeOK, NEW ss, Closed(ss) PROVE TypeSpans' /\ Len(spans') = Len(spans)
BY TypeParts DEF Closed, TypeSpans

LEMMA MixesAre ==
  ASSUME TypeOK, NEW ctx
  PROVE  /\ Mixes(ctx) \in SUBSET Nat
         /\ \A s : s \in Mixes(ctx) <=> /\ s = ctx.span /\ s \in DOMAIN spans
                                        /\ spans[s].trace # ctx.trace
BY SpansAre DEF Mixes

LEMMA ServeTypes ==
  ASSUME TypeOK, NEW r \in Requests, NEW layer \in Layers, NEW h \in Headers, NEW hub \in Actors,
         Len(spans) < MaxSpans, Serve(r, layer, h, hub),
         \/ UNCHANGED via
         \/ \E v \in [root : Actors, ctx : TraceContexts, span : Nat, kept : BOOLEAN] :
              via' = [via EXCEPT ![r] = v]
  PROVE  /\ TypeSpans' /\ TypeRequests' /\ Len(spans') \in {Len(spans), Len(spans) + 1}
         /\ mixed' \in SUBSET Nat
<1>1. PICK id \in {NoSpan, Len(spans) + 1}, c \in TraceContexts :
        /\ request' = [request EXCEPT ![r] = [phase |-> "made", layer |-> layer,
                                              inbound |-> Received(layer, h), span |-> id]]
        /\ context' = [context EXCEPT ![r] = c]
        /\ IF layer = "axum"
           THEN /\ id = Len(spans) + 1 /\ c.trace = ContinuedTrace(Extract(h).trace)
                /\ spans' = Append(spans, NewSpan("server", r, c.trace, Extract(h).span))
           ELSE id = NoSpan /\ UNCHANGED spans
        /\ mixed' = IF layer = "axum_no_span" THEN mixed \cup Mixes(c) ELSE mixed
  BY ServeIs
<1>2. PICK inbound \in TraceContexts :
        /\ inbound = Received(layer, h)
        /\ inbound.trace = Extract(h).trace /\ inbound.span = Extract(h).span
  BY ReceivedIs
<1>3. TypeSpans' /\ Len(spans') \in {Len(spans), Len(spans) + 1} /\ id \in 0..Len(spans')
  <2>1. CASE layer = "axum"
    <3>1. c.trace \in TraceIds /\ inbound.span \in Int
      BY <1>1, <1>2, <2>1, ContinuedIs, ContextsAre
    <3>2. NewSpan("server", r, c.trace, inbound.span) \in Span
      BY <3>1, ActorsAre DEF NewSpan, Span
    <3>3. TypeSpans' /\ Len(spans') = Len(spans) + 1
      BY <1>1, <1>2, <2>1, <3>2, SpansType
    <3> QED BY <1>1, <2>1, <3>3, SpansAre
  <2>2. CASE layer # "axum"
    <3>1. UNCHANGED spans /\ id = 0 /\ Len(spans) \in Nat /\ TypeSpans
      BY <1>1, <2>2, TypeParts, SpansAre DEF NoSpan
    <3> QED BY <3>1 DEF TypeSpans
  <2> QED BY <2>1, <2>2
<1>4. [phase |-> "made", layer |-> layer, inbound |-> inbound, span |-> id] \in Served(Len(spans'))
  BY <1>3 DEF Served, Phases
<1>5. request' \in [Requests -> Served(Len(spans'))]
  <2>1. \A q \in Requests : request[q] \in Served(Len(spans'))
    BY <1>3, LongerTypes
  <2>2. request \in [Requests -> Served(Len(spans))]
    BY TypeParts DEF TypeRequests
  <2>3. PICK new \in Served(Len(spans')) :
          new = [phase |-> "made", layer |-> layer, inbound |-> inbound, span |-> id]
    BY <1>4
  <2>4. request' = [request EXCEPT ![r] = new]
    BY <1>1, <1>2, <2>3
  <2> QED BY <2>1, <2>2, <2>4
<1>6. context' \in [Actors -> TraceContexts]
  BY <1>1, TypeParts DEF TypeRequests
<1>7. via' \in [Requests -> [root : Actors, ctx : TraceContexts, span : Nat, kept : BOOLEAN]]
  <2>1. via \in [Requests -> [root : Actors, ctx : TraceContexts, span : Nat, kept : BOOLEAN]]
    BY TypeParts DEF TypeRequests
  <2> QED BY <2>1
<1>8. mixed' \in SUBSET Nat
  BY <1>1, TypeParts, MixesAre DEF TypeBounds
<1> QED BY <1>3, <1>5, <1>6, <1>7, <1>8 DEF TypeRequests

(* What callers outside send has a trace of their own, and no span of ours *)
LEMMA ExternalAre ==
  ASSUME TypeOK, NEW h \in ExternalHeaders
  PROVE  h \in Headers /\ Extract(h).trace.n \in {0, traces + 1} /\ Extract(h).span \in {0, -1}
<1>1. PICK n \in Nat \ {0} : n = traces + 1
  BY NewTraceIs
<1>2. PICK cased \in TraceIds, loose \in TraceIds, wire \in TraceIds :
        /\ cased = [n |-> n, form |-> "cased"] /\ loose = [n |-> n, form |-> "loose"]
        /\ wire = [n |-> n, form |-> "wire"]
        /\ cased.n = n /\ loose.n = n /\ wire.n = n
  <2>1. \A form \in {"wire", "cased", "loose", "junk"} :
          [n |-> n, form |-> form] \in TraceIds /\ [n |-> n, form |-> form].n = n
    BY DEF TraceIds
  <2> QED BY <2>1
<1>3. PICK one \in Traceparents, two \in Traceparents, three \in Traceparents :
        /\ one = [trace |-> cased, span |-> -1, wellFormed |-> TRUE]
        /\ two = [trace |-> loose, span |-> -1, wellFormed |-> TRUE]
        /\ three = [trace |-> wire, span |-> -1, wellFormed |-> FALSE]
        /\ one.trace = cased /\ two.trace = loose /\ three.trace = wire
        /\ one.span = -1 /\ two.span = -1 /\ three.span = -1
  <2>1. \A id \in TraceIds : \A ok \in BOOLEAN :
          LET tp == [trace |-> id, span |-> -1, wellFormed |-> ok]
          IN  tp \in Traceparents /\ tp.trace = id /\ tp.span = -1
    BY DEF Traceparents
  <2>2. PICK one \in Traceparents :
          one = [trace |-> cased, span |-> -1, wellFormed |-> TRUE] /\ one.trace = cased /\ one.span = -1
    BY <2>1
  <2>3. PICK two \in Traceparents :
          two = [trace |-> loose, span |-> -1, wellFormed |-> TRUE] /\ two.trace = loose /\ two.span = -1
    BY <2>1
  <2>4. PICK three \in Traceparents :
          three = [trace |-> wire, span |-> -1, wellFormed |-> FALSE] /\ three.trace = wire /\ three.span = -1
    BY <2>1
  <2> QED BY <2>2, <2>3, <2>4
<1>4. PICK none \in Headers : none = NoHeaders
  BY NoHeadersAre
<1>5. h \in { [none EXCEPT !.traceparent = one, !.xRequestId = 1],
              [none EXCEPT !.traceparent = two, !.xTraceId = wire],
              [none EXCEPT !.traceparent = three, !.xRequestId = Blank, !.xAllstakRequestId = 1] }
  BY <1>1, <1>2, <1>3, <1>4 DEF ExternalHeaders
<1>6. /\ h \in Headers /\ h.traceparent \in {one, two, three}
      /\ h.xAllstakTraceId = NoTrace /\ h.xTraceId \in {NoTrace, wire}
  <2>1. CASE h = [none EXCEPT !.traceparent = one, !.xRequestId = 1]
    <3>1. /\ h \in Headers /\ h.traceparent = one /\ h.xAllstakTraceId = none.xAllstakTraceId
          /\ h.xTraceId = none.xTraceId
      <4>1. PICK i \in RequestIds : i = 1
        BY DEF RequestIds
      <4>2. h = [none EXCEPT !.traceparent = one, !.xRequestId = i]
        BY <2>1, <4>1
      <4> QED BY <4>2 DEF Headers
    <3> QED BY <1>4, <3>1, NoHeadersAre
  <2>2. CASE h = [none EXCEPT !.traceparent = two, !.xTraceId = wire]
    <3>1. /\ h \in Headers /\ h.traceparent = two /\ h.xAllstakTraceId = none.xAllstakTraceId
          /\ h.xTraceId = wire
      BY <2>2 DEF Headers
    <3> QED BY <1>4, <3>1, NoHeadersAre
  <2>3. CASE h = [none EXCEPT !.traceparent = three, !.xRequestId = Blank, !.xAllstakRequestId = 1]
    <3>1. /\ h \in Headers /\ h.traceparent = three /\ h.xAllstakTraceId = none.xAllstakTraceId
          /\ h.xTraceId = none.xTraceId
      <4>1. PICK i \in RequestIds, j \in RequestIds : i = Blank /\ j = 1
        BY DEF RequestIds
      <4>2. h = [none EXCEPT !.traceparent = three, !.xRequestId = i, !.xAllstakRequestId = j]
        BY <2>3, <4>1
      <4> QED BY <4>2 DEF Headers
    <3> QED BY <1>4, <3>1, NoHeadersAre
  <2> QED BY <1>5, <2>1, <2>2, <2>3
<1>7. h.traceparent.trace.n = n /\ h.traceparent.span = -1 /\ h.traceparent.trace \in Ids
  BY <1>2, <1>3, <1>6 DEF Ids
<1>8. CASE Decides(h)
  <2>1. Extract(h).trace.n = n /\ Extract(h).span = -1
    BY <1>6, <1>7, <1>8, ExtractIs, LoweredIs
  <2> QED BY <1>1, <1>6, <2>1
<1>9. CASE ~Decides(h)
  <2>1. /\ Lowered(wire).n = n /\ Lowered(NoTrace).n = 0
        /\ NoTrace \in Ids /\ wire \in Ids /\ NoTrace.n = 0
    BY <1>2, LoweredIs, IdsAre
  <2>2. Extract(h).trace \in {Lowered(wire), Lowered(NoTrace), NoTrace} /\ Extract(h).span = 0
    BY <1>6, <1>9, ExtractIs DEF NoSpan
  <2> QED BY <1>1, <1>6, <2>1, <2>2
<1> QED BY <1>8, <1>9

LEMMA EndRequestTypes ==
  ASSUME TypeOK, NEW r \in Requests, NEW phase \in {"done", "left"}, EndRequest(r, phase),
         Len(spans') = Len(spans)
  PROVE  TypeRequests' /\ TypeBounds'
<1>1. PICK q \in Served(Len(spans)) : q = request[r]
  BY TypeParts DEF TypeRequests
<1>2. PICK v \in [root : Actors, ctx : TraceContexts, span : Nat, kept : BOOLEAN] : v = via[r]
  BY TypeParts DEF TypeRequests
<1>3. [q EXCEPT !.phase = phase, !.inbound = NoContext] \in Served(Len(spans))
  BY ContextsAre DEF Served, Phases
<1>4. [NotCalled(r) EXCEPT !.root = v.root]
        \in [root : Actors, ctx : TraceContexts, span : Nat, kept : BOOLEAN]
  <2>1. PICK w \in [root : Actors, ctx : TraceContexts, span : Nat, kept : BOOLEAN] :
          w = NotCalled(r)
    BY RecordsAre
  <2>2. [w EXCEPT !.root = v.root] \in [root : Actors, ctx : TraceContexts, span : Nat, kept : BOOLEAN]
    OBVIOUS
  <2> QED BY <2>1, <2>2
<1>5. /\ request' = [request EXCEPT ![r] = [q EXCEPT !.phase = phase, !.inbound = NoContext]]
      /\ context' = IF phase = "left" THEN context ELSE [context EXCEPT ![r] = NoContext]
      /\ via' = [via EXCEPT ![r] = [NotCalled(r) EXCEPT !.root = v.root]]
  BY <1>1, <1>2 DEF EndRequest
<1>6. request' \in [Requests -> Served(Len(spans))]
  <2>1. PICK new \in Served(Len(spans)) : new = [q EXCEPT !.phase = phase, !.inbound = NoContext]
    BY <1>3
  <2> QED BY <1>5, <2>1, TypeParts DEF TypeRequests
<1>7. via' \in [Requests -> [root : Actors, ctx : TraceContexts, span : Nat, kept : BOOLEAN]]
  <2>1. PICK new \in [root : Actors, ctx : TraceContexts, span : Nat, kept : BOOLEAN] :
          new = [NotCalled(r) EXCEPT !.root = v.root]
    BY <1>4
  <2> QED BY <1>5, <2>1, TypeParts DEF TypeRequests
<1>8. context' \in [Actors -> TraceContexts]
  BY <1>5, ContextsAre, TypeParts DEF TypeRequests
<1>9. TypeBounds'
  <2>1. PICK n \in Nat : n = context[r].trace.n
    BY ActorsAre, ContextsAre, IdsAre, TypeParts DEF TypeRequests
  <2> QED BY <2>1, TypeParts DEF EndRequest, TypeBounds
<1> QED BY <1>6, <1>7, <1>8, <1>9 DEF TypeRequests

(* What a request's layer does, and what code of the application *)
RequestSteps(r) ==
  \/ \E layer \in LayersOf[r], hub \in Ambient :
       \/ \E h \in ExternalHeaders : ServeExternal(r, layer, h, hub)
       \/ \E a \in Actors \ {r} : ServeCall(r, layer, a, hub)
  \/ RunCall(r) \/ RunCallEnd(r) \/ Respond(r) \/ CancelRequest(r) \/ PanicInRun(r)
HubSteps(a, hub) ==
  \/ SetIds(a, hub) \/ Query(a, hub)
  \/ \E form \in {"loose", "junk"} : SetOwnId(a, hub, form)
  \/ \E with \in SettingsOf[a], forwards \in BOOLEAN : StartCall(a, hub, with, forwards)
ActorSteps(a) ==
  \/ StartTransaction(a) \/ EndCall(a) \/ CancelCall(a)
  \/ \E s \in DOMAIN spans : StartChild(a, s)
  \/ \E hub \in CurrentHubs(a) : HubSteps(a, hub)

(* What the application puts on a scope: of each id the one that is there,   *)
(* none, that of a span of its own or one it made.                           *)
OwnSpan(a, s) == s \in DOMAIN spans /\ spans[s].kind = "app" /\ spans[s].by = a

LEMMA PublishesIs ==
  ASSUME TypeOK, NEW a \in Actors, NEW hub \in Actors,
         SetIds(a, hub) \/ \E form \in {"loose", "junk"} : SetOwnId(a, hub, form)
  PROVE  \E trace \in Ids, span \in Int :
           /\ Publish(a, hub, trace, span) /\ traces' \in {traces, traces + 1} /\ traces' <= MaxTraces
           /\ \/ trace \in {context[hub].trace, NoTrace}
              \/ \E s : OwnSpan(a, s) /\ trace = spans[s].trace
              \/ trace.n = traces + 1 /\ traces' = traces + 1
           /\ span \in {context[hub].span, NoSpan} \/ OwnSpan(a, span)
<1>0. /\ context[hub].trace \in Ids /\ context[hub].span \in Int /\ NoTrace \in Ids /\ NoSpan \in Int
      /\ traces \in Nat /\ traces <= MaxTraces /\ MaxTraces \in Nat
  BY ActorsAre, ContextsAre, IdsAre DEF TypeOK, NoSpan, TracingAssumption
<1>1. \A s : OwnSpan(a, s) => s \in Int /\ spans[s].trace \in Ids
  BY SpansAre DEF OwnSpan, Span, Ids
<1>2. CASE SetIds(a, hub)
  <2>1. PICK trace \in {context[hub].trace, NoTrace} \cup {spans[s].trace : s \in {u \in DOMAIN spans : OwnSpan(a, u)}},
             span \in {context[hub].span, NoSpan} \cup {u \in DOMAIN spans : OwnSpan(a, u)} :
          Publish(a, hub, trace, span) /\ UNCHANGED traces
    BY <1>2 DEF SetIds, OwnSpan
  <2>2. trace \in Ids /\ span \in Int
    BY <1>0, <1>1, <2>1
  <2>3. trace \in {context[hub].trace, NoTrace} \/ \E s : OwnSpan(a, s) /\ trace = spans[s].trace
    BY <2>1
  <2> QED BY <1>0, <2>1, <2>2, <2>3
<1>3. ASSUME NEW form \in {"loose", "junk"}, SetOwnId(a, hub, form)
      PROVE  \E trace \in Ids, span \in Int :
               /\ Publish(a, hub, trace, span) /\ traces' = traces + 1 /\ traces' <= MaxTraces
               /\ trace.n = traces + 1 /\ span \in {context[hub].span, NoSpan}
  <2>1. PICK trace \in Ids : trace = [n |-> traces + 1, form |-> form] /\ trace.n = traces + 1
    <3>1. [n |-> traces + 1, form |-> form] \in TraceIds
      BY <1>0 DEF TraceIds
    <3> QED BY <3>1 DEF Ids
  <2>2. /\ traces < MaxTraces /\ traces' = traces + 1
        /\ \E span \in {context[hub].span, NoSpan} : Publish(a, hub, trace, span)
    BY <1>3, <2>1 DEF SetOwnId
  <2> QED BY <1>0, <2>1, <2>2
<1> QED BY <1>2, <1>3

LEMMA NextIs ==
  Next <=> \/ \E r \in Requests : RequestSteps(r)
           \/ \E a \in Actors : ActorSteps(a)
           \/ \E s \in DOMAIN spans : EndSpan(s)
BY DEF Next, RequestSteps, ActorSteps, HubSteps

LEMMA TypeRequest ==
  ASSUME TypeOK, NEW r \in Requests, RequestSteps(r)
  PROVE  TypeOK'
<1>0. /\ TypeSpans /\ TypeRequests /\ TypeCalls /\ TypeRecord /\ TypeBounds
      /\ LayersOf[r] \subseteq Layers /\ MaxTraces \in Nat /\ traces \in Nat
  BY TypeParts, NewTraceIs DEF TracingAssumption
<1>1. ASSUME NEW layer \in Layers, NEW hub \in Actors, NEW h \in ExternalHeaders,
             ServeExternal(r, layer, h, hub)
      PROVE  TypeOK'
  <2>1. h \in Headers
    BY ExternalAre
  <2>2. /\ Serve(r, layer, h, hub) /\ Len(spans) < MaxSpans /\ traces < MaxTraces /\ traces' = traces + 1
        /\ NoneSent /\ UNCHANGED <<call, via, shared, published>>
    BY <1>1 DEF ServeExternal, history
  <2>3. /\ TypeSpans' /\ TypeRequests' /\ Len(spans') \in {Len(spans), Len(spans) + 1}
        /\ mixed' \in SUBSET Nat
    BY <2>1, <2>2, ServeTypes
  <2>4. TypeCalls' /\ TypeRecord'
    BY <2>2, <2>3, LongerTypes, NoneSentTypes
  <2>5. TypeBounds'
    BY <1>0, <2>2, <2>3 DEF TypeBounds
  <2> QED BY <2>3, <2>4, <2>5, TypePartsNext
<1>2. ASSUME NEW layer \in Layers, NEW hub \in Actors, NEW a \in Actors, ServeCall(r, layer, a, hub)
      PROVE  TypeOK'
  <2>1. PICK c \in Call : c = call[a]
    BY <1>0 DEF TypeCalls
  <2>2. /\ c.headers \in Headers /\ c.ctx \in TraceContexts /\ c.span \in Nat
        /\ c.kept \in BOOLEAN
    BY DEF Call
  <2>3. Root(a) \in Actors
    BY <1>0, ActorsAre DEF Root, TypeRequests
  <2>4. /\ Serve(r, layer, c.headers, hub) /\ Len(spans) < MaxSpans
        /\ traces' \in {traces, traces + 1} /\ traces' <= MaxTraces
        /\ call' = [call EXCEPT ![a] = [c EXCEPT !.reached = TRUE]]
        /\ via' = [via EXCEPT ![r] = [root |-> Root(a), ctx |-> c.ctx, span |-> c.span,
                                      kept |-> c.kept]]
        /\ NoneSent /\ UNCHANGED <<shared, published>>
    BY <1>2, <2>1 DEF ServeCall
  <2>5. PICK v \in [root : Actors, ctx : TraceContexts, span : Nat, kept : BOOLEAN] :
          v = [root |-> Root(a), ctx |-> c.ctx, span |-> c.span, kept |-> c.kept]
    BY <2>2, <2>3
  <2>6. /\ TypeSpans' /\ TypeRequests' /\ Len(spans') \in {Len(spans), Len(spans) + 1}
        /\ mixed' \in SUBSET Nat
    BY <2>2, <2>4, <2>5, ServeTypes
  <2>7. TypeCalls'
    <3>1. TypeCalls /\ (UNCHANGED call => TypeCalls') /\ Len(spans) \in Nat
      BY <1>0, <2>6, LongerTypes, SpansAre
    <3>2. PICK d \in Call : d = [c EXCEPT !.reached = TRUE] /\ d.span = c.span
      <4>1. [c EXCEPT !.reached = TRUE] \in Call /\ [c EXCEPT !.reached = TRUE].span = c.span
        BY DEF Call
      <4> QED BY <4>1
    <3>3. call' = [call EXCEPT ![a] = d] /\ call' \in [Actors -> Call]
      BY <2>4, <3>1, <3>2 DEF TypeCalls
    <3>4. \A b \in Actors : call'[b].span = call[b].span /\ call[b].span \in Nat
      BY <2>1, <3>1, <3>2, <3>3 DEF TypeCalls, Call
    <3>5. \A b \in Actors : call[b].span <= Len(spans')
      BY <2>6, <3>1, <3>4 DEF TypeCalls
    <3> QED BY <3>3, <3>4, <3>5 DEF TypeCalls
  <2>8. TypeBounds' /\ TypeRecord'
    BY <1>0, <2>4, <2>6, NoneSentTypes DEF TypeBounds
  <2> QED BY <2>6, <2>7, <2>8, TypePartsNext
<1>3. CASE RunCall(r) \/ RunCallEnd(r)
  <2>1. PICK q \in Served(Len(spans)) : q = request[r]
    BY <1>0 DEF TypeRequests
  <2>2. /\ UNCHANGED <<context, call, spans, traces, via, shared, mixed, published>> /\ NoneSent
        /\ \E phase \in {"poll", "call"} : request' = [request EXCEPT ![r] = [q EXCEPT !.phase = phase]]
    BY <1>3, <2>1 DEF RunCall, RunCallEnd, history
  <2>3. PICK p \in Served(Len(spans)) : request' = [request EXCEPT ![r] = p]
    <3>1. \A phase \in {"poll", "call"} : [q EXCEPT !.phase = phase] \in Served(Len(spans))
      BY DEF Served, Phases
    <3> QED BY <2>2, <3>1
  <2>4. TypeRequests'
    <3>1. request' \in [Requests -> Served(Len(spans))]
      BY <1>0, <2>3 DEF TypeRequests
    <3> QED BY <1>0, <2>2, <3>1 DEF TypeRequests
  <2>5. TypeSpans' /\ TypeCalls' /\ TypeBounds'
    BY <1>0, <2>2 DEF TypeSpans, TypeCalls, TypeBounds
  <2> QED BY <2>2, <2>4, <2>5, NoneSentTypes, TypePartsNext
<1>4. CASE Respond(r)
  <2>1. TypeSpans' /\ Len(spans') = Len(spans)
    BY <1>4, FinishCloses, ClosedType DEF Respond
  <2>2. TypeRequests' /\ TypeBounds'
    BY <1>4, <2>1, EndRequestTypes DEF Respond
  <2>3. TypeCalls'
    BY <1>0, <1>4, <2>1 DEF Respond, TypeCalls
  <2>4. TypeRecord'
    <3>1. request[r].inbound.trace \in Ids /\ request[r].span \in Int
      BY <1>0, ContextsAre DEF TypeRequests, Served
    <3> QED BY <1>4, <3>1, ActorsAre DEF Respond, TypeRecord
  <2> QED BY <2>1, <2>2, <2>3, <2>4, TypePartsNext
<1>5. ASSUME NEW phase \in {"done", "left"}, DropRequest(r, phase) PROVE TypeOK'
  <2>1. TypeSpans' /\ Len(spans') = Len(spans)
    BY <1>5, DropCloses, ClosedType DEF DropRequest
  <2>2. TypeRequests' /\ TypeBounds'
    BY <1>5, <2>1, EndRequestTypes DEF DropRequest
  <2>3. TypeCalls'
    <3>1. call' = [call EXCEPT ![r] = NoCall] /\ Len(spans) \in Nat
      BY <1>5, SpansAre DEF DropRequest
    <3>2. call' \in [Actors -> Call]
      BY <1>0, <3>1, RecordsAre DEF TypeCalls
    <3>3. \A a \in Actors : call'[a].span <= Len(spans)
      BY <1>0, <3>1, RecordsAre DEF TypeCalls, NoSpan
    <3> QED BY <2>1, <3>2, <3>3 DEF TypeCalls
  <2>4. TypeRecord'
    BY <1>5, NoneSentTypes DEF DropRequest
  <2> QED BY <2>1, <2>2, <2>3, <2>4, TypePartsNext
<1> QED BY <1>0, <1>1, <1>2, <1>3, <1>4, <1>5, ActorsAre DEF RequestSteps, CancelRequest, PanicInRun

LEMMA TypeActor ==
  ASSUME TypeOK, NEW a \in Actors, ActorSteps(a)
  PROVE  TypeOK'
<1>0. /\ TypeSpans /\ TypeRequests /\ TypeCalls /\ TypeRecord /\ TypeBounds
      /\ SettingsOf[a] \subseteq Settings /\ traces \in Nat /\ Len(spans) \in Nat
  BY TypeParts, NewTraceIs, SpansAre DEF TracingAssumption, Actors
<1>1. ASSUME NEW sp \in Span, spans' = Append(spans, sp), Len(spans) < MaxSpans,
             UNCHANGED <<context, request, via, call>>, NoneSent, TypeBounds'
      PROVE  TypeOK'
  <2>1. TypeSpans' /\ Len(spans') = Len(spans) + 1
    BY <1>1, SpansType
  <2>2. TypeRequests' /\ TypeCalls' /\ TypeRecord'
    BY <1>1, <2>1, LongerTypes, NoneSentTypes
  <2> QED BY <1>1, <2>1, <2>2, TypePartsNext
<1>2. CASE StartTransaction(a)
  <2>1. transaction(a) \in Span
    <3>1. NoSpan \in Int /\ NewTrace \in TraceIds
      BY NewTraceIs DEF NoSpan
    <3>2. NewSpan("app", a, NewTrace, NoSpan) \in Span
      BY <3>1 DEF NewSpan, Span
    <3> QED BY <3>2 DEF transaction
  <2>2. TypeBounds'
    BY <1>0, <1>2 DEF StartTransaction, TypeBounds, history, TracingAssumption
  <2> QED BY <1>1, <1>2, <2>1, <2>2 DEF StartTransaction, history
<1>3. ASSUME NEW s \in DOMAIN spans, StartChild(a, s) PROVE TypeOK'
  <2>1. spans[s].trace \in TraceIds /\ s \in Int
    BY SpansAre DEF Span
  <2>2. NewSpan("app", a, spans[s].trace, s) \in Span
    BY <2>1 DEF NewSpan, Span
  <2>3. TypeBounds'
    BY <1>0, <1>3 DEF StartChild, TypeBounds, history
  <2> QED BY <1>1, <1>3, <2>2, <2>3 DEF StartChild, history
<1>4. ASSUME NEW hub \in Actors, NEW trace \in Ids, NEW span \in Int,
             Publish(a, hub, trace, span), traces' \in 0..MaxTraces
      PROVE  TypeOK'
  <2>1. PICK c \in TraceContexts : c = context[hub]
    BY <1>0 DEF TypeRequests
  <2>2. /\ context' = [context EXCEPT ![hub].trace = trace, ![hub].span = span]
        /\ published' = published + 1 /\ published < MaxPublished
        /\ shared' \in {shared, shared \cup ({trace.n} \ {0})}
        /\ mixed' = mixed \cup Mixes([trace |-> trace, span |-> span])
        /\ UNCHANGED <<request, call, spans, via>> /\ NoneSent
    BY <1>4 DEF Publish
  <2>3. PICK new \in TraceContexts : new = [c EXCEPT !.trace = trace, !.span = span]
    BY DEF TraceContexts, Ids
  <2>4. context' = [context EXCEPT ![hub] = new]
    BY <1>0, <2>1, <2>2, <2>3 DEF TypeRequests
  <2>5. TypeRequests'
    <3>1. context' \in [Actors -> TraceContexts]
      BY <1>0, <2>4 DEF TypeRequests
    <3> QED BY <1>0, <2>2, <3>1 DEF TypeRequests
  <2>6. TypeSpans' /\ TypeCalls' /\ TypeRecord'
    BY <1>0, <2>2, NoneSentTypes DEF TypeSpans, TypeCalls
  <2>7. TypeBounds'
    <3>1. trace.n \in Nat /\ Mixes([trace |-> trace, span |-> span]) \in SUBSET Nat
      BY IdsAre, MixesAre
    <3> QED BY <1>0, <1>4, <2>2, <3>1 DEF TypeBounds, TracingAssumption
  <2> QED BY <2>5, <2>6, <2>7, TypePartsNext
<1>5. ASSUME NEW hub \in Actors,
             SetIds(a, hub) \/ \E form \in {"loose", "junk"} : SetOwnId(a, hub, form)
      PROVE  TypeOK'
  <2>1. PICK trace \in Ids, span \in Int :
          Publish(a, hub, trace, span) /\ traces' \in {traces, traces + 1} /\ traces' <= MaxTraces
    BY <1>5, PublishesIs
  <2>2. traces' \in 0..MaxTraces
    BY <1>0, <2>1 DEF TracingAssumption
  <2> QED BY <1>4, <2>1, <2>2
<1>7. ASSUME NEW hub \in Actors, NEW with \in Settings, NEW forwards \in BOOLEAN,
             StartCall(a, hub, with, forwards)
      PROVE  TypeOK'
  <2>1. PICK ctx \in TraceContexts, span \in {NoSpan, Len(spans) + 1}, h \in Headers,
             kept \in BOOLEAN :
          /\ call' = [call EXCEPT ![a] =
               [ctx |-> ctx, span |-> span, with |-> with, headers |-> h,
                reached |-> FALSE, kept |-> kept]]
          /\ ctx.trace = ContinuedTrace(context[hub].trace)
          /\ IF span = NoSpan THEN UNCHANGED spans
             ELSE spans' = Append(spans, NewSpan("client", a, ctx.trace, ctx.span))
    BY <1>7, StartCallIs
  <2>2. /\ Len(spans) < MaxSpans /\ traces' \in {traces, traces + 1} /\ traces' <= MaxTraces
        /\ NoneSent /\ UNCHANGED <<context, request, via, shared, mixed, published>>
    BY <1>0, <1>7 DEF StartCall, history
  <2>3. TypeSpans' /\ Len(spans') \in {Len(spans), Len(spans) + 1} /\ span <= Len(spans')
    <3>1. ctx.trace \in TraceIds /\ ctx.span \in Int
      <4>1. context[hub].trace \in Ids
        BY <1>0, ActorsAre, ContextsAre DEF TypeRequests
      <4> QED BY <2>1, <4>1, ContinuedIs, ContextsAre
    <3>2. CASE span = NoSpan
      <4>1. UNCHANGED spans
        BY <2>1, <3>2
      <4> QED BY <1>0, <3>2, <4>1 DEF TypeSpans, NoSpan
    <3>3. CASE span # NoSpan
      <4>1. NewSpan("client", a, ctx.trace, ctx.span) \in Span
        BY <3>1 DEF NewSpan, Span
      <4>2. TypeSpans' /\ Len(spans') = Len(spans) + 1
        BY <2>1, <2>2, <3>3, <4>1, SpansType
      <4> QED BY <2>1, <3>3, <4>2
    <3> QED BY <3>2, <3>3
  <2>4. PICK c \in Call :
          /\ c = [ctx |-> ctx, span |-> span, with |-> with, headers |-> h,
                  reached |-> FALSE, kept |-> kept]
          /\ c.span = span
    <3>1. span \in Nat
      BY <1>0 DEF NoSpan
    <3>2. [ctx |-> ctx, span |-> span, with |-> with, headers |-> h,
           reached |-> FALSE, kept |-> kept] \in Call
      BY <3>1 DEF Call
    <3> QED BY <3>2
  <2>5. TypeCalls'
    <3>1. call' = [call EXCEPT ![a] = c] /\ call' \in [Actors -> Call]
      BY <1>0, <2>1, <2>4 DEF TypeCalls
    <3>2. \A b \in Actors : call[b].span \in Nat /\ call[b].span <= Len(spans)
      BY <1>0 DEF TypeCalls, Call
    <3>3. \A b \in Actors : call'[b].span <= Len(spans')
      <4>1. \A b \in Actors : call'[b] = IF b = a THEN c ELSE call[b]
        BY <1>0, <3>1 DEF TypeCalls
      <4> QED BY <1>0, <2>3, <2>4, <3>2, <4>1
    <3> QED BY <3>1, <3>3 DEF TypeCalls
  <2>6. TypeRequests' /\ TypeRecord' /\ TypeBounds'
    BY <1>0, <2>2, <2>3, LongerTypes, NoneSentTypes DEF TypeBounds, TracingAssumption
  <2> QED BY <2>3, <2>5, <2>6, TypePartsNext
<1>8. ASSUME NEW hub \in Actors, Query(a, hub) PROVE TypeOK'
  <2>1. context[hub].trace \in Ids /\ context[hub].span \in Int
    BY <1>0, ActorsAre, ContextsAre DEF TypeRequests
  <2>2. TypeRecord'
    BY <1>8, <2>1 DEF Query, build_record, TypeRecord
  <2>3. TypeSpans' /\ TypeRequests' /\ TypeCalls' /\ TypeBounds'
    BY <1>0, <1>8 DEF Query, history, TypeSpans, TypeRequests, TypeCalls, TypeBounds
  <2> QED BY <2>2, <2>3, TypePartsNext
<1>9. CASE EndCall(a) \/ CancelCall(a)
  <2>1. /\ call' = [call EXCEPT ![a] = NoCall]
        /\ UNCHANGED <<context, request, via, traces, shared, mixed, published>>
    BY <1>9 DEF EndCall, CancelCall, history
  <2>2. TypeSpans' /\ Len(spans') = Len(spans)
    BY <1>9, FinishCloses, DropCloses, ClosedType DEF EndCall, CancelCall
  <2>3. TypeCalls'
    <3>1. call' \in [Actors -> Call]
      BY <1>0, <2>1, RecordsAre DEF TypeCalls
    <3>2. \A b \in Actors : call'[b].span <= Len(spans)
      BY <1>0, <2>1, RecordsAre DEF TypeCalls, NoSpan
    <3> QED BY <2>2, <3>1, <3>2 DEF TypeCalls
  <2>4. TypeRecord'
    <3>1. call[a].ctx.trace \in Ids /\ call[a].span \in Int
      BY <1>0, ContextsAre DEF TypeCalls, Call
    <3>2. [kind |-> "outbound", by |-> a, trace |-> call[a].ctx.trace, span |-> call[a].span]
            \in [kind : {"none", "inbound", "outbound", "db"}, by : Actors, trace : Ids, span : Int]
      BY <3>1
    <3>3. NoneSent \/ record' = NoRecord
            \/ record' = [kind |-> "outbound", by |-> a, trace |-> call[a].ctx.trace,
                          span |-> call[a].span]
      BY <1>9 DEF EndCall, CancelCall
    <3> QED BY <3>2, <3>3, RecordsAre DEF TypeRecord, NoneSent
  <2>5. TypeRequests' /\ TypeBounds'
    BY <1>0, <2>1, <2>2 DEF TypeRequests, TypeBounds
  <2> QED BY <2>2, <2>3, <2>4, <2>5, TypePartsNext
<1>10. ASSUME NEW hub \in Actors, HubSteps(a, hub) PROVE TypeOK'
  BY <1>0, <1>5, <1>7, <1>8, <1>10 DEF HubSteps
<1> QED BY <1>2, <1>3, <1>9, <1>10, ActorsAre DEF ActorSteps

LEMMA TypeStep == TypeOK /\ [Next]_vars => TypeOK'
<1> SUFFICES ASSUME TypeOK, [Next]_vars PROVE TypeOK'
  OBVIOUS
<1>1. ASSUME NEW s \in DOMAIN spans, EndSpan(s) PROVE TypeOK'
  <2>1. TypeSpans' /\ Len(spans') = Len(spans)
    BY <1>1, EndCloses, ClosedType
  <2>2. TypeRequests' /\ TypeCalls' /\ TypeRecord' /\ TypeBounds'
    BY <1>1, <2>1, LongerTypes, NoneSentTypes, TypeParts DEF EndSpan, history, TypeBounds
  <2> QED BY <2>1, <2>2, TypePartsNext
<1>2. CASE UNCHANGED vars
  BY <1>2, TypeParts, TypePartsNext
     DEF vars, history, TypeSpans, TypeRequests, TypeCalls, TypeRecord, TypeBounds
<1>3. Next => \/ \E r \in Requests : RequestSteps(r)
              \/ \E a \in Actors : ActorSteps(a)
              \/ \E s \in DOMAIN spans : EndSpan(s)
  BY NextIs
<1> QED BY <1>1, <1>2, <1>3, TypeRequest, TypeActor

LEMMA TypeInit == Init => TypeOK
<1> SUFFICES ASSUME Init PROVE TypeOK
  OBVIOUS
<1>1. spans = <<>> /\ spans \in Seq(Span) /\ Len(spans) = 0
  BY EmptySeq DEF Init
<1>2. TypeSpans
  BY <1>1 DEF TypeSpans, TracingAssumption
<1>3. \A r \in Requests : NoRequest \in Served(Len(spans))
  BY <1>1, RecordsAre
<1>4. TypeRequests
  BY <1>3, RecordsAre, ContextsAre, ActorsAre DEF TypeRequests, Init
<1>5. TypeCalls
  BY <1>1, RecordsAre DEF TypeCalls, Init, NoSpan
<1>6. TypeRecord /\ TypeBounds
  BY RecordsAre DEF TypeRecord, TypeBounds, Init, TracingAssumption
<1> QED BY <1>2, <1>4, <1>5, <1>6, TypeParts

(* Every variable keeps its type: a trace id that is put on a span exists,    *)
(* and no request or call names a span that was not made.                    *)
THEOREM TypeCorrect == Spec => []TypeOK
BY TypeInit, TypeStep, PTL DEF Spec

-----------------------------------------------------------------------------
(* The steps, variable by variable *)

Added(sp) ==   \* one span more, the others as they were
  /\ Len(spans) \in Nat /\ DOMAIN spans = 1..Len(spans) /\ DOMAIN spans' = 1..(Len(spans) + 1)
  /\ Len(spans') = Len(spans) + 1
  /\ \A s \in DOMAIN spans : spans'[s] = spans[s]
  /\ spans'[Len(spans) + 1] = sp

LEMMA AppendAdds ==
  ASSUME TypeOK, NEW sp \in Span, spans' = Append(spans, sp) PROVE Added(sp)
BY Appended DEF Added

LEMMA ServeView ==
  ASSUME TypeOK, NEW r \in Requests, NEW layer \in Layers, NEW h \in Headers, NEW hub \in Actors,
         Serve(r, layer, h, hub)
  PROVE  /\ \A q \in Requests : q # r => request'[q] = request[q]
         /\ request'[r].phase = "made" /\ request'[r].layer = layer
         /\ request'[r].inbound = Received(layer, h)
         /\ request'[r].inbound.trace = Extract(h).trace
         /\ request'[r].inbound.span = Extract(h).span
         /\ \A b \in Actors : b # r => context'[b] = context[b]
         /\ layer = "axum" =>
              /\ request'[r].span = Len(spans) + 1 /\ context'[r].span = Len(spans) + 1
              /\ \E sp \in Span :
                   /\ Added(sp) /\ context'[r].trace = sp.trace
                   /\ sp.kind = "server" /\ sp.by = r /\ sp.parent = Extract(h).span
                   /\ sp.trace = ContinuedTrace(Extract(h).trace) /\ ~sp.finished /\ sp.sent = 0
         /\ layer # "axum" =>
              /\ request'[r].span = NoSpan /\ UNCHANGED spans
              /\ context'[r].trace \in {context[hub].trace, Extract(h).trace}
              /\ context'[r].span = context[hub].span
         /\ mixed' = IF layer = "axum_no_span" THEN mixed \cup Mixes(context'[r]) ELSE mixed
<1>1. PICK id \in {NoSpan, Len(spans) + 1}, c \in TraceContexts :
        /\ request' = [request EXCEPT ![r] = [phase |-> "made", layer |-> layer,
                                              inbound |-> Received(layer, h), span |-> id]]
        /\ context' = [context EXCEPT ![r] = c]
        /\ IF layer = "axum"
           THEN /\ id = Len(spans) + 1 /\ c.span = id
                /\ c.trace = ContinuedTrace(Extract(h).trace)
                /\ spans' = Append(spans, NewSpan("server", r, c.trace, Extract(h).span))
           ELSE /\ id = NoSpan /\ c.trace \in {context[hub].trace, Extract(h).trace}
                /\ c.span = context[hub].span /\ UNCHANGED spans
        /\ mixed' = IF layer = "axum_no_span" THEN mixed \cup Mixes(c) ELSE mixed
  BY ServeIs
<1>2. context \in [Actors -> TraceContexts] /\ request \in [Requests -> Served(Len(spans))]
  BY TypeParts DEF TypeRequests
<1>3. PICK inbound :
        /\ inbound = Received(layer, h)
        /\ inbound.trace = Extract(h).trace /\ inbound.span = Extract(h).span
  BY ReceivedIs
<1>9. PICK new : new = [phase |-> "made", layer |-> layer, inbound |-> inbound, span |-> id]
  OBVIOUS
<1>4. request' = [request EXCEPT ![r] = new]
  BY <1>1, <1>3, <1>9
<1>5. /\ \A q \in Requests : q # r => request'[q] = request[q]
      /\ request'[r] = new
      /\ \A b \in Actors : b # r => context'[b] = context[b]
      /\ context'[r] = c
  BY <1>1, <1>2, <1>4, ActorsAre
<1>6. new.phase = "made" /\ new.layer = layer /\ new.inbound = inbound /\ new.span = id
  BY <1>9
<1>7. CASE layer = "axum"
  <2>1. c.trace \in TraceIds /\ Extract(h).span \in Int
    BY <1>1, <1>7, ExtractIs, ContinuedIs, ContextsAre
  <2>2. PICK sp : sp = NewSpan("server", r, c.trace, Extract(h).span)
    OBVIOUS
  <2>3. /\ sp \in Span /\ sp.kind = "server" /\ sp.by = r /\ sp.parent = Extract(h).span
        /\ sp.trace = c.trace /\ ~sp.finished /\ sp.sent = 0
    BY <2>1, <2>2, ActorsAre DEF NewSpan, Span
  <2>4. Added(sp)
    BY <1>1, <1>7, <2>2, <2>3, AppendAdds
  <2> QED BY <1>1, <1>3, <1>5, <1>6, <1>7, <2>3, <2>4
<1>8. CASE layer # "axum"
  BY <1>1, <1>3, <1>5, <1>6, <1>8
<1> QED BY <1>7, <1>8

LEMMA StartCallView ==
  ASSUME TypeOK, NEW a \in Actors, NEW with \in Settings, NEW forwards \in BOOLEAN,
         NEW hub \in Actors, StartCall(a, hub, with, forwards)
  PROVE  LET new == call'[a]
         IN  /\ \A b \in Actors : b # a => call'[b] = call[b]
             /\ new \in Call /\ new.with = with /\ new.ctx.trace \in TraceIds
             /\ new.ctx.trace = ContinuedTrace(context[hub].trace) /\ new.ctx.span = context[hub].span
             /\ new.span = NoSpan => UNCHANGED spans
             /\ new.span # NoSpan =>
                  /\ new.span = Len(spans) + 1
                  /\ \E sp \in Span :
                       /\ Added(sp) /\ sp.kind = "client" /\ sp.by = a
                       /\ sp.trace = new.ctx.trace /\ sp.parent = new.ctx.span
                       /\ ~sp.finished /\ sp.sent = 0
             /\ Reads(a, new.ctx, new.span, new.headers)
             /\ new.kept => Kept(new.ctx, new.span, new.headers)
             /\ context[hub].trace = NoTrace \/ new.ctx.trace.form = "junk" => traces' = traces + 1
<1>1. PICK ctx \in TraceContexts, span \in {NoSpan, Len(spans) + 1}, h \in Headers,
           kept \in BOOLEAN :
        /\ call' = [call EXCEPT ![a] =
             [ctx |-> ctx, span |-> span, with |-> with, headers |-> h,
              reached |-> FALSE, kept |-> kept]]
        /\ ctx.trace = ContinuedTrace(context[hub].trace)
        /\ ctx.span = context[hub].span
        /\ IF span = NoSpan THEN UNCHANGED spans
           ELSE spans' = Append(spans, NewSpan("client", a, ctx.trace, ctx.span))
        /\ Reads(a, ctx, span, h)
        /\ kept => Kept(ctx, span, h)
        /\ context[hub].trace = NoTrace \/ ctx.trace.form = "junk" =>
             traces' = traces + 1
  BY StartCallIs
<1>2. ctx.trace \in TraceIds /\ ctx.span \in Int
  <2>1. context[hub].trace \in Ids
    BY ActorsAre, ContextsAre, TypeParts DEF TypeRequests
  <2> QED BY <1>1, <2>1, ContinuedIs, ContextsAre
<1>3. PICK new \in Call :
        /\ new = [ctx |-> ctx, span |-> span, with |-> with, headers |-> h,
                  reached |-> FALSE, kept |-> kept]
        /\ new.ctx = ctx /\ new.span = span /\ new.with = with /\ new.headers = h
        /\ new.kept = kept
  <2>1. span \in Nat
    BY SpansAre DEF NoSpan
  <2>2. [ctx |-> ctx, span |-> span, with |-> with, headers |-> h,
         reached |-> FALSE, kept |-> kept] \in Call
    BY <2>1 DEF Call
  <2> QED BY <2>2
<1>4. call' = [call EXCEPT ![a] = new] /\ call \in [Actors -> Call]
  BY <1>1, <1>3, TypeParts DEF TypeCalls
<1>5. (\A b \in Actors : b # a => call'[b] = call[b]) /\ call'[a] = new
  BY <1>4
<1>6. ASSUME span # NoSpan
      PROVE  /\ span = Len(spans) + 1
             /\ \E sp \in Span : /\ Added(sp) /\ sp.kind = "client" /\ sp.by = a
                                 /\ sp.trace = ctx.trace /\ sp.parent = ctx.span
                                 /\ ~sp.finished /\ sp.sent = 0
  <2>1. PICK sp : sp = NewSpan("client", a, ctx.trace, ctx.span)
    OBVIOUS
  <2>2. /\ sp \in Span /\ sp.kind = "client" /\ sp.by = a
        /\ sp.trace = ctx.trace /\ sp.parent = ctx.span /\ ~sp.finished /\ sp.sent = 0
    BY <1>2, <2>1 DEF NewSpan, Span
  <2>3. Added(sp)
    BY <1>1, <1>6, <2>1, <2>2, AppendAdds
  <2> QED BY <1>1, <1>6, <2>2, <2>3
<1> HIDE <1>4
<1> QED BY <1>1, <1>2, <1>3, <1>5, <1>6

(* The application's own spans *)
LEMMA AppSpanView ==
  ASSUME TypeOK, NEW a \in Actors,
         StartTransaction(a) \/ \E s \in DOMAIN spans : StartChild(a, s)
  PROVE  \E sp \in Span :
           /\ Added(sp) /\ sp.kind = "app" /\ sp.by = a /\ ~sp.finished /\ sp.sent = 0
           /\ \/ sp.parent = NoSpan /\ sp.trace.n = traces + 1 /\ traces' = traces + 1
              \/ /\ sp.parent \in DOMAIN spans /\ sp.trace = spans[sp.parent].trace
                 /\ spans[sp.parent].by = a /\ UNCHANGED traces
<1>1. CASE StartTransaction(a)
  <2>1. NewTrace \in TraceIds /\ NewTrace.n = traces + 1 /\ NoSpan \in Int
    BY NewTraceIs DEF NoSpan
  <2>2. PICK sp : sp = NewSpan("app", a, NewTrace, NoSpan)
    OBVIOUS
  <2>3. /\ sp \in Span /\ sp.kind = "app" /\ sp.by = a /\ ~sp.finished /\ sp.sent = 0
        /\ sp.parent = NoSpan /\ sp.trace = NewTrace
    BY <2>1, <2>2 DEF NewSpan, Span
  <2>4. spans' = Append(spans, sp) /\ traces' = traces + 1
    BY <1>1, <2>2 DEF StartTransaction, transaction
  <2>5. Added(sp)
    BY <2>3, <2>4, AppendAdds
  <2> QED BY <2>1, <2>3, <2>4, <2>5
<1>2. ASSUME NEW s \in DOMAIN spans, StartChild(a, s)
      PROVE  \E sp \in Span :
               /\ Added(sp) /\ sp.kind = "app" /\ sp.by = a /\ ~sp.finished /\ sp.sent = 0
               /\ sp.parent \in DOMAIN spans /\ sp.trace = spans[sp.parent].trace
               /\ spans[sp.parent].by = a /\ UNCHANGED traces
  <2>1. spans[s].trace \in TraceIds /\ s \in Int
    BY SpansAre DEF Span
  <2>2. PICK sp : sp = NewSpan("app", a, spans[s].trace, s)
    OBVIOUS
  <2>3. /\ sp \in Span /\ sp.kind = "app" /\ sp.by = a /\ ~sp.finished /\ sp.sent = 0
        /\ sp.parent = s /\ sp.trace = spans[s].trace
    BY <2>1, <2>2 DEF NewSpan, Span
  <2>4. spans' = Append(spans, sp) /\ UNCHANGED traces /\ spans[s].by = a
    BY <1>2, <2>2 DEF StartChild
  <2>5. Added(sp)
    BY <2>3, <2>4, AppendAdds
  <2> QED BY <2>3, <2>4, <2>5
<1> QED BY <1>1, <1>2

LEMMA PublishView ==
  ASSUME TypeOK, NEW a \in Actors, NEW hub \in Actors, NEW trace \in Ids, NEW span \in Int,
         Publish(a, hub, trace, span)
  PROVE  /\ \A b \in Actors : b # hub => context'[b] = context[b]
         /\ context'[hub].trace = trace /\ context'[hub].span = span
         /\ \A s : s \in mixed' <=> \/ s \in mixed
                                    \/ /\ s = span /\ s \in DOMAIN spans
                                       /\ spans[s].trace # trace
<1>1. PICK c \in TraceContexts : c = context[hub]
  BY TypeParts DEF TypeRequests
<1>2. PICK new : /\ new = [c EXCEPT !.trace = trace, !.span = span]
                 /\ new.trace = trace /\ new.span = span
  <2>1. /\ [c EXCEPT !.trace = trace, !.span = span].trace = trace
        /\ [c EXCEPT !.trace = trace, !.span = span].span = span
    BY DEF TraceContexts
  <2> QED BY <2>1
<1>3. context' = [context EXCEPT ![hub] = new] /\ context \in [Actors -> TraceContexts]
  BY <1>1, <1>2, TypeParts DEF TypeRequests, Publish
<1>4. PICK ctx : /\ ctx = [trace |-> trace, span |-> span] /\ ctx.trace = trace /\ ctx.span = span
                 /\ mixed' = mixed \cup Mixes(ctx)
  BY DEF Publish
<1> QED BY <1>2, <1>3, <1>4, MixesAre

LEMMA EndRequestView ==
  ASSUME TypeOK, NEW r \in Requests, NEW phase \in {"done", "left"},
         EndRequest(r, phase)
  PROVE  /\ \A q \in Requests : q # r => request'[q] = request[q] /\ via'[q] = via[q]
         /\ request'[r].phase = phase /\ request'[r].inbound = NoContext
         /\ request'[r].layer = request[r].layer /\ request'[r].span = request[r].span
         /\ \A b \in Actors : b # r => context'[b] = context[b]
         /\ context'[r] = IF phase = "left" THEN context[r] ELSE NoContext
         /\ shared' = IF phase = "left" THEN shared \cup ({context[r].trace.n} \ {0}) ELSE shared
         /\ via'[r].root = via[r].root /\ ~via'[r].kept
<1>1. PICK q \in Served(Len(spans)) : q = request[r]
  BY TypeParts DEF TypeRequests
<1>2. PICK v \in [root : Actors, ctx : TraceContexts, span : Nat, kept : BOOLEAN] : v = via[r]
  BY TypeParts DEF TypeRequests
<1>3. PICK none \in [root : Actors, ctx : TraceContexts, span : Nat, kept : BOOLEAN] :
        none = NotCalled(r) /\ ~none.kept
  BY RecordsAre
<1>4. PICK new : /\ new = [q EXCEPT !.phase = phase, !.inbound = NoContext]
                 /\ new.phase = phase /\ new.inbound = NoContext
                 /\ new.layer = q.layer /\ new.span = q.span
  <2>1. LET w == [q EXCEPT !.phase = phase, !.inbound = NoContext]
        IN  /\ w.phase = phase /\ w.inbound = NoContext /\ w.layer = q.layer /\ w.span = q.span
    BY DEF Served
  <2> QED BY <2>1
<1>5. PICK w : w = [none EXCEPT !.root = v.root] /\ w.root = v.root /\ ~w.kept
  <2>1. LET u == [none EXCEPT !.root = v.root] IN u.root = v.root /\ u.kept = none.kept
    OBVIOUS
  <2> QED BY <1>3, <2>1
<1>6. /\ request' = [request EXCEPT ![r] = new]
      /\ context' = IF phase = "left" THEN context ELSE [context EXCEPT ![r] = NoContext]
      /\ via' = [via EXCEPT ![r] = w]
  <2>1. request' = [request EXCEPT ![r] =
                      [request[r] EXCEPT !.phase = phase, !.inbound = NoContext]]
    <3>1. request' = [request EXCEPT ![r].phase = phase, ![r].inbound = NoContext]
      BY DEF EndRequest
    <3> QED BY <3>1, Zenon
  <2>4. via' = [via EXCEPT ![r] = [NotCalled(r) EXCEPT !.root = via[r].root]]
    BY DEF EndRequest
  <2>3. context' = IF phase = "left" THEN context ELSE [context EXCEPT ![r] = NoContext]
    BY DEF EndRequest
  <2>2. /\ [request[r] EXCEPT !.phase = phase, !.inbound = NoContext] = new
        /\ [NotCalled(r) EXCEPT !.root = via[r].root] = w
    BY <1>1, <1>2, <1>3, <1>4, <1>5
  <2> QED BY <2>1, <2>2, <2>3, <2>4
<1>7. /\ context \in [Actors -> TraceContexts] /\ DOMAIN request = Requests
      /\ DOMAIN via = Requests
  BY TypeParts DEF TypeRequests
<1>8. shared' = IF phase = "left" THEN shared \cup ({context[r].trace.n} \ {0}) ELSE shared
  BY DEF EndRequest
<1>9. /\ \A b \in Actors : b # r => context'[b] = context[b]
      /\ context'[r] = IF phase = "left" THEN context[r] ELSE NoContext
  BY <1>6, <1>7, ActorsAre
<1> QED BY <1>1, <1>2, <1>4, <1>5, <1>6, <1>7, <1>8, <1>9

LEMMA ServeCallView ==
  ASSUME TypeOK, NEW r \in Requests, NEW layer \in Layers, NEW a \in Actors, NEW hub \in Actors,
         ServeCall(r, layer, a, hub)
  PROVE  /\ request[r].phase = "none" /\ call[a].with # None
         /\ call[a].headers \in Headers /\ Serve(r, layer, call[a].headers, hub)
         /\ \A b \in Actors : b # a => call'[b] = call[b]
         /\ \A b \in Actors : /\ call'[b].ctx = call[b].ctx /\ call'[b].span = call[b].span
                              /\ call'[b].headers = call[b].headers
                              /\ call'[b].with = call[b].with /\ call'[b].kept = call[b].kept
         /\ \A q \in Requests : q # r => via'[q] = via[q]
         /\ via'[r].root = Root(a) /\ via'[r].ctx = call[a].ctx
         /\ via'[r].span = call[a].span /\ via'[r].kept = call[a].kept
         /\ traces' \in {traces, traces + 1}
         /\ layer = "axum" /\ Extract(call[a].headers).trace = NoTrace => traces' = traces + 1
         /\ NoneSent /\ UNCHANGED <<shared, published>>
<1>1. PICK c \in Call : c = call[a]
  BY TypeParts DEF TypeCalls
<1>2. PICK d : /\ d = [c EXCEPT !.reached = TRUE]
               /\ d.ctx = c.ctx /\ d.span = c.span /\ d.headers = c.headers
               /\ d.with = c.with /\ d.kept = c.kept
  <2>1. LET d == [c EXCEPT !.reached = TRUE]
        IN  /\ d.ctx = c.ctx /\ d.span = c.span /\ d.headers = c.headers
            /\ d.with = c.with /\ d.kept = c.kept
    BY DEF Call
  <2> QED BY <2>1
<1>3. PICK v : /\ v = [root |-> Root(a), ctx |-> c.ctx, span |-> c.span, kept |-> c.kept]
               /\ v.root = Root(a) /\ v.ctx = c.ctx /\ v.span = c.span /\ v.kept = c.kept
  <2>1. LET v == [root |-> Root(a), ctx |-> c.ctx, span |-> c.span, kept |-> c.kept]
        IN  v.root = Root(a) /\ v.ctx = c.ctx /\ v.span = c.span /\ v.kept = c.kept
    OBVIOUS
  <2> QED BY <2>1
<1>4. /\ call' = [call EXCEPT ![a] = d] /\ via' = [via EXCEPT ![r] = v]
      /\ request[r].phase = "none" /\ c.with # None /\ Serve(r, layer, c.headers, hub)
      /\ traces' = IF layer = "axum" /\ Extract(c.headers).trace = NoTrace
                   THEN traces + 1 ELSE traces
      /\ NoneSent /\ UNCHANGED <<shared, published>>
  BY <1>1, <1>2, <1>3 DEF ServeCall
<1>5. call \in [Actors -> Call] /\ DOMAIN via = Requests /\ c.headers \in Headers
  BY <1>1, TypeParts DEF TypeCalls, TypeRequests, Call
<1>6. /\ \A b \in Actors : b # a => call'[b] = call[b]
      /\ call'[a] = d /\ via'[r] = v
      /\ \A q \in Requests : q # r => via'[q] = via[q]
  BY <1>4, <1>5
<1>7. ASSUME NEW b \in Actors
      PROVE  /\ call'[b].ctx = call[b].ctx /\ call'[b].span = call[b].span
             /\ call'[b].headers = call[b].headers
             /\ call'[b].with = call[b].with /\ call'[b].kept = call[b].kept
  BY <1>1, <1>2, <1>6
<1> QED BY <1>1, <1>3, <1>4, <1>5, <1>6, <1>7

(* The layer's future goes on to its next phase *)
LEMMA RunView ==
  ASSUME TypeOK, NEW r \in Requests, RunCall(r) \/ RunCallEnd(r)
  PROVE  /\ \A q \in Requests : q # r => request'[q] = request[q]
         /\ request[r].phase \in {"made", "call"} /\ request'[r].phase \in {"call", "poll"}
         /\ request'[r].phase = "call" => request[r].layer # "actix"
         /\ request'[r].layer = request[r].layer /\ request'[r].span = request[r].span
         /\ request'[r].inbound = request[r].inbound
         /\ NoneSent /\ UNCHANGED <<context, call, spans, traces, history>>
<1>1. PICK q \in Served(Len(spans)) : q = request[r]
  BY TypeParts DEF TypeRequests
<1>2. PICK phase \in {"call", "poll"} :
        /\ request' = [request EXCEPT ![r] = [q EXCEPT !.phase = phase]]
        /\ phase = "call" => q.layer # "actix"
  BY <1>1 DEF RunCall, RunCallEnd
<1>3. PICK new : /\ new = [q EXCEPT !.phase = phase] /\ new.phase = phase
                 /\ new.layer = q.layer /\ new.span = q.span /\ new.inbound = q.inbound
  <2>1. LET w == [q EXCEPT !.phase = phase]
        IN  w.phase = phase /\ w.layer = q.layer /\ w.span = q.span /\ w.inbound = q.inbound
    BY DEF Served
  <2> QED BY <2>1
<1>4. DOMAIN request = Requests /\ request' = [request EXCEPT ![r] = new]
  BY <1>2, <1>3, TypeParts DEF TypeRequests
<1>5. request'[r] = new /\ \A q2 \in Requests : q2 # r => request'[q2] = request[q2]
  BY <1>4
<1> QED BY <1>1, <1>2, <1>3, <1>5 DEF RunCall, RunCallEnd

(* A request ends: its server span is closed and, if it was cancelled, the    *)
(* client span of the call it awaited with it.                               *)
Ended(r) ==
  \/ call[r].with = None /\ UNCHANGED call /\ Closed({request[r].span})
  \/ /\ call'[r] = NoCall /\ \A b \in Actors : b # r => call'[b] = call[b]
     /\ Closed({request[r].span, call[r].span})

LEMMA EndView ==
  ASSUME TypeOK, NEW r \in Requests, Respond(r) \/ CancelRequest(r) \/ PanicInRun(r)
  PROVE  /\ \E phase \in {"done", "left"} :
              EndRequest(r, phase) /\ (phase = "left" => request[r].phase = "call")
         /\ request[r].phase \in {"made", "call", "poll"} /\ Ended(r)
         /\ UNCHANGED <<traces, mixed, published>>
         /\ \/ NoneSent
            \/ record' = [kind |-> "inbound", by |-> r, trace |-> request[r].inbound.trace,
                          span |-> request[r].span]
<1>1. CASE Respond(r)
  BY <1>1, FinishCloses DEF Respond, EndRequest, Ended
<1>2. ASSUME NEW phase \in {"done", "left"}, DropRequest(r, phase)
      PROVE  /\ EndRequest(r, phase) /\ Ended(r) /\ UNCHANGED <<traces, mixed, published>>
             /\ NoneSent
  <2>1. call' = [call EXCEPT ![r] = NoCall] /\ DOMAIN call = Actors /\ r \in Actors
    BY <1>2, TypeParts, ActorsAre DEF DropRequest, TypeCalls
  <2>2. call'[r] = NoCall /\ \A b \in Actors : b # r => call'[b] = call[b]
    BY <2>1
  <2> QED BY <1>2, <2>2, DropCloses DEF DropRequest, EndRequest, Ended
<1>3. CASE CancelRequest(r)
  BY <1>2, <1>3 DEF CancelRequest
<1>4. CASE PanicInRun(r)
  BY <1>2, <1>4 DEF PanicInRun
<1> QED BY <1>1, <1>3, <1>4

LEMMA EndCallView ==
  ASSUME TypeOK, NEW a \in Actors, EndCall(a) \/ CancelCall(a)
  PROVE  /\ call'[a] = NoCall /\ \A b \in Actors : b # a => call'[b] = call[b]
         /\ Closed({call[a].span})
         /\ UNCHANGED <<context, request, traces, history>>
         /\ \/ record' = NoRecord
            \/ record' = [kind |-> "outbound", by |-> a, trace |-> call[a].ctx.trace,
                          span |-> call[a].span]
<1>1. call' = [call EXCEPT ![a] = NoCall] /\ DOMAIN call = Actors
  BY TypeParts DEF EndCall, CancelCall, TypeCalls
<1>2. call'[a] = NoCall /\ \A b \in Actors : b # a => call'[b] = call[b]
  BY <1>1
<1>3. Closed({call[a].span})
  BY FinishCloses, DropCloses DEF EndCall, CancelCall
<1> QED BY <1>2, <1>3 DEF EndCall, CancelCall, NoneSent

-----------------------------------------------------------------------------
(* The inductive invariant, in parts *)

(* A request that runs no code awaits no call and, before it is served, left *)
(* nothing anywhere; without an own hub there is no own call of the service. *)
Idle ==
  /\ \A a \in Actors : call[a].with = None => call[a] = NoCall
  /\ \A r \in Requests :
       /\ request[r].phase \notin {"call", "poll"} => call[r].with = None
       /\ request[r].phase \in {"call", "left"} => request[r].layer # "actix"
       /\ request[r].phase = "none" =>
            /\ request[r] = NoRequest /\ context[r] = NoContext /\ via[r] = NotCalled(r)
            /\ \A s \in DOMAIN spans : spans[s].by # r

(* Where an open span is: a server span with its request, a client span with *)
(* its caller's call.                                                        *)
Holders ==
  /\ \A s \in DOMAIN spans :
       /\ spans[s].sent = IF spans[s].finished THEN 1 ELSE 0
       /\ spans[s].kind = "server" =>
            /\ spans[s].by \in Requests /\ request[spans[s].by].span = s
            /\ spans[s].finished <=> request[spans[s].by].phase \in {"done", "left"}
       /\ spans[s].kind = "client" => (spans[s].finished <=> call[spans[s].by].span # s)
  /\ \A r \in Requests : request[r].span # NoSpan =>
       spans[request[r].span].kind = "server" /\ spans[request[r].span].by = r
  /\ \A a \in Actors : call[a].span # NoSpan =>
       spans[call[a].span].kind = "client" /\ spans[call[a].span].by = a

(* What a call's headers say while they keep its trace *)
Keeps ==
  /\ \A a \in Actors : call[a].kept => Kept(call[a].ctx, call[a].span, call[a].headers)
  /\ TraceContinues

(* A context names a span of its own trace, or one that a scope mixed; one    *)
(* that traveled names a span of its trace, if that has wire form.           *)
Belongs(ctx, ss, mx) ==
  ctx.span > 0 => ctx.span <= Len(ss) /\ (ss[ctx.span].trace = ctx.trace \/ ctx.span \in mx)
Traveled(ctx, ss) ==
  ctx.span > 0 =>
    ctx.span <= Len(ss) /\ (ss[ctx.span].trace.form # "wire" \/ ss[ctx.span].trace = ctx.trace)

(* The hub actix makes is never current: its context may be anything *)
Trees ==
  /\ Belongs(context[Main], spans, mixed)
  /\ \A r \in Requests :
       /\ request[r].layer # "actix" => Belongs(context[r], spans, mixed)
       /\ Traveled(request[r].inbound, spans)
       /\ request[r].span # NoSpan /\ request[r].inbound.trace # NoTrace =>
            spans[request[r].span].trace = request[r].inbound.trace
  /\ \A a \in Actors :
       /\ Traveled(Extract(call[a].headers), spans)
       /\ call[a].span # NoSpan => spans[call[a].span].trace = call[a].ctx.trace
  /\ OneTree

(* Traces an actor can put on a span, a hub or a call *)
Knows(a, n) ==
  \/ \E s \in DOMAIN spans : spans[s].by = a /\ spans[s].trace.n = n
  \/ context[a].trace.n = n
  \/ a # Main /\ request[a].inbound.trace.n = n
  \/ call[a].ctx.trace.n = n \/ Extract(call[a].headers).trace.n = n

(* Actors that know a trace are of one chain of calls, or it was on a hub     *)
(* that is ambient; a trace that is started next is known to nobody yet.     *)
Known ==
  /\ \A a \in Actors : \A n \in Nat \ {0} : Knows(a, n) => n <= traces
  /\ \A a, b \in Actors : \A n \in Nat \ {0} :
       Knows(a, n) /\ Knows(b, n) => Root(a) = Root(b) \/ n \in shared
  /\ \A hub \in Ambient : context[hub].trace.n \in shared \cup {0}

IInv == TypeOK /\ Idle /\ Holders /\ Keeps /\ Trees /\ Known

-----------------------------------------------------------------------------
(* Idle *)

(* Code runs in a request only between its layer's first poll and its end *)
LEMMA FreeIs ==
  ASSUME TypeOK, Idle, NEW a \in Actors, Free(a)
  PROVE  /\ call[a] = NoCall
         /\ a # Main => a \in Requests /\ request[a].phase \in {"call", "poll"}
         /\ \A hub \in CurrentHubs(a) :
              \/ hub \in Ambient
              \/ hub = a /\ a # Main /\ request[a].phase = "call" /\ request[a].layer # "actix"
BY ActorsAre DEF Free, Runs, Idle, CurrentHubs

(* A hub that is current is the main one, or that of a request it was bound for *)
LEMMA CurrentIs ==
  ASSUME TypeOK, Idle, NEW a \in Actors, Free(a), NEW hub \in CurrentHubs(a)
  PROVE  /\ hub \in Actors
         /\ hub # Main => /\ hub \in Requests /\ request[hub].phase \in {"call", "left"}
                          /\ request[hub].layer # "actix"
         /\ hub \notin Ambient => hub = a
<1>1. hub \in Actors
  BY ActorsAre
<1>2. CASE hub \in Ambient
  BY <1>1, <1>2, ActorsAre DEF Ambient, Idle
<1>3. CASE hub \notin Ambient
  BY <1>1, <1>3, FreeIs, ActorsAre
<1> QED BY <1>1, <1>2, <1>3

(* Idle says nothing of what application spans, records and ids change *)
LEMMA IdleKept ==
  ASSUME TypeOK, Idle, UNCHANGED <<request, call, via>>,
         \A r \in Requests : request[r].phase = "none" => context'[r] = context[r],
         \A r \in Requests : request[r].phase = "none" => \A s \in DOMAIN spans' : spans'[s].by # r
  PROVE  Idle'
BY DEF Idle

LEMMA IdleRequest ==
  ASSUME TypeOK, Idle, NEW r \in Requests, RequestSteps(r)
  PROVE  Idle'
<1>0. /\ LayersOf[r] \subseteq Layers /\ r \in Actors /\ r # Main
      /\ Len(spans) \in Nat /\ DOMAIN spans = 1..Len(spans)
  BY ActorsAre, SpansAre DEF TracingAssumption
<1>1. ASSUME NEW layer \in Layers, NEW hub \in Actors, NEW h \in Headers,
             Serve(r, layer, h, hub), request[r].phase = "none",
             \A a \in Actors : call'[a].with = None => call'[a] = call[a] /\ call[a].with = None,
             call'[r].with = None,
             \A q \in Requests : q # r => via'[q] = via[q],
             \A q \in Requests : call[q].with = None => call'[q].with = None
      PROVE  Idle'
  <2>1. /\ \A q \in Requests : q # r => request'[q] = request[q] /\ context'[q] = context[q]
        /\ request'[r].phase = "made"
    BY <1>1, ServeView, ActorsAre
  <2>2. \A s \in DOMAIN spans' : spans'[s].by = r \/ (s \in DOMAIN spans /\ spans'[s] = spans[s])
    <3>1. CASE layer = "axum"
      <4>1. PICK sp \in Span : Added(sp) /\ sp.by = r
        BY <1>1, <3>1, ServeView
      <4> QED BY <4>1 DEF Added
    <3>2. CASE layer # "axum"
      BY <1>1, <3>2, ServeView
    <3> QED BY <3>1, <3>2
  <2>3. \A a \in Actors : call'[a].with = None => call'[a] = NoCall
    BY <1>1 DEF Idle
  <2>4. ASSUME NEW q \in Requests
        PROVE  /\ request'[q].phase \notin {"call", "poll"} => call'[q].with = None
               /\ request'[q].phase \in {"call", "left"} => request'[q].layer # "actix"
               /\ request'[q].phase = "none" =>
                    /\ request'[q] = NoRequest /\ context'[q] = NoContext /\ via'[q] = NotCalled(q)
                    /\ \A s \in DOMAIN spans' : spans'[s].by # q
    <3>1. CASE q = r
      BY <1>1, <2>1, <3>1
    <3>2. CASE q # r
      BY <1>1, <2>1, <2>2, <3>2 DEF Idle
    <3> QED BY <3>1, <3>2
  <2> QED BY <2>3, <2>4 DEF Idle
<1>2. ASSUME NEW layer \in Layers, NEW hub \in Actors, NEW h \in ExternalHeaders,
             ServeExternal(r, layer, h, hub)
      PROVE  Idle'
  <2>1. h \in Headers /\ Serve(r, layer, h, hub) /\ request[r].phase = "none" /\ UNCHANGED <<call, via>>
    BY <1>2, ExternalAre DEF ServeExternal, history
  <2>2. call[r].with = None
    BY <2>1 DEF Idle
  <2> QED BY <1>1, <2>1, <2>2
<1>3. ASSUME NEW layer \in Layers, NEW hub \in Actors, NEW a \in Actors \ {r},
             ServeCall(r, layer, a, hub)
      PROVE  Idle'
  <2>1. /\ request[r].phase = "none" /\ call[a].with # None
        /\ call[a].headers \in Headers /\ Serve(r, layer, call[a].headers, hub)
        /\ \A b \in Actors : b # a => call'[b] = call[b]
        /\ \A b \in Actors : call'[b].with = call[b].with
        /\ \A q \in Requests : q # r => via'[q] = via[q]
    BY <1>3, ServeCallView
  <2>2. call[r].with = None
    BY <2>1 DEF Idle
  <2> QED BY <1>0, <1>1, <2>1, <2>2, ActorsAre
<1>4. CASE RunCall(r) \/ RunCallEnd(r)
  <2>1. /\ \A q \in Requests : q # r => request'[q] = request[q]
        /\ request'[r].phase \in {"call", "poll"}
        /\ request'[r].phase = "call" => request[r].layer # "actix"
        /\ request'[r].layer = request[r].layer
        /\ UNCHANGED <<context, call, spans, via>>
    BY <1>4, RunView DEF history
  <2> QED BY <2>1 DEF Idle
<1>5. CASE Respond(r) \/ CancelRequest(r) \/ PanicInRun(r)
  <2>1. /\ Ended(r)
        /\ \E phase \in {"done", "left"} :
             EndRequest(r, phase) /\ (phase = "left" => request[r].phase = "call")
    BY <1>5, EndView
  <2>2. /\ \A q \in Requests : q # r => request'[q] = request[q] /\ via'[q] = via[q]
        /\ \A q \in Requests : q # r => context'[q] = context[q]
        /\ request'[r].phase \in {"done", "left"} /\ request'[r].layer = request[r].layer
        /\ request'[r].phase = "left" => request[r].phase = "call"
    BY <2>1, EndRequestView, ActorsAre
  <2>3. /\ \A b \in Actors : b # r => call'[b] = call[b]
        /\ call'[r] = NoCall /\ NoCall.with = None
    BY <1>0, <2>1, RecordsAre DEF Ended, Idle
  <2>4. DOMAIN spans' = DOMAIN spans /\ \A s \in DOMAIN spans : spans'[s].by = spans[s].by
    BY <2>1 DEF Ended, Closed
  <2> QED BY <2>2, <2>3, <2>4, ActorsAre DEF Idle
<1> QED BY <1>0, <1>2, <1>3, <1>4, <1>5, ActorsAre DEF RequestSteps

LEMMA IdleActor ==
  ASSUME TypeOK, Idle, NEW a \in Actors, ActorSteps(a)
  PROVE  Idle'
<1>0. /\ SettingsOf[a] \subseteq Settings /\ None \notin Settings
      /\ Len(spans) \in Nat /\ DOMAIN spans = 1..Len(spans)
  BY SpansAre DEF TracingAssumption, Actors
<1>1. CASE StartTransaction(a) \/ \E s \in DOMAIN spans : StartChild(a, s)
  <2>1. PICK sp \in Span : Added(sp) /\ sp.by = a
    BY <1>1, AppSpanView
  <2>2. Free(a) /\ UNCHANGED <<context, request, call, via>>
    BY <1>1 DEF StartTransaction, StartChild, history
  <2>3. \A r \in Requests : request[r].phase = "none" => r # a
    BY <2>2, FreeIs, ActorsAre
  <2>4. \A s \in DOMAIN spans' : spans'[s].by = a \/ (s \in DOMAIN spans /\ spans'[s] = spans[s])
    BY <2>1 DEF Added
  <2>5. \A r \in Requests : request[r].phase = "none" => \A s \in DOMAIN spans' : spans'[s].by # r
    BY <2>3, <2>4 DEF Idle
  <2> QED BY <2>2, <2>5, IdleKept
<1>2. ASSUME NEW hub \in Actors, Query(a, hub) PROVE Idle'
  BY <1>2, IdleKept DEF Query, history, Idle
<1>3. ASSUME NEW hub \in CurrentHubs(a), NEW trace \in Ids, NEW span \in Int,
             Publish(a, hub, trace, span)
      PROVE  Idle'
  <2>1. /\ hub \in Actors /\ Free(a) /\ UNCHANGED <<request, call, spans, via>>
        /\ \A b \in Actors : b # hub => context'[b] = context[b]
    BY <1>3, PublishView, ActorsAre DEF Publish
  <2>2. \A r \in Requests : request[r].phase = "none" => r # hub
    BY <2>1, CurrentIs, ActorsAre
  <2>3. \A r \in Requests : request[r].phase = "none" => context'[r] = context[r]
    BY <2>1, <2>2, ActorsAre
  <2> QED BY <2>1, <2>3, IdleKept DEF Idle
<1>4. ASSUME NEW hub \in CurrentHubs(a),
             SetIds(a, hub) \/ \E form \in {"loose", "junk"} : SetOwnId(a, hub, form)
      PROVE  Idle'
  BY <1>3, <1>4, PublishesIs, ActorsAre
<1>6. ASSUME NEW hub \in Actors, NEW with \in Settings, NEW forwards \in BOOLEAN,
             StartCall(a, hub, with, forwards)
      PROVE  Idle'
  <2>1. /\ \A b \in Actors : b # a => call'[b] = call[b]
        /\ call'[a].with = with
    BY <1>6, StartCallView
  <2>2. Free(a) /\ UNCHANGED <<context, request, via>>
    BY <1>6 DEF StartCall, history
  <2>3. \A r \in Requests : request[r].phase \notin {"call", "poll"} => r # a
    BY <2>2, FreeIs, ActorsAre
  <2>4. \A s \in DOMAIN spans' : spans'[s].by = a \/ (s \in DOMAIN spans /\ spans'[s] = spans[s])
    <3>1. CASE call'[a].span = NoSpan
      BY <1>6, <3>1, StartCallView
    <3>2. CASE call'[a].span # NoSpan
      <4>1. PICK sp \in Span : Added(sp) /\ sp.by = a
        BY <1>6, <3>2, StartCallView
      <4> QED BY <4>1 DEF Added
    <3> QED BY <3>1, <3>2
  <2> QED BY <1>0, <2>1, <2>2, <2>3, <2>4, ActorsAre DEF Idle
<1>7. CASE EndCall(a) \/ CancelCall(a)
  <2>1. /\ call'[a] = NoCall /\ \A b \in Actors : b # a => call'[b] = call[b]
        /\ Closed({call[a].span}) /\ UNCHANGED <<context, request, via>>
    BY <1>7, EndCallView DEF history
  <2>2. DOMAIN spans' = DOMAIN spans /\ \A s \in DOMAIN spans : spans'[s].by = spans[s].by
    BY <2>1 DEF Closed
  <2> QED BY <2>1, <2>2, RecordsAre, ActorsAre DEF Idle
<1> QED BY <1>0, <1>1, <1>2, <1>4, <1>6, <1>7, ActorsAre DEF ActorSteps, HubSteps

LEMMA IdleStep == TypeOK /\ Idle /\ [Next]_vars => Idle'
<1> SUFFICES ASSUME TypeOK, Idle, [Next]_vars PROVE Idle'
  OBVIOUS
<1>1. ASSUME NEW s \in DOMAIN spans, EndSpan(s) PROVE Idle'
  <2>1. DOMAIN spans' = DOMAIN spans /\ \A u \in DOMAIN spans : spans'[u].by = spans[u].by
    BY <1>1, EndCloses DEF Closed
  <2> QED BY <1>1, <2>1, IdleKept DEF EndSpan, history, Idle
<1>2. CASE UNCHANGED vars
  BY <1>2 DEF vars, history, Idle
<1> QED BY <1>1, <1>2, IdleRequest, IdleActor, NextIs

-----------------------------------------------------------------------------
(* Holders *)

HeldSpan(s) ==
  /\ spans[s].sent = IF spans[s].finished THEN 1 ELSE 0
  /\ spans[s].kind = "server" =>
       /\ spans[s].by \in Requests /\ request[spans[s].by].span = s
       /\ spans[s].finished <=> request[spans[s].by].phase \in {"done", "left"}
  /\ spans[s].kind = "client" => (spans[s].finished <=> call[spans[s].by].span # s)
ServerHeld(r) ==
  request[r].span # NoSpan => spans[request[r].span].kind = "server" /\ spans[request[r].span].by = r
ClientHeld(a) ==
  call[a].span # NoSpan => spans[call[a].span].kind = "client" /\ spans[call[a].span].by = a

LEMMA HoldersParts ==
  Holders <=> /\ \A s \in DOMAIN spans : HeldSpan(s)
              /\ \A r \in Requests : ServerHeld(r)
              /\ \A a \in Actors : ClientHeld(a)
BY DEF Holders, HeldSpan, ServerHeld, ClientHeld

LEMMA HoldersPartsNext ==
  ASSUME \A s \in DOMAIN spans' : HeldSpan(s)', \A r \in Requests : ServerHeld(r)',
         \A a \in Actors : ClientHeld(a)'
  PROVE  Holders'
BY DEF Holders, HeldSpan, ServerHeld, ClientHeld

(* The spans a request or a call names were made *)
LEMMA Named ==
  ASSUME TypeOK
  PROVE  /\ \A r \in Requests : /\ request[r].span \in Nat /\ request[r].span <= Len(spans)
                                /\ request[r].span # NoSpan => request[r].span \in DOMAIN spans
         /\ \A a \in Actors : /\ call[a].span \in Nat /\ call[a].span <= Len(spans)
                              /\ call[a].span # NoSpan => call[a].span \in DOMAIN spans
         /\ Len(spans) \in Nat /\ Len(spans) + 1 \notin DOMAIN spans
         /\ NoSpan \notin DOMAIN spans
<1>1. Len(spans) \in Nat /\ DOMAIN spans = 1..Len(spans)
  BY SpansAre
<1>2. \A r \in Requests : request[r].span \in 0..Len(spans)
  BY TypeParts DEF TypeRequests, Served
<1>3. \A a \in Actors : call[a].span \in Nat /\ call[a].span <= Len(spans)
  BY TypeParts DEF TypeCalls, Call
<1> QED BY <1>1, <1>2, <1>3 DEF NoSpan

(* A step adds a span, which its request or its actor's call holds if they    *)
(* are to close it.                                                          *)
LEMMA HoldersAdded ==
  ASSUME TypeOK, Holders, NEW sp \in Span, Added(sp), sp.sent = 0, ~sp.finished,
         NEW x \in Actors, sp.by = x,
         \A b \in Actors \ {x} : call'[b].span = call[b].span,
         \/ call'[x].span = call[x].span
         \/ call[x].span = NoSpan /\ sp.kind = "client" /\ call'[x].span = Len(spans) + 1,
         sp.kind = "client" => call'[x].span = Len(spans) + 1,
         \A q \in Requests \ {x} :
           request'[q].span = request[q].span /\ request'[q].phase = request[q].phase,
         \/ /\ sp.kind # "server"
            /\ x \in Requests => request'[x].span = request[x].span /\ request'[x].phase = request[x].phase
         \/ /\ sp.kind = "server" /\ x \in Requests /\ request'[x].span = Len(spans) + 1
            /\ request[x].span = NoSpan /\ request'[x].phase \notin {"done", "left"}
  PROVE  Holders'
<1>1. /\ Len(spans) \in Nat /\ DOMAIN spans = 1..Len(spans)
      /\ DOMAIN spans' = DOMAIN spans \cup {Len(spans) + 1}
      /\ \A s \in DOMAIN spans : spans'[s] = spans[s]
      /\ spans'[Len(spans) + 1] = sp
  <2>1. /\ Len(spans) \in Nat /\ DOMAIN spans = 1..Len(spans) /\ DOMAIN spans' = 1..(Len(spans) + 1)
        /\ \A s \in DOMAIN spans : spans'[s] = spans[s]
        /\ spans'[Len(spans) + 1] = sp
    BY DEF Added
  <2>2. 1..(Len(spans) + 1) = 1..Len(spans) \cup {Len(spans) + 1}
    BY <2>1
  <2> QED BY <2>1, <2>2
<1>2. /\ \A s \in DOMAIN spans : HeldSpan(s) /\ spans[s].by \in Actors
      /\ \A r \in Requests : ServerHeld(r)
      /\ \A a \in Actors : ClientHeld(a)
  BY HoldersParts, SpansAre DEF Span
<1>3. PICK new : new = Len(spans) + 1 /\ new \notin DOMAIN spans /\ new # NoSpan
  BY <1>1, Named DEF NoSpan
<1>4. ASSUME NEW s \in DOMAIN spans PROVE HeldSpan(s)'
  <2>1. spans'[s] = spans[s] /\ HeldSpan(s) /\ s # new /\ s # NoSpan
    BY <1>1, <1>2, <1>3, Named
  <2>2. CASE spans[s].kind = "server"
    <3>1. /\ spans[s].by \in Requests /\ request[spans[s].by].span = s
          /\ spans[s].finished <=> request[spans[s].by].phase \in {"done", "left"}
      BY <2>1, <2>2 DEF HeldSpan
    <3>2. /\ request'[spans[s].by].span = request[spans[s].by].span
          /\ request'[spans[s].by].phase = request[spans[s].by].phase
      BY <2>1, <3>1
    <3> QED BY <2>1, <2>2, <3>1, <3>2 DEF HeldSpan
  <2>3. CASE spans[s].kind = "client"
    <3>1. call[spans[s].by].span # s <=> call'[spans[s].by].span # s
      BY <1>2, <1>3, <2>1
    <3> QED BY <2>1, <2>3, <3>1 DEF HeldSpan
  <2>4. CASE spans[s].kind \notin {"server", "client"}
    BY <2>1, <2>4 DEF HeldSpan
  <2> QED BY <2>2, <2>3, <2>4
<1>5. HeldSpan(new)'
  BY <1>1, <1>3 DEF HeldSpan
<1>6. ASSUME NEW r \in Requests PROVE ServerHeld(r)'
  <2>1. CASE request'[r].span = request[r].span
    <3>1. request[r].span # NoSpan => spans'[request[r].span] = spans[request[r].span]
      BY <1>1, Named
    <3> QED BY <1>2, <2>1, <3>1 DEF ServerHeld
  <2>2. CASE request'[r].span # request[r].span
    BY <1>1, <2>2 DEF ServerHeld
  <2> QED BY <2>1, <2>2
<1>7. ASSUME NEW a \in Actors PROVE ClientHeld(a)'
  <2>1. CASE call'[a].span = call[a].span
    <3>1. call[a].span # NoSpan => spans'[call[a].span] = spans[call[a].span]
      BY <1>1, Named
    <3> QED BY <1>2, <2>1, <3>1 DEF ClientHeld
  <2>2. CASE call'[a].span # call[a].span
    BY <1>1, <2>2 DEF ClientHeld
  <2> QED BY <2>1, <2>2
<1>8. \A s \in DOMAIN spans' : HeldSpan(s)'
  BY <1>1, <1>3, <1>4, <1>5
<1> QED BY <1>6, <1>7, <1>8, HoldersPartsNext

(* A step closes spans with what held them *)
LEMMA HoldersClosed ==
  ASSUME TypeOK, Holders, NEW ss, Closed(ss),
         \A q \in Requests : request'[q].span = request[q].span,
         \A s \in DOMAIN spans : spans[s].kind = "server" =>
           (request'[spans[s].by].phase \in {"done", "left"} <=> request[spans[s].by].phase \in {"done", "left"} \/ s \in ss),
         \A b \in Actors :
           call'[b].span = call[b].span \/ (call'[b].span = NoSpan /\ call[b].span \in ss),
         \A s \in DOMAIN spans : s \in ss /\ spans[s].kind = "client" => call'[spans[s].by].span # s
  PROVE  Holders'
<1>1. /\ DOMAIN spans' = DOMAIN spans
      /\ \A s \in DOMAIN spans :
           /\ spans'[s].kind = spans[s].kind /\ spans'[s].by = spans[s].by
           /\ spans'[s].finished = (spans[s].finished \/ s \in ss)
           /\ spans'[s].sent = IF s \in ss /\ ~spans[s].finished THEN spans[s].sent + 1
                               ELSE spans[s].sent
  BY DEF Closed
<1>2. /\ \A s \in DOMAIN spans : HeldSpan(s) /\ spans[s].by \in Actors /\ spans[s].finished \in BOOLEAN
      /\ \A r \in Requests : ServerHeld(r)
      /\ \A a \in Actors : ClientHeld(a)
  BY HoldersParts, SpansAre DEF Span
<1>3. ASSUME NEW s \in DOMAIN spans' PROVE HeldSpan(s)'
  <2>0. s \in DOMAIN spans /\ HeldSpan(s) /\ s # NoSpan
    BY <1>1, <1>2, Named
  <2>1. spans'[s].sent = IF spans'[s].finished THEN 1 ELSE 0
    <3>1. spans[s].sent = IF spans[s].finished THEN 1 ELSE 0
      BY <2>0 DEF HeldSpan
    <3>2. CASE spans[s].finished
      BY <1>1, <2>0, <3>1, <3>2
    <3>3. CASE ~spans[s].finished
      <4>1. spans[s].sent = 0
        BY <3>1, <3>3
      <4>2. CASE s \in ss
        <5>1. spans'[s].sent = spans[s].sent + 1
          BY <1>1, <2>0, <3>3, <4>2
        <5>2. spans'[s].sent = 1
          BY <4>1, <5>1
        <5>3. spans'[s].finished
          BY <1>1, <2>0, <4>2
        <5> QED BY <5>2, <5>3
      <4>3. CASE s \notin ss
        BY <1>1, <2>0, <3>3, <4>1, <4>3
      <4> QED BY <4>2, <4>3
    <3> QED BY <3>2, <3>3
  <2>2. CASE spans[s].kind = "server"
    BY <1>1, <1>2, <2>0, <2>1, <2>2 DEF HeldSpan
  <2>3. CASE spans[s].kind = "client"
    BY <1>1, <1>2, <2>0, <2>1, <2>3 DEF HeldSpan
  <2>4. CASE spans[s].kind \notin {"server", "client"}
    BY <1>1, <2>0, <2>1, <2>4 DEF HeldSpan
  <2> QED BY <2>2, <2>3, <2>4
<1>4. ASSUME NEW r \in Requests PROVE ServerHeld(r)'
  BY <1>1, <1>2, Named DEF ServerHeld
<1>5. ASSUME NEW a \in Actors PROVE ClientHeld(a)'
  BY <1>1, <1>2, Named DEF ClientHeld
<1> QED BY <1>3, <1>4, <1>5, HoldersPartsNext

(* Nothing that Holders speaks of changes *)
LEMMA HoldersKept ==
  ASSUME TypeOK, Holders, UNCHANGED spans, \A b \in Actors : call'[b].span = call[b].span,
         \A q \in Requests : /\ request'[q].span = request[q].span
                             /\ request'[q].phase \in {"done", "left"} <=> request[q].phase \in {"done", "left"}
  PROVE  Holders'
<1>1. \A s \in DOMAIN spans : spans[s].by \in Actors
  BY SpansAre DEF Span
<1> QED BY <1>1 DEF Holders

LEMMA HoldersRequest ==
  ASSUME TypeOK, Idle, Holders, NEW r \in Requests, RequestSteps(r)
  PROVE  Holders'
<1>0. LayersOf[r] \subseteq Layers /\ r \in Actors /\ r # Main /\ Requests \subseteq Actors
  BY ActorsAre DEF TracingAssumption
<1>1. ASSUME NEW layer \in Layers, NEW hub \in Actors, NEW h \in Headers,
             Serve(r, layer, h, hub), request[r].phase = "none", \A b \in Actors : call'[b].span = call[b].span
      PROVE  Holders'
  <2>1. /\ \A q \in Requests : q # r => request'[q] = request[q]
        /\ request'[r].phase = "made" /\ request[r].span = NoSpan
    BY <1>1, ServeView, RecordsAre DEF Idle
  <2>2. CASE layer = "axum"
    <3>1. request'[r].span = Len(spans) + 1
      BY <1>1, <2>2, ServeView
    <3>2. PICK sp \in Span : Added(sp) /\ sp.kind = "server" /\ sp.by = r /\ ~sp.finished /\ sp.sent = 0
      BY <1>1, <2>2, ServeView
    <3> QED BY <1>0, <1>1, <2>1, <3>1, <3>2, HoldersAdded
  <2>3. CASE layer # "axum"
    <3>1. request'[r].span = NoSpan /\ UNCHANGED spans
      BY <1>1, <2>3, ServeView
    <3> QED BY <1>1, <2>1, <3>1, HoldersKept
  <2> QED BY <2>2, <2>3
<1>2. ASSUME NEW layer \in Layers, NEW hub \in Actors, NEW h \in ExternalHeaders,
             ServeExternal(r, layer, h, hub)
      PROVE  Holders'
  BY <1>1, <1>2, ExternalAre DEF ServeExternal
<1>3. ASSUME NEW layer \in Layers, NEW hub \in Actors, NEW a \in Actors \ {r},
             ServeCall(r, layer, a, hub)
      PROVE  Holders'
  <2>1. /\ request[r].phase = "none" /\ call[a].headers \in Headers
        /\ Serve(r, layer, call[a].headers, hub)
        /\ \A b \in Actors : call'[b].span = call[b].span
    BY <1>3, ServeCallView
  <2> QED BY <1>1, <2>1
<1>4. CASE RunCall(r) \/ RunCallEnd(r)
  <2>1. /\ \A q \in Requests : q # r => request'[q] = request[q]
        /\ request'[r].phase \notin {"done", "left"} /\ request[r].phase \notin {"done", "left"}
        /\ request'[r].span = request[r].span /\ UNCHANGED <<call, spans>>
    BY <1>4, RunView
  <2> QED BY <2>1, HoldersKept
<1>5. CASE Respond(r) \/ CancelRequest(r) \/ PanicInRun(r)
  <2>1. /\ Ended(r) /\ request[r].phase \notin {"done", "left"}
        /\ \E phase \in {"done", "left"} : EndRequest(r, phase)
    BY <1>5, EndView
  <2>2. /\ \A q \in Requests : q # r => request'[q] = request[q]
        /\ request'[r].phase \in {"done", "left"} /\ request'[r].span = request[r].span
    BY <2>1, EndRequestView
  <2>3. /\ \A s \in DOMAIN spans : HeldSpan(s) /\ spans[s].by \in Actors
        /\ \A q \in Requests : ServerHeld(q)
        /\ \A a \in Actors : ClientHeld(a)
    BY HoldersParts, SpansAre DEF Span
  <2>4. \A s \in DOMAIN spans : spans[s].kind = "server" =>
          spans[s].by \in Requests /\ request[spans[s].by].span = s
    BY <2>3 DEF HeldSpan
  <2>5. \A s \in DOMAIN spans : s = request[r].span => spans[s].kind = "server" /\ spans[s].by = r
    BY <2>3, Named DEF ServerHeld
  <2>6. \A s \in DOMAIN spans : s = call[r].span => spans[s].kind = "client" /\ spans[s].by = r
    BY <1>0, <2>3, Named DEF ClientHeld
  <2>7. CASE UNCHANGED call /\ Closed({request[r].span})
    <3>1. \A s \in DOMAIN spans : spans[s].kind = "server" =>
            (request'[spans[s].by].phase \in {"done", "left"}
               <=> request[spans[s].by].phase \in {"done", "left"} \/ s \in {request[r].span})
      BY <2>1, <2>2, <2>4, <2>5
    <3>2. \A q \in Requests : request'[q].span = request[q].span
      BY <2>2
    <3>3. \A s \in DOMAIN spans : s \in {request[r].span} => spans[s].kind # "client"
      BY <2>5
    <3> QED BY <2>7, <3>1, <3>2, <3>3, HoldersClosed
  <2>8. CASE /\ call'[r] = NoCall /\ \A b \in Actors : b # r => call'[b] = call[b]
             /\ Closed({request[r].span, call[r].span})
    <3>1. \A s \in DOMAIN spans : spans[s].kind = "server" =>
            (request'[spans[s].by].phase \in {"done", "left"}
               <=> request[spans[s].by].phase \in {"done", "left"} \/ s \in {request[r].span, call[r].span})
      BY <2>1, <2>2, <2>4, <2>5, <2>6
    <3>2. \A q \in Requests : request'[q].span = request[q].span
      BY <2>2
    <3>3. \A b \in Actors : call'[b].span = call[b].span
            \/ (call'[b].span = NoSpan /\ call[b].span \in {request[r].span, call[r].span})
      BY <2>8, RecordsAre
    <3>4. \A s \in DOMAIN spans : s \in {request[r].span, call[r].span} /\ spans[s].kind = "client" =>
            call'[spans[s].by].span # s
      BY <2>5, <2>6, <2>8, RecordsAre, Named
    <3> QED BY <2>8, <3>1, <3>2, <3>3, <3>4, HoldersClosed
  <2> QED BY <2>1, <2>7, <2>8 DEF Ended
<1> QED BY <1>0, <1>2, <1>3, <1>4, <1>5, ActorsAre DEF RequestSteps

LEMMA HoldersActor ==
  ASSUME TypeOK, Idle, Holders, NEW a \in Actors, ActorSteps(a)
  PROVE  Holders'
<1>0. SettingsOf[a] \subseteq Settings
  BY DEF TracingAssumption, Actors
<1>1. CASE StartTransaction(a) \/ \E s \in DOMAIN spans : StartChild(a, s)
  <2>1. PICK sp \in Span : Added(sp) /\ sp.kind = "app" /\ sp.by = a /\ ~sp.finished /\ sp.sent = 0
    BY <1>1, AppSpanView
  <2>2. UNCHANGED <<request, call>>
    BY <1>1 DEF StartTransaction, StartChild
  <2> QED BY <2>1, <2>2, HoldersAdded
<1>2. ASSUME NEW hub \in Actors, \/ Query(a, hub) \/ SetIds(a, hub)
                                 \/ \E form \in {"loose", "junk"} : SetOwnId(a, hub, form)
      PROVE  Holders'
  BY <1>2, HoldersKept DEF Query, SetIds, SetOwnId, Publish
<1>3. ASSUME NEW hub \in Actors, NEW with \in Settings, NEW forwards \in BOOLEAN,
             StartCall(a, hub, with, forwards)
      PROVE  Holders'
  <2>1. /\ \A b \in Actors : b # a => call'[b] = call[b]
        /\ UNCHANGED request
    <3>1. \A b \in Actors : b # a => call'[b] = call[b]
      BY <1>3, StartCallView
    <3> QED BY <1>3, <3>1 DEF StartCall
  <2>2. call[a].span = NoSpan
    BY <1>3, FreeIs, RecordsAre DEF StartCall
  <2>3. CASE call'[a].span = NoSpan
    <3>1. UNCHANGED spans
      BY <1>3, <2>3, StartCallView
    <3> QED BY <2>1, <2>2, <2>3, <3>1, HoldersKept
  <2>4. CASE call'[a].span # NoSpan
    <3>1. call'[a].span = Len(spans) + 1
      BY <1>3, <2>4, StartCallView
    <3>2. PICK sp \in Span : Added(sp) /\ sp.kind = "client" /\ sp.by = a /\ ~sp.finished /\ sp.sent = 0
      BY <1>3, <2>4, StartCallView
    <3> QED BY <2>1, <2>2, <3>1, <3>2, HoldersAdded
  <2> QED BY <2>3, <2>4
<1>4. CASE EndCall(a) \/ CancelCall(a)
  <2>1. /\ call'[a] = NoCall /\ \A b \in Actors : b # a => call'[b] = call[b]
        /\ Closed({call[a].span}) /\ UNCHANGED request
    BY <1>4, EndCallView
  <2>2. \A s \in DOMAIN spans : s = call[a].span => spans[s].kind = "client" /\ spans[s].by = a
    BY HoldersParts, Named DEF ClientHeld
  <2>3. \A b \in Actors :
          call'[b].span = call[b].span \/ (call'[b].span = NoSpan /\ call[b].span \in {call[a].span})
    BY <2>1, RecordsAre
  <2>4. \A s \in DOMAIN spans : s \in {call[a].span} /\ spans[s].kind = "client" =>
          call'[spans[s].by].span # s
    BY <2>1, <2>2, RecordsAre, Named
  <2>5. \A s \in DOMAIN spans : spans[s].kind = "server" => s \notin {call[a].span}
    BY <2>2
  <2> QED BY <2>1, <2>3, <2>4, <2>5, HoldersClosed
<1> QED BY <1>0, <1>1, <1>2, <1>3, <1>4, ActorsAre DEF ActorSteps, HubSteps

LEMMA HoldersStep == TypeOK /\ Idle /\ Holders /\ [Next]_vars => Holders'
<1> SUFFICES ASSUME TypeOK, Idle, Holders, [Next]_vars PROVE Holders'
  OBVIOUS
<1>1. ASSUME NEW s \in DOMAIN spans, EndSpan(s) PROVE Holders'
  <2>1. Closed({s}) /\ spans[s].kind = "app" /\ UNCHANGED <<request, call>>
    BY <1>1, EndCloses DEF EndSpan
  <2> QED BY <2>1, HoldersClosed
<1>2. CASE UNCHANGED vars
  BY <1>2, HoldersKept DEF vars
<1> QED BY <1>1, <1>2, HoldersRequest, HoldersActor, NextIs

LEMMA HoldersSent == TypeOK /\ Holders => SentOnce
<1> SUFFICES ASSUME TypeOK, Holders, NEW s \in DOMAIN spans
             PROVE  spans[s].sent =
                      CASE spans[s].kind = "server" ->
                             IF request[spans[s].by].phase \in {"done", "left"} THEN 1 ELSE 0
                        [] spans[s].kind = "client" -> IF call[spans[s].by].span = s THEN 0 ELSE 1
                        [] OTHER -> IF spans[s].finished THEN 1 ELSE 0
  BY DEF SentOnce
<1>1. HeldSpan(s)
  BY HoldersParts
<1> QED BY <1>1 DEF HeldSpan

-----------------------------------------------------------------------------
(* Keeps *)

LEMMA KeepsStep == TypeOK /\ Idle /\ Keeps /\ [Next]_vars => Keeps'
<1> DEFINE KeptBy(c) == Kept(c.ctx, c.span, c.headers)
           Continues(r) == /\ via[r].ctx.trace.form = "wire" =>
                                request[r].inbound.trace = via[r].ctx.trace
                           /\ request[r].inbound.span = via[r].span
                           /\ request[r].inbound.request = via[r].ctx.request
<1> SUFFICES ASSUME TypeOK, Idle, Keeps, [Next]_vars PROVE Keeps'
  OBVIOUS
<1>0. /\ \A a \in Actors : call[a].kept => KeptBy(call[a])
      /\ \A r \in Requests : via[r].kept => Continues(r)
  BY DEF Keeps, TraceContinues
<1>1. ASSUME \A a \in Actors : call'[a].kept => KeptBy(call'[a]),
             \A r \in Requests : via'[r].kept => Continues(r)'
      PROVE  Keeps'
  BY <1>1 DEF Keeps, TraceContinues
<1>2. ASSUME UNCHANGED <<call, via>>,
             \A r \in Requests : via[r].kept => request'[r].inbound = request[r].inbound
      PROVE  Keeps'
  BY <1>0, <1>1, <1>2
<1>3. ASSUME NEW r \in Requests, NEW layer \in Layers, NEW hub \in Actors,
             NEW h \in ExternalHeaders, ServeExternal(r, layer, h, hub)
      PROVE  Keeps'
  <2>1. /\ h \in Headers /\ Serve(r, layer, h, hub) /\ request[r].phase = "none"
        /\ UNCHANGED <<call, via>>
    BY <1>3, ExternalAre DEF ServeExternal, history
  <2>2. \A q \in Requests : q # r => request'[q] = request[q]
    BY <2>1, ServeView
  <2>3. ~via[r].kept
    BY <2>1, RecordsAre DEF Idle
  <2> QED BY <1>2, <2>1, <2>2, <2>3
<1>4. ASSUME NEW r \in Requests, NEW layer \in Layers, NEW hub \in Actors, NEW a \in Actors,
             ServeCall(r, layer, a, hub)
      PROVE  Keeps'
  <2>1. /\ call[a].headers \in Headers /\ Serve(r, layer, call[a].headers, hub)
        /\ \A b \in Actors : /\ call'[b].ctx = call[b].ctx /\ call'[b].span = call[b].span
                             /\ call'[b].headers = call[b].headers /\ call'[b].kept = call[b].kept
        /\ \A q \in Requests : q # r => via'[q] = via[q]
        /\ via'[r].ctx = call[a].ctx /\ via'[r].span = call[a].span
        /\ via'[r].kept = call[a].kept
    BY <1>4, ServeCallView
  <2>2. /\ \A q \in Requests : q # r => request'[q] = request[q]
        /\ request'[r].inbound.trace = Extract(call[a].headers).trace
        /\ request'[r].inbound.span = Extract(call[a].headers).span
        /\ request'[r].inbound = Received(layer, call[a].headers)
    BY <2>1, ServeView
  <2>3. \A b \in Actors : call'[b].kept => KeptBy(call'[b])
    BY <1>0, <2>1
  <2>4. ASSUME NEW q \in Requests, via'[q].kept PROVE Continues(q)'
    <3>1. CASE q = r
      BY <1>0, <2>1, <2>2, <2>4, <3>1 DEF Kept
    <3>2. CASE q # r
      BY <1>0, <2>1, <2>2, <2>4, <3>2
    <3> QED BY <3>1, <3>2
  <2> QED BY <1>1, <2>3, <2>4
<1>5. ASSUME NEW r \in Requests, RunCall(r) \/ RunCallEnd(r) PROVE Keeps'
  <2>1. /\ \A q \in Requests : request'[q].inbound = request[q].inbound
        /\ UNCHANGED <<call, via>>
    BY <1>5, RunView DEF history
  <2> QED BY <1>2, <2>1
<1>6. ASSUME NEW r \in Requests, Respond(r) \/ CancelRequest(r) \/ PanicInRun(r) PROVE Keeps'
  <2>1. Ended(r) /\ \E phase \in {"done", "left"} : EndRequest(r, phase)
    BY <1>6, EndView
  <2>2. /\ \A q \in Requests : q # r => request'[q] = request[q] /\ via'[q] = via[q]
        /\ ~via'[r].kept
    BY <2>1, EndRequestView
  <2>3. \A b \in Actors : call'[b] = call[b] \/ call'[b] = NoCall
    BY <2>1 DEF Ended
  <2>4. \A b \in Actors : call'[b].kept => KeptBy(call'[b])
    BY <1>0, <2>3, RecordsAre
  <2>5. \A q \in Requests : via'[q].kept => Continues(q)'
    BY <1>0, <2>2
  <2> QED BY <1>1, <2>4, <2>5
<1>7. ASSUME NEW a \in Actors, NEW hub \in Actors, NEW with \in Settings,
             NEW forwards \in BOOLEAN, StartCall(a, hub, with, forwards)
      PROVE  Keeps'
  <2>1. /\ \A b \in Actors : b # a => call'[b] = call[b]
        /\ call'[a].kept => KeptBy(call'[a])
    BY <1>7, StartCallView
  <2>2. UNCHANGED <<request, via>>
    BY <1>7 DEF StartCall, history
  <2>3. \A b \in Actors : call'[b].kept => KeptBy(call'[b])
    BY <1>0, <2>1
  <2>4. \A q \in Requests : via'[q].kept => Continues(q)'
    BY <1>0, <2>2
  <2> QED BY <1>1, <2>3, <2>4
<1>8. ASSUME NEW a \in Actors, EndCall(a) \/ CancelCall(a) PROVE Keeps'
  <2>1. /\ call'[a] = NoCall /\ \A b \in Actors : b # a => call'[b] = call[b]
        /\ UNCHANGED <<request, via>>
    BY <1>8, EndCallView DEF history
  <2>2. \A b \in Actors : call'[b].kept => KeptBy(call'[b])
    BY <1>0, <2>1, RecordsAre
  <2>3. \A q \in Requests : via'[q].kept => Continues(q)'
    BY <1>0, <2>1
  <2> QED BY <1>1, <2>2, <2>3
<1>9. CASE \/ UNCHANGED vars
           \/ \E a \in Actors :
                \/ StartTransaction(a) \/ \E s \in DOMAIN spans : StartChild(a, s)
                \/ \E hub \in Actors : \/ Query(a, hub) \/ SetIds(a, hub)
                                       \/ \E form \in {"loose", "junk"} : SetOwnId(a, hub, form)
           \/ \E s \in DOMAIN spans : EndSpan(s)
  <2>1. ASSUME NEW a \in Actors, NEW hub \in Actors,
               \/ SetIds(a, hub) \/ \E form \in {"loose", "junk"} : SetOwnId(a, hub, form)
        PROVE  UNCHANGED <<request, call, via>>
    BY <2>1 DEF SetIds, SetOwnId, Publish
  <2>2. UNCHANGED <<request, call, via>>
    BY <1>9, <2>1 DEF vars, history, StartTransaction, Query, StartChild, EndSpan
  <2> QED BY <1>2, <2>2
<1>10. /\ \A r \in Requests : LayersOf[r] \subseteq Layers
       /\ \A a \in Actors : SettingsOf[a] \subseteq Settings
  BY DEF TracingAssumption, Actors
<1> HIDE DEF KeptBy, Continues
<1>11. ASSUME NEW r \in Requests, RequestSteps(r) PROVE Keeps'
  BY <1>3, <1>4, <1>5, <1>6, <1>10, <1>11, ActorsAre DEF RequestSteps
<1>12. ASSUME NEW a \in Actors, ActorSteps(a) PROVE Keeps'
  BY <1>7, <1>8, <1>9, <1>10, <1>12, ActorsAre DEF ActorSteps, HubSteps
<1> QED BY <1>9, <1>11, <1>12, NextIs

-----------------------------------------------------------------------------
(* Trees *)

TreeRequest(r) ==
  /\ request[r].layer # "actix" => Belongs(context[r], spans, mixed)
  /\ Traveled(request[r].inbound, spans)
  /\ request[r].span # NoSpan /\ request[r].inbound.trace # NoTrace =>
       spans[request[r].span].trace = request[r].inbound.trace
TreeCall(a) ==
  /\ Traveled(Extract(call[a].headers), spans)
  /\ call[a].span # NoSpan => spans[call[a].span].trace = call[a].ctx.trace
TreeSpan(s) ==
  LET p == spans[s].parent IN
  p > 0 =>
    /\ p < s
    /\ \/ spans[p].trace = spans[s].trace
       \/ spans[s].kind = "server" /\ spans[p].trace.form # "wire"
       \/ p \in mixed
TreeRecord ==
  record.span > 0 =>
    \/ spans[record.span].trace = record.trace
    \/ record.kind = "db" /\ record.span \in mixed
    \/ record.kind = "inbound" /\ record.trace = NoTrace

LEMMA TreesParts ==
  Trees <=> /\ Belongs(context[Main], spans, mixed)
            /\ \A r \in Requests : TreeRequest(r)
            /\ \A a \in Actors : TreeCall(a)
            /\ \A s \in DOMAIN spans : TreeSpan(s)
            /\ TreeRecord
BY DEF Trees, OneTree, TreeRequest, TreeCall, TreeSpan, TreeRecord

LEMMA TreesPartsNext ==
  ASSUME Belongs(context'[Main], spans', mixed'),
         \A r \in Requests : TreeRequest(r)', \A a \in Actors : TreeCall(a)',
         \A s \in DOMAIN spans' : TreeSpan(s)', TreeRecord'
  PROVE  Trees'
BY DEF Trees, OneTree, TreeRequest, TreeCall, TreeSpan, TreeRecord

(* Spans are only added and closed: they stay in their trace *)
Grown ==
  /\ Len(spans) \in Nat /\ Len(spans') \in Nat /\ Len(spans) <= Len(spans')
  /\ DOMAIN spans = 1..Len(spans) /\ DOMAIN spans' = 1..Len(spans')
  /\ \A s \in DOMAIN spans : /\ spans'[s].trace = spans[s].trace /\ spans'[s].by = spans[s].by
                             /\ spans'[s].parent = spans[s].parent
                             /\ spans'[s].kind = spans[s].kind
  /\ mixed \subseteq mixed'

LEMMA Grows ==
  ASSUME TypeOK, mixed \subseteq mixed'
  PROVE  /\ UNCHANGED spans => Grown
         /\ \A ss : Closed(ss) => Grown
         /\ \A sp : Added(sp) => Grown
<1>1. Len(spans) \in Nat /\ DOMAIN spans = 1..Len(spans)
  BY SpansAre
<1> QED BY <1>1 DEF Grown, Closed, Added

LEMMA GrownKeeps ==
  ASSUME TypeOK, Grown, NEW ctx \in TraceContexts
  PROVE  /\ Belongs(ctx, spans, mixed) => Belongs(ctx, spans', mixed')
         /\ Traveled(ctx, spans) => Traveled(ctx, spans')
<1>1. ctx.span \in Int
  BY ContextsAre
<1> QED BY <1>1 DEF Grown, Belongs, Traveled

(* A context with no span of this process is in any tree *)
LEMMA OutsideBelongs ==
  ASSUME NEW ctx, NEW ss, NEW mx, ctx.span \in {0, -1}
  PROVE  Belongs(ctx, ss, mx) /\ Traveled(ctx, ss)
BY DEF Belongs, Traveled

(* The context of a hub that code finds current *)
LEMMA CurrentBelongs ==
  ASSUME TypeOK, Idle, Trees, NEW hub \in Actors,
         hub # Main => hub \in Requests /\ request[hub].layer # "actix"
  PROVE  Belongs(context[hub], spans, mixed)
BY DEF Trees

LEMMA AmbientIs ==
  ASSUME TypeOK, Idle, NEW hub \in Ambient
  PROVE  hub \in Actors /\ (hub # Main => hub \in Requests /\ request[hub].layer # "actix")
BY ActorsAre DEF Ambient, Idle

LEMMA RequestStays ==
  ASSUME TypeOK, Grown, NEW r \in Requests, TreeRequest(r),
         request'[r].layer = request[r].layer, request'[r].inbound = request[r].inbound,
         request'[r].span = request[r].span, context'[r] = context[r]
  PROVE  TreeRequest(r)'
<1>1. context[r] \in TraceContexts /\ request[r].inbound \in TraceContexts
  BY TypeParts, ActorsAre DEF TypeRequests, Served
<1>2. request[r].span # NoSpan => spans'[request[r].span].trace = spans[request[r].span].trace
  BY Named DEF Grown
<1> QED BY <1>1, <1>2, GrownKeeps DEF TreeRequest

LEMMA CallStays ==
  ASSUME TypeOK, Grown, NEW a \in Actors, TreeCall(a),
         call'[a].headers = call[a].headers, call'[a].span = call[a].span,
         call'[a].ctx = call[a].ctx
  PROVE  TreeCall(a)'
<1>1. Extract(call[a].headers) \in TraceContexts
  BY TypeParts, ExtractIs DEF TypeCalls, Call
<1>2. call[a].span # NoSpan => spans'[call[a].span].trace = spans[call[a].span].trace
  BY Named DEF Grown
<1> QED BY <1>1, <1>2, GrownKeeps DEF TreeCall

LEMMA CallGone ==
  ASSUME NEW a \in Actors, call'[a] = NoCall PROVE TreeCall(a)'
<1>1. Extract(NoHeaders).span = 0
  BY NoHeadersRead DEF NoSpan
<1> QED BY <1>1, RecordsAre, OutsideBelongs DEF TreeCall

LEMMA SpansStay ==
  ASSUME TypeOK, Grown, \A s \in DOMAIN spans : TreeSpan(s)
  PROVE  \A s \in DOMAIN spans : TreeSpan(s)'
<1> SUFFICES ASSUME NEW s \in DOMAIN spans, spans'[s].parent > 0
             PROVE  /\ spans'[s].parent < s
                    /\ \/ spans'[spans'[s].parent].trace = spans'[s].trace
                       \/ spans'[s].kind = "server" /\ spans'[spans'[s].parent].trace.form # "wire"
                       \/ spans'[s].parent \in mixed'
  BY DEF TreeSpan
<1>1. TreeSpan(s) /\ s \in Nat /\ s <= Len(spans) /\ spans[s].parent \in Int
  BY SpansAre DEF Span
<1>2. PICK p \in Int : p = spans[s].parent
  BY <1>1
<1>3. /\ spans'[s].parent = p /\ spans'[s].trace = spans[s].trace /\ spans'[s].kind = spans[s].kind
      /\ p > 0
  BY <1>2 DEF Grown
<1>4. /\ p < s
      /\ \/ spans[p].trace = spans[s].trace
         \/ spans[s].kind = "server" /\ spans[p].trace.form # "wire"
         \/ p \in mixed
  BY <1>1, <1>2, <1>3 DEF TreeSpan
<1>5. p \in DOMAIN spans
  BY <1>1, <1>3, <1>4, SpansAre
<1>6. spans'[p].trace = spans[p].trace /\ mixed \subseteq mixed'
  BY <1>5 DEF Grown
<1> QED BY <1>3, <1>4, <1>6

LEMMA NewSpanInTree ==
  ASSUME TypeOK, NEW sp \in Span, Added(sp), mixed \subseteq mixed', NEW new, new = Len(spans) + 1,
         sp.parent > 0 =>
           /\ sp.parent <= Len(spans)
           /\ \/ spans[sp.parent].trace = sp.trace
              \/ sp.kind = "server" /\ spans[sp.parent].trace.form # "wire"
              \/ sp.parent \in mixed
  PROVE  TreeSpan(new)'
<1>1. new \in Nat /\ sp.parent \in Int /\ spans'[new] = sp
  BY SpansAre DEF Added, Span
<1>2. sp.parent > 0 /\ sp.parent <= Len(spans) =>
        sp.parent < new /\ spans'[sp.parent] = spans[sp.parent]
  BY <1>1 DEF Added
<1> QED BY <1>1, <1>2 DEF TreeSpan

LEMMA TreesServe ==
  ASSUME TypeOK, Idle, Trees, NEW r \in Requests, NEW layer \in Layers, NEW h \in Headers,
         NEW hub \in Ambient, Serve(r, layer, h, hub),
         request[r].phase = "none", Traveled(Extract(h), spans), NoneSent,
         \A b \in Actors : /\ call'[b].headers = call[b].headers
                           /\ call'[b].span = call[b].span /\ call'[b].ctx = call[b].ctx
  PROVE  Trees'
<1>0. /\ Belongs(context[Main], spans, mixed)
      /\ \A q \in Requests : TreeRequest(q)
      /\ \A a \in Actors : TreeCall(a)
      /\ \A s \in DOMAIN spans : TreeSpan(s)
  BY TreesParts
<1>a. hub \in Actors /\ Belongs(context[hub], spans, mixed)
  BY AmbientIs, CurrentBelongs
<1>b. mixed' = IF layer = "axum_no_span" THEN mixed \cup Mixes(context'[r]) ELSE mixed
  BY <1>a, ServeView
<1>c. mixed \subseteq mixed'
  BY <1>b
<1>1. PICK read \in TraceContexts : read = Extract(h)
  BY ExtractIs
<1>2. PICK inbound \in TraceContexts :
        inbound = Received(layer, h) /\ inbound.trace = read.trace /\ inbound.span = read.span
  BY <1>1, ReceivedIs
<1>3. /\ \A q \in Requests : q # r => request'[q] = request[q]
      /\ request'[r].layer = layer /\ request'[r].inbound = inbound
      /\ \A b \in Actors : b # r => context'[b] = context[b]
  BY <1>a, <1>2, ServeView
<1>d. Traveled(inbound, spans)
  BY <1>1, <1>2 DEF Traveled
<1>4. ASSUME Grown, TreeRequest(r)', \A s \in DOMAIN spans' \ DOMAIN spans : TreeSpan(s)'
      PROVE  Trees'
  <2>1. Belongs(context'[Main], spans', mixed')
    <3>1. context'[Main] = context[Main] /\ context[Main] \in TraceContexts
      BY <1>3, ActorsAre, TypeParts DEF TypeRequests
    <3> QED BY <1>0, <1>4, <3>1, GrownKeeps
  <2>2. ASSUME NEW q \in Requests PROVE TreeRequest(q)'
    <3>1. CASE q = r
      BY <1>4, <3>1
    <3>2. CASE q # r
      <4>1. request'[q] = request[q] /\ context'[q] = context[q]
        BY <1>3, <3>2, ActorsAre
      <4> QED BY <1>0, <1>4, <4>1, RequestStays
    <3> QED BY <3>1, <3>2
  <2>3. \A a \in Actors : TreeCall(a)'
    BY <1>0, <1>4, CallStays
  <2>4. \A s \in DOMAIN spans' : TreeSpan(s)'
    BY <1>0, <1>4, SpansStay
  <2>5. TreeRecord'
    BY DEF NoneSent, NoRecord, TreeRecord, NoSpan
  <2> QED BY <2>1, <2>2, <2>3, <2>4, <2>5, TreesPartsNext
<1>5. CASE layer = "axum"
  <2>1. request'[r].span = Len(spans) + 1 /\ context'[r].span = Len(spans) + 1
    BY <1>a, <1>5, ServeView
  <2>2. PICK sp \in Span :
          /\ Added(sp) /\ context'[r].trace = sp.trace /\ sp.by = r /\ sp.kind = "server"
          /\ sp.parent = inbound.span /\ sp.trace = ContinuedTrace(inbound.trace)
    BY <1>a, <1>1, <1>2, <1>5, ServeView
  <2>3. Grown
    BY <1>c, <2>2, Grows
  <2>4. inbound.trace # NoTrace => sp.trace = inbound.trace
    BY <2>2, ContextsAre, ContinuedIs
  <2>5. PICK new : new = Len(spans) + 1 /\ new = Len(spans') /\ spans'[new] = sp /\ new # NoSpan
    BY <2>2, SpansAre DEF Added, NoSpan
  <2>6. TreeRequest(r)'
    <3>1. Belongs(context'[r], spans', mixed')
      BY <2>1, <2>2, <2>3, <2>5 DEF Belongs, Grown
    <3>2. Traveled(inbound, spans')
      BY <1>d, <2>3, GrownKeeps
    <3> QED BY <1>3, <2>1, <2>4, <2>5, <3>1, <3>2 DEF TreeRequest
  <2>7. ASSUME sp.parent > 0
        PROVE  /\ sp.parent <= Len(spans)
               /\ \/ spans[sp.parent].trace = sp.trace
                  \/ sp.kind = "server" /\ spans[sp.parent].trace.form # "wire"
    <3>1. /\ inbound.span <= Len(spans)
          /\ spans[inbound.span].trace.form # "wire" \/ spans[inbound.span].trace = inbound.trace
      BY <1>d, <2>2, <2>7 DEF Traveled
    <3>2. inbound.span \in DOMAIN spans
      BY <2>2, <2>7, <3>1, ContextsAre, SpansAre
    <3>3. spans[inbound.span].trace # NoTrace
      BY <3>2, SpansAre, IdsAre DEF Span
    <3> QED BY <2>2, <2>4, <3>1, <3>3
  <2>8. TreeSpan(new)'
    BY <1>c, <2>2, <2>5, <2>7, NewSpanInTree
  <2>9. \A s \in DOMAIN spans' \ DOMAIN spans : s = new
    BY <2>2, <2>5 DEF Added
  <2>10. \A s \in DOMAIN spans' \ DOMAIN spans : TreeSpan(s)'
    BY <2>8, <2>9
  <2> QED BY <1>4, <2>3, <2>6, <2>10
<1>6. CASE layer # "axum"
  <2>1. /\ request'[r].span = NoSpan /\ UNCHANGED spans
        /\ context'[r].span = context[hub].span
    BY <1>a, <1>6, ServeView
  <2>2. Grown /\ Traveled(inbound, spans')
    BY <1>c, <1>d, <2>1, Grows
  <2>3. layer # "actix" => Belongs(context'[r], spans', mixed')
    <3>1. SUFFICES ASSUME layer = "axum_no_span", context[hub].span > 0
                   PROVE  /\ context[hub].span <= Len(spans)
                          /\ \/ spans[context[hub].span].trace = context'[r].trace
                             \/ context[hub].span \in mixed'
      BY <1>6, <2>1 DEF Layers, Belongs
    <3>2. context[hub].span \in Int /\ context[hub].span <= Len(spans)
      BY <1>a, <3>1, TypeParts, ContextsAre DEF TypeRequests, Belongs
    <3>3. context[hub].span \in DOMAIN spans
      BY <3>1, <3>2, SpansAre
    <3>4. \A s : s \in Mixes(context'[r]) <=> /\ s = context'[r].span /\ s \in DOMAIN spans
                                              /\ spans[s].trace # context'[r].trace
      BY MixesAre
    <3> QED BY <1>b, <2>1, <3>1, <3>2, <3>3, <3>4
  <2>4. TreeRequest(r)'
    BY <1>3, <2>1, <2>2, <2>3 DEF TreeRequest
  <2> QED BY <1>4, <2>1, <2>2, <2>4
<1> QED BY <1>5, <1>6

(* The requests, calls and spans of a step that leaves what they name as it was *)
LEMMA TreesKept ==
  ASSUME TypeOK, Trees, Grown, UNCHANGED <<request, call>>,
         \A b \in Actors : context'[b] = context[b] \/ Belongs(context'[b], spans', mixed'),
         \A s \in DOMAIN spans' \ DOMAIN spans : TreeSpan(s)', TreeRecord'
  PROVE  Trees'
<1>0. /\ Belongs(context[Main], spans, mixed)
      /\ \A q \in Requests : TreeRequest(q)
      /\ \A a \in Actors : TreeCall(a)
      /\ \A s \in DOMAIN spans : TreeSpan(s)
  BY TreesParts
<1>1. \A b \in Actors : context[b] \in TraceContexts
  BY TypeParts DEF TypeRequests
<1>2. Belongs(context'[Main], spans', mixed')
  BY <1>0, <1>1, ActorsAre, GrownKeeps
<1>3. ASSUME NEW q \in Requests PROVE TreeRequest(q)'
  <2>1. request[q].inbound \in TraceContexts /\ context[q] \in TraceContexts
    BY <1>1, TypeParts, ActorsAre DEF TypeRequests, Served
  <2>2. request[q].span # NoSpan => spans'[request[q].span].trace = spans[request[q].span].trace
    BY Named DEF Grown
  <2>3. request[q].layer # "actix" => Belongs(context'[q], spans', mixed')
    <3>1. context'[q] = context[q] \/ Belongs(context'[q], spans', mixed')
      BY ActorsAre
    <3> QED BY <1>0, <2>1, <3>1, GrownKeeps DEF TreeRequest
  <2> QED BY <1>0, <2>1, <2>2, <2>3, GrownKeeps DEF TreeRequest
<1>4. \A a \in Actors : TreeCall(a)'
  BY <1>0, CallStays
<1>5. \A s \in DOMAIN spans : TreeSpan(s)'
  BY <1>0, SpansStay
<1>6. \A s \in DOMAIN spans' : TreeSpan(s)'
  BY <1>5
<1> QED BY <1>2, <1>3, <1>4, <1>6, TreesPartsNext

LEMMA NoRecordInTree == record' = NoRecord => TreeRecord'
BY DEF NoRecord, TreeRecord, NoSpan

LEMMA TreesRequest ==
  ASSUME TypeOK, Idle, Trees, NEW r \in Requests, RequestSteps(r)
  PROVE  Trees'
<1>0. /\ LayersOf[r] \subseteq Layers /\ r \in Actors
      /\ Belongs(context[Main], spans, mixed)
      /\ \A q \in Requests : TreeRequest(q)
      /\ \A a \in Actors : TreeCall(a)
      /\ \A s \in DOMAIN spans : TreeSpan(s)
  BY TreesParts, ActorsAre DEF TracingAssumption
<1>1. ASSUME NEW layer \in Layers, NEW hub \in Ambient, NEW h \in ExternalHeaders,
             ServeExternal(r, layer, h, hub)
      PROVE  Trees'
  <2>1. /\ h \in Headers /\ Serve(r, layer, h, hub) /\ request[r].phase = "none"
        /\ UNCHANGED call /\ NoneSent
    BY <1>1, ExternalAre DEF ServeExternal
  <2>2. Traveled(Extract(h), spans)
    BY ExternalAre, OutsideBelongs
  <2> QED BY <2>1, <2>2, TreesServe
<1>2. ASSUME NEW layer \in Layers, NEW hub \in Ambient, NEW a \in Actors,
             ServeCall(r, layer, a, hub)
      PROVE  Trees'
  <2>1. /\ request[r].phase = "none" /\ call[a].headers \in Headers
        /\ Serve(r, layer, call[a].headers, hub) /\ NoneSent
        /\ \A b \in Actors : /\ call'[b].headers = call[b].headers
                             /\ call'[b].span = call[b].span /\ call'[b].ctx = call[b].ctx
    BY <1>2, AmbientIs, ServeCallView
  <2>2. Traveled(Extract(call[a].headers), spans)
    BY <1>0 DEF TreeCall
  <2> QED BY <2>1, <2>2, TreesServe
<1>3. CASE RunCall(r) \/ RunCallEnd(r)
  <2>1. /\ \A q \in Requests : q # r => request'[q] = request[q]
        /\ request'[r].layer = request[r].layer /\ request'[r].span = request[r].span
        /\ request'[r].inbound = request[r].inbound
        /\ UNCHANGED <<context, call, spans, mixed>> /\ NoneSent
    BY <1>3, RunView DEF history
  <2>2. Grown
    BY <2>1, Grows
  <2>3. \A q \in Requests : /\ request'[q].layer = request[q].layer
                            /\ request'[q].span = request[q].span
                            /\ request'[q].inbound = request[q].inbound
    BY <2>1
  <2>4. \A q \in Requests : TreeRequest(q)'
    BY <1>0, <2>1, <2>2, <2>3, RequestStays
  <2>5. \A a \in Actors : TreeCall(a)'
    BY <1>0, <2>1, <2>2, CallStays
  <2>6. \A s \in DOMAIN spans : TreeSpan(s)'
    BY <1>0, <2>2, SpansStay
  <2>7. TreeRecord'
    BY <2>1, NoRecordInTree DEF NoneSent
  <2> QED BY <1>0, <2>1, <2>4, <2>5, <2>6, <2>7, TreesPartsNext
<1>4. CASE Respond(r) \/ CancelRequest(r) \/ PanicInRun(r)
  <2>0. PICK phase \in {"done", "left"} : EndRequest(r, phase)
    BY <1>4, EndView
  <2>1. /\ Ended(r) /\ UNCHANGED mixed
        /\ \/ NoneSent
           \/ record' = [kind |-> "inbound", by |-> r, trace |-> request[r].inbound.trace,
                         span |-> request[r].span]
    BY <1>4, EndView
  <2>2. /\ \A q \in Requests : q # r => request'[q] = request[q]
        /\ request'[r].inbound = NoContext
        /\ request'[r].layer = request[r].layer /\ request'[r].span = request[r].span
        /\ \A b \in Actors : b # r => context'[b] = context[b]
        /\ context'[r] \in {context[r], NoContext}
    BY <2>0, EndRequestView
  <2>3. PICK ss : Closed(ss)
    BY <2>1 DEF Ended
  <2>4. Grown /\ DOMAIN spans' = DOMAIN spans
    BY <2>1, <2>3, Grows DEF Closed
  <2>5. Belongs(context'[Main], spans', mixed')
    <3>1. context'[Main] = context[Main] /\ context[Main] \in TraceContexts
      BY <2>2, ActorsAre, TypeParts DEF TypeRequests
    <3> QED BY <1>0, <2>4, <3>1, GrownKeeps
  <2>6. ASSUME NEW q \in Requests PROVE TreeRequest(q)'
    <3>1. CASE q = r
      <4>1. NoContext.span \in {0, -1}
        BY ContextsAre DEF NoSpan
      <4>2. Traveled(request'[r].inbound, spans')
        BY <2>2, <4>1, OutsideBelongs
      <4>3. request[r].layer # "actix" => Belongs(context'[r], spans', mixed')
        <5>1. CASE context'[r] = NoContext
          BY <4>1, <5>1, OutsideBelongs
        <5>2. CASE context'[r] = context[r]
          <6>1. context[r] \in TraceContexts
            BY TypeParts, ActorsAre DEF TypeRequests
          <6> QED BY <1>0, <2>4, <5>2, <6>1, GrownKeeps DEF TreeRequest
        <5> QED BY <2>2, <5>1, <5>2
      <4> QED BY <2>2, <3>1, <4>2, <4>3, ContextsAre DEF TreeRequest
    <3>2. CASE q # r
      <4>1. request'[q] = request[q] /\ context'[q] = context[q]
        BY <2>2, <3>2, ActorsAre
      <4> QED BY <1>0, <2>4, <4>1, RequestStays
    <3> QED BY <3>1, <3>2
  <2>7. ASSUME NEW a \in Actors PROVE TreeCall(a)'
    <3>1. call'[a] = NoCall \/ call'[a] = call[a]
      BY <2>1 DEF Ended
    <3> QED BY <1>0, <2>4, <3>1, CallStays, CallGone
  <2>8. \A s \in DOMAIN spans : TreeSpan(s)'
    BY <1>0, <2>4, SpansStay
  <2>9. TreeRecord'
    <3>1. CASE NoneSent
      BY <3>1, NoRecordInTree DEF NoneSent
    <3>2. CASE record' = [kind |-> "inbound", by |-> r, trace |-> request[r].inbound.trace,
                          span |-> request[r].span]
      <4>1. /\ record'.kind = "inbound" /\ record'.trace = request[r].inbound.trace
            /\ record'.span = request[r].span
        BY <3>2
      <4>2. request[r].span # NoSpan => spans'[request[r].span].trace = spans[request[r].span].trace
        BY <2>4, Named DEF Grown
      <4>3. request[r].span # NoSpan /\ request[r].inbound.trace # NoTrace =>
              spans[request[r].span].trace = request[r].inbound.trace
        BY <1>0 DEF TreeRequest
      <4> QED BY <4>1, <4>2, <4>3 DEF TreeRecord, NoSpan
    <3> QED BY <2>1, <3>1, <3>2
  <2> QED BY <2>4, <2>5, <2>6, <2>7, <2>8, <2>9, TreesPartsNext
<1> QED BY <1>0, <1>1, <1>2, <1>3, <1>4 DEF RequestSteps

LEMMA TreesActor ==
  ASSUME TypeOK, Idle, Trees, NEW a \in Actors, ActorSteps(a)
  PROVE  Trees'
<1>0. /\ SettingsOf[a] \subseteq Settings
      /\ Belongs(context[Main], spans, mixed)
      /\ \A q \in Requests : TreeRequest(q)
      /\ \A b \in Actors : TreeCall(b)
      /\ \A s \in DOMAIN spans : TreeSpan(s)
  BY TreesParts DEF TracingAssumption, Actors
<1>1. CASE StartTransaction(a) \/ \E s \in DOMAIN spans : StartChild(a, s)
  <2>1. PICK sp \in Span :
          /\ Added(sp)
          /\ \/ sp.parent = NoSpan
             \/ sp.parent \in DOMAIN spans /\ sp.trace = spans[sp.parent].trace
    BY <1>1, AppSpanView
  <2>2. PICK new : new = Len(spans) + 1
    OBVIOUS
  <2>5. UNCHANGED <<context, request, call, mixed>> /\ NoneSent
    BY <1>1 DEF StartTransaction, StartChild, history
  <2>3. Grown /\ \A s \in DOMAIN spans' \ DOMAIN spans : s = new
    BY <2>1, <2>2, <2>5, Grows DEF Added
  <2>4. TreeSpan(new)'
    BY <2>1, <2>2, <2>5, SpansAre, NewSpanInTree DEF NoSpan
  <2> QED BY <2>3, <2>4, <2>5, TreesKept, NoRecordInTree DEF NoneSent
<1>a. ASSUME NEW hub \in CurrentHubs(a), Free(a)
      PROVE  hub \in Actors /\ Belongs(context[hub], spans, mixed)
  BY <1>a, CurrentIs, CurrentBelongs
<1>2. ASSUME NEW hub \in CurrentHubs(a), Query(a, hub) PROVE Trees'
  <2>1. UNCHANGED <<context, request, call, spans, mixed>> /\ record' = build_record(a, hub)
    BY <1>2 DEF Query, history
  <2>2. TreeRecord'
    <3>1. /\ record'.kind = "db" /\ record'.trace = context[hub].trace
          /\ record'.span = context[hub].span
      BY <2>1 DEF build_record
    <3>2. Belongs(context[hub], spans, mixed)
      BY <1>a, <1>2 DEF Query
    <3> QED BY <2>1, <3>1, <3>2 DEF TreeRecord, Belongs
  <2> QED BY <2>1, <2>2, Grows, TreesKept
<1>3. ASSUME NEW hub \in CurrentHubs(a),
             SetIds(a, hub) \/ \E form \in {"loose", "junk"} : SetOwnId(a, hub, form)
      PROVE  Trees'
  <2>0. Free(a)
    BY <1>3 DEF SetIds, SetOwnId, Publish
  <2>1. hub \in Actors /\ Belongs(context[hub], spans, mixed)
    BY <1>a, <2>0
  <2>2. PICK trace \in Ids, span \in Int :
          /\ Publish(a, hub, trace, span)
          /\ span \in {context[hub].span, NoSpan} \/ OwnSpan(a, span)
    BY <1>3, <2>1, PublishesIs
  <2>3. /\ \A b \in Actors : b # hub => context'[b] = context[b]
        /\ context'[hub].trace = trace /\ context'[hub].span = span
        /\ \A s : s \in mixed' <=> \/ s \in mixed
                                   \/ s = span /\ s \in DOMAIN spans /\ spans[s].trace # trace
    BY <2>1, <2>2, PublishView
  <2>4. UNCHANGED <<request, call, spans>> /\ NoneSent
    BY <2>2 DEF Publish
  <2>5. Grown
    BY <2>3, <2>4, Grows
  <2>6. Belongs(context'[hub], spans', mixed')
    <3>1. span > 0 => span \in DOMAIN spans /\ span <= Len(spans)
      BY <2>1, <2>2, SpansAre DEF OwnSpan, NoSpan, Belongs
    <3> QED BY <2>3, <2>4, <3>1 DEF Belongs
  <2> QED BY <2>3, <2>4, <2>5, <2>6, TreesKept, NoRecordInTree DEF NoneSent
<1>6. CASE EndCall(a) \/ CancelCall(a)
  <2>1. /\ call'[a] = NoCall /\ \A b \in Actors : b # a => call'[b] = call[b]
        /\ Closed({call[a].span}) /\ UNCHANGED <<context, request, mixed>>
        /\ \/ record' = NoRecord
           \/ record' = [kind |-> "outbound", by |-> a, trace |-> call[a].ctx.trace,
                         span |-> call[a].span]
    BY <1>6, EndCallView DEF history
  <2>2. Grown /\ DOMAIN spans' = DOMAIN spans
    BY <2>1, Grows DEF Closed
  <2>3. Belongs(context'[Main], spans', mixed')
    <3>1. context[Main] \in TraceContexts
      BY ActorsAre, TypeParts DEF TypeRequests
    <3> QED BY <1>0, <2>1, <2>2, <3>1, GrownKeeps
  <2>4. \A q \in Requests : TreeRequest(q)'
    BY <1>0, <2>1, <2>2, RequestStays
  <2>5. \A b \in Actors : TreeCall(b)'
    BY <1>0, <2>1, <2>2, CallStays, CallGone
  <2>6. \A s \in DOMAIN spans : TreeSpan(s)'
    BY <1>0, <2>1, <2>2, SpansStay
  <2>7. TreeRecord'
    <3>1. CASE record' = NoRecord
      BY <3>1, NoRecordInTree
    <3>2. CASE record' = [kind |-> "outbound", by |-> a, trace |-> call[a].ctx.trace,
                          span |-> call[a].span]
      <4>1. record'.trace = call[a].ctx.trace /\ record'.span = call[a].span
        BY <3>2
      <4>2. call[a].span # NoSpan => spans'[call[a].span].trace = call[a].ctx.trace
        BY <1>0, <2>2, Named DEF Grown, TreeCall
      <4> QED BY <4>1, <4>2 DEF TreeRecord, NoSpan
    <3> QED BY <2>1, <3>1, <3>2
  <2> QED BY <2>2, <2>3, <2>4, <2>5, <2>6, <2>7, TreesPartsNext
<1>7. ASSUME NEW hub \in CurrentHubs(a), NEW with \in Settings, NEW forwards \in BOOLEAN,
             StartCall(a, hub, with, forwards)
      PROVE  Trees'
  <2>1. UNCHANGED <<context, request, mixed>> /\ NoneSent /\ Free(a)
    BY <1>7 DEF StartCall, history
  <2>6. hub \in Actors /\ Belongs(context[hub], spans, mixed)
    BY <1>a, <2>1
  <2>2. PICK ctx \in TraceContexts, span \in Nat, h \in Headers :
          ctx = call'[a].ctx /\ span = call'[a].span /\ h = call'[a].headers
    <3>1. call'[a] \in Call
      BY <1>7, <2>6, StartCallView
    <3> QED BY <3>1 DEF Call
  <2>3. /\ \A b \in Actors : b # a => call'[b] = call[b]
        /\ ctx.trace = ContinuedTrace(context[hub].trace) /\ ctx.span = context[hub].span
        /\ Reads(a, ctx, span, h)
    BY <1>7, <2>2, <2>6, StartCallView
  <2>4. UNCHANGED <<context, request>> /\ NoneSent
    BY <2>1
  <2>5. context[hub].trace \in Ids /\ context[hub].span \in Int
    BY <2>6, TypeParts, ContextsAre DEF TypeRequests
  <2>7. ASSUME Grown, span # NoSpan => spans'[span].trace = ctx.trace /\ span <= Len(spans'),
               \A s \in DOMAIN spans' \ DOMAIN spans : TreeSpan(s)'
        PROVE  Trees'
    <3>1. Belongs(context'[Main], spans', mixed')
      <4>1. context[Main] \in TraceContexts
        BY ActorsAre, TypeParts DEF TypeRequests
      <4> QED BY <1>0, <2>4, <2>7, <4>1, GrownKeeps
    <3>2. \A q \in Requests : TreeRequest(q)'
      BY <1>0, <2>4, <2>7, RequestStays
    <3>3. TreeCall(a)'
      <4>1. PICK x \in TraceContexts : x = Extract(h)
        BY ExtractIs
      <4>2. Traveled(x, spans')
        <5>1. CASE /\ x.span > 0 /\ x.span = span
                   /\ ctx.trace.form # "wire" \/ x.trace = ctx.trace
          <6>1. spans'[x.span].trace = ctx.trace /\ x.span <= Len(spans')
            BY <2>7, <5>1 DEF NoSpan
          <6> QED BY <5>1, <6>1 DEF Traveled
        <5>2. CASE /\ a # Main /\ x.span = request[a].inbound.span
                   /\ x.trace = Lowered(request[a].inbound.trace)
          <6>1. a \in Requests /\ request[a].inbound \in TraceContexts
            BY <5>2, ActorsAre, TypeParts DEF TypeRequests, Served
          <6>2. Traveled(request[a].inbound, spans')
            BY <1>0, <2>7, <6>1, GrownKeeps DEF TreeRequest
          <6>3. PICK id \in Ids : id = request[a].inbound.trace
            BY <6>1, ContextsAre
          <6>4. id.form = "wire" => Lowered(id) = id
            BY DEF Lowered
          <6> QED BY <5>2, <6>2, <6>3, <6>4 DEF Traveled
        <5>3. CASE ~(x.span > 0)
          BY <5>3 DEF Traveled
        <5> QED BY <2>3, <4>1, <5>1, <5>2, <5>3 DEF Reads
      <4> QED BY <2>2, <2>7, <4>1, <4>2 DEF TreeCall
    <3>4. \A b \in Actors : TreeCall(b)'
      BY <1>0, <2>3, <2>7, <3>3, CallStays
    <3>5. \A s \in DOMAIN spans : TreeSpan(s)'
      BY <1>0, <2>4, <2>7, SpansStay
    <3>6. \A s \in DOMAIN spans' : TreeSpan(s)'
      BY <2>7, <3>5
    <3> QED BY <2>4, <3>1, <3>2, <3>4, <3>6, TreesPartsNext, NoRecordInTree DEF NoneSent
  <2>8. CASE span = NoSpan
    <3>1. call'[a].span = NoSpan
      BY <2>2, <2>8
    <3>2. UNCHANGED spans
      BY <1>7, <2>6, <3>1, StartCallView
    <3> QED BY <2>1, <2>7, <2>8, <3>2, Grows
  <2>9. CASE span # NoSpan
    <3>1. span = Len(spans) + 1
      BY <1>7, <2>2, <2>6, <2>9, StartCallView
    <3>2. PICK sp \in Span : Added(sp) /\ sp.by = a /\ sp.trace = ctx.trace /\ sp.parent = ctx.span
      BY <1>7, <2>2, <2>6, <2>9, StartCallView
    <3>3. ASSUME sp.parent > 0
          PROVE  /\ sp.parent <= Len(spans)
                 /\ spans[sp.parent].trace = sp.trace \/ sp.parent \in mixed
      <4>1. /\ sp.parent = context[hub].span /\ sp.parent <= Len(spans)
            /\ spans[sp.parent].trace = context[hub].trace \/ sp.parent \in mixed
        BY <2>3, <2>6, <3>2, <3>3 DEF Belongs
      <4>2. sp.parent \in DOMAIN spans
        BY <3>3, <4>1, SpansAre DEF Span
      <4>3. spans[sp.parent].trace # NoTrace
        BY <4>2, SpansAre, IdsAre DEF Span
      <4> QED BY <2>3, <2>5, <3>2, <4>1, <4>3, ContinuedIs
    <3>4. TreeSpan(span)'
      BY <2>1, <3>1, <3>2, <3>3, NewSpanInTree
    <3>5. Grown /\ \A s \in DOMAIN spans' \ DOMAIN spans : s = span
      BY <2>1, <3>1, <3>2, Grows DEF Added
    <3>6. spans'[span].trace = ctx.trace /\ span <= Len(spans')
      BY <3>1, <3>2 DEF Added
    <3> QED BY <2>7, <3>4, <3>5, <3>6
  <2> QED BY <2>8, <2>9
<1> QED BY <1>0, <1>1, <1>2, <1>3, <1>6, <1>7 DEF ActorSteps, HubSteps

LEMMA TreesStep == TypeOK /\ Idle /\ Trees /\ [Next]_vars => Trees'
<1> SUFFICES ASSUME TypeOK, Idle, Trees, [Next]_vars PROVE Trees'
  OBVIOUS
<1>1. ASSUME NEW s \in DOMAIN spans, EndSpan(s) PROVE Trees'
  <2>1. Closed({s}) /\ UNCHANGED <<context, request, call, mixed>> /\ NoneSent
    BY <1>1, EndCloses DEF EndSpan, history
  <2>2. Grown /\ DOMAIN spans' = DOMAIN spans
    BY <2>1, Grows DEF Closed
  <2> QED BY <2>1, <2>2, TreesKept, NoRecordInTree DEF NoneSent
<1>2. CASE UNCHANGED vars
  BY <1>2 DEF vars, history, Trees, OneTree
<1> QED BY <1>1, <1>2, NextIs, TreesRequest, TreesActor

-----------------------------------------------------------------------------
(* Known *)

(* Whoever acts learns traces only from an actor of its chain, a hub that is  *)
(* ambient, or by starting one.                                              *)
LEMMA KnownLearnt ==
  ASSUME TypeOK, Known, NEW x \in Actors, traces' \in Nat, traces <= traces',
         shared \subseteq shared',
         \A b \in Actors : b # x => Root(b)' = Root(b) /\ \A n \in Nat \ {0} : Knows(b, n)' => Knows(b, n),
         \A n \in Nat \ {0} : Knows(x, n)' =>
           \/ \E c \in Actors : Root(c) = Root(x)' /\ Knows(c, n)
           \/ n \in shared' /\ n <= traces'
           \/ n = traces + 1 /\ n <= traces',
         \A hub \in Ambient' : context'[hub].trace.n \in shared' \cup {0}
  PROVE  Known'
<1>0. traces \in Nat
  BY NewTraceIs
<1>1. /\ \A a \in Actors : \A n \in Nat \ {0} : Knows(a, n) => n <= traces
      /\ \A a, b \in Actors : \A n \in Nat \ {0} :
           Knows(a, n) /\ Knows(b, n) => Root(a) = Root(b) \/ n \in shared
  BY DEF Known
<1>2. ASSUME NEW a \in Actors, NEW n \in Nat \ {0}, Knows(a, n)' PROVE n <= traces'
  <2>1. CASE a = x
    BY <1>0, <1>1, <1>2, <2>1
  <2>2. CASE a # x
    BY <1>0, <1>1, <1>2, <2>2
  <2> QED BY <2>1, <2>2
<1>3. ASSUME NEW b \in Actors, b # x, NEW n \in Nat \ {0}, Knows(x, n)', Knows(b, n)'
      PROVE  Root(x)' = Root(b)' \/ n \in shared'
  <2>1. Knows(b, n) /\ Root(b)' = Root(b) /\ n <= traces
    BY <1>1, <1>3
  <2>2. n # traces + 1
    BY <1>0, <2>1
  <2> QED BY <1>1, <1>3, <2>1, <2>2
<1>4. ASSUME NEW a \in Actors, NEW b \in Actors, NEW n \in Nat \ {0}, Knows(a, n)', Knows(b, n)'
      PROVE  Root(a)' = Root(b)' \/ n \in shared'
  <2>1. CASE a = x /\ b = x
    BY <2>1
  <2>2. CASE a = x /\ b # x
    BY <1>3, <1>4, <2>2
  <2>3. CASE a # x /\ b = x
    BY <1>3, <1>4, <2>3
  <2>4. CASE a # x /\ b # x
    BY <1>1, <1>4, <2>4
  <2> QED BY <2>1, <2>2, <2>3, <2>4
<1> QED BY <1>2, <1>3, <1>4 DEF Known

LEMMA RootKept ==
  ASSUME NEW b \in Actors, b # Main => via'[b].root = via[b].root PROVE Root(b)' = Root(b)
BY DEF Root

(* Spans of an actor, after the step, in the traces of its spans before it *)
SpansOld(b) ==
  \A s \in DOMAIN spans' : spans'[s].by = b =>
    s \in DOMAIN spans /\ spans[s].by = b /\ spans[s].trace = spans'[s].trace

LEMMA SpansOldIf ==
  ASSUME TypeOK
  PROVE  /\ UNCHANGED spans => \A b : SpansOld(b)
         /\ \A ss : Closed(ss) => \A b : SpansOld(b)
         /\ \A sp : Added(sp) => \A b : b # sp.by => SpansOld(b)
<1>1. UNCHANGED spans => \A b : SpansOld(b)
  BY DEF SpansOld
<1>2. \A ss : Closed(ss) => \A b : SpansOld(b)
  BY DEF Closed, SpansOld
<1>3. ASSUME NEW sp, Added(sp), NEW b, b # sp.by PROVE SpansOld(b)
  <2>1. \A s \in DOMAIN spans' : s = Len(spans) + 1 \/ (s \in DOMAIN spans /\ spans'[s] = spans[s])
    BY <1>3 DEF Added
  <2>2. spans'[Len(spans) + 1] = sp
    BY <1>3 DEF Added
  <2> QED BY <1>3, <2>1, <2>2 DEF SpansOld
<1> QED BY <1>1, <1>2, <1>3

(* What an actor knew that the step did nothing to *)
LEMMA NothingLearnt ==
  ASSUME NEW b \in Actors, NEW n \in Nat \ {0}, Knows(b, n)', SpansOld(b),
         context'[b] = context[b] \/ context'[b].trace.n = 0,
         b # Main => request'[b].inbound = request[b].inbound \/ request'[b].inbound.trace.n = 0,
         \/ call'[b].ctx = call[b].ctx /\ call'[b].headers = call[b].headers
         \/ call'[b] = NoCall
  PROVE  Knows(b, n)
<1>1. NoCall.ctx.trace.n = 0 /\ Extract(NoCall.headers).trace.n = 0
  BY NoHeadersRead, RecordsAre, ContextsAre, IdsAre
<1>2. (\E s \in DOMAIN spans' : spans'[s].by = b /\ spans'[s].trace.n = n) =>
        \E s \in DOMAIN spans : spans[s].by = b /\ spans[s].trace.n = n
  BY DEF SpansOld
<1> QED BY <1>1, <1>2 DEF Knows

LEMMA AmbientKept == ASSUME UNCHANGED request PROVE Ambient' = Ambient
BY DEF Ambient

LEMMA KnownForgets ==
  ASSUME TypeOK, Known, UNCHANGED traces, shared \subseteq shared',
         \A hub \in Ambient' : hub \in Ambient \/ context'[hub].trace.n \in shared' \cup {0},
         \A b \in Actors : Root(b)' = Root(b) /\ SpansOld(b),
         \A b \in Actors : context'[b] = context[b] \/ context'[b].trace.n = 0,
         \A b \in Requests :
           request'[b].inbound = request[b].inbound \/ request'[b].inbound.trace.n = 0,
         \A b \in Actors : \/ call'[b].ctx = call[b].ctx /\ call'[b].headers = call[b].headers
                           \/ call'[b] = NoCall
  PROVE  Known'
<1>1. \A b \in Actors : \A n \in Nat \ {0} : Knows(b, n)' => Knows(b, n)
  BY NothingLearnt, ActorsAre
<1>2. traces' \in Nat /\ traces <= traces'
  BY NewTraceIs
<1>3. ASSUME NEW hub \in Ambient' PROVE context'[hub].trace.n \in shared' \cup {0}
  <2>1. CASE hub \in Ambient
    <3>1. hub \in Actors /\ context[hub].trace.n \in shared \cup {0}
      BY <2>1, ActorsAre DEF Ambient, Known
    <3> QED BY <3>1
  <2>2. CASE hub \notin Ambient
    BY <1>3, <2>2
  <2> QED BY <2>1, <2>2
<1> QED BY <1>1, <1>2, <1>3, ActorsAre, KnownLearnt

LEMMA KnownServe ==
  ASSUME TypeOK, Idle, Known, NEW r \in Requests, NEW layer \in Layers, NEW h \in Headers,
         NEW hub \in Ambient, Serve(r, layer, h, hub), request[r].phase = "none", UNCHANGED shared,
         traces' \in {traces, traces + 1},
         layer = "axum" /\ Extract(h).trace = NoTrace => traces' = traces + 1,
         \A b \in Actors : call'[b].headers = call[b].headers /\ call'[b].ctx = call[b].ctx,
         \A q \in Requests : q # r => via'[q].root = via[q].root,
         LET n == Extract(h).trace.n
         IN  \/ n = 0 \/ (n = traces + 1 /\ traces' = traces + 1)
             \/ \E c \in Actors : Root(c) = Root(r)' /\ Knows(c, n)
  PROVE  Known'
<1>a. hub \in Actors /\ context[hub].trace.n \in shared \cup {0}
  BY AmbientIs DEF Known
<1>1. PICK read \in TraceContexts : read = Extract(h)
  BY ExtractIs
<1>b. PICK inbound \in TraceContexts :
        inbound = Received(layer, h) /\ inbound.trace = read.trace /\ inbound.span = read.span
  BY <1>1, ReceivedIs
<1>2. /\ \A q \in Requests : q # r => request'[q] = request[q]
      /\ request'[r].inbound = inbound /\ request'[r].phase = "made"
      /\ \A b \in Actors : b # r => context'[b] = context[b]
  BY <1>a, <1>b, ServeView
<1>3. traces \in Nat /\ traces' \in Nat /\ traces <= traces' /\ r # Main /\ r \in Actors
  BY NewTraceIs, ActorsAre
<1>4. context[hub].trace.n \in Nat /\ inbound.trace.n \in Nat /\ inbound.trace \in Ids
  BY <1>a, ActorsAre, TypeParts, ContextsAre, IdsAre DEF TypeRequests
<1> DEFINE Learns(n) ==
      \/ \E c \in Actors : Root(c) = Root(r)' /\ Knows(c, n)
      \/ n \in shared' /\ n <= traces'
      \/ n = traces + 1 /\ n <= traces'
<1>5. ASSUME NEW n \in Nat \ {0}, n = inbound.trace.n PROVE Learns(n)
  BY <1>1, <1>b, <1>3, <1>5
<1>6. ASSUME NEW n \in Nat \ {0}, n = context[hub].trace.n PROVE Learns(n)
  <2>1. Knows(hub, n)
    BY <1>6 DEF Knows
  <2>2. n <= traces /\ n \in shared
    BY <1>a, <1>6, <2>1, ActorsAre DEF Known
  <2> QED BY <1>3, <2>2
<1>7. ASSUME NEW n \in Nat \ {0}, layer = "axum", n = ContinuedTrace(inbound.trace).n PROVE Learns(n)
  <2>1. CASE inbound.trace = NoTrace
    <3>1. n = traces + 1 /\ traces' = traces + 1
      BY <1>1, <1>b, <1>4, <1>7, <2>1, ContinuedIs
    <3> QED BY <1>3, <3>1
  <2>2. CASE inbound.trace # NoTrace
    <3>1. n = inbound.trace.n
      BY <1>4, <1>7, <2>2, ContinuedIs
    <3> QED BY <1>5, <3>1
  <2> QED BY <2>1, <2>2
<1>8. /\ context'[r].trace.n \in {context[hub].trace.n, inbound.trace.n}
           \/ (layer = "axum" /\ context'[r].trace.n = ContinuedTrace(inbound.trace).n)
      /\ \A s \in DOMAIN spans' : spans'[s].by = r =>
           layer = "axum" /\ spans'[s].trace.n = ContinuedTrace(inbound.trace).n
      /\ \A b \in Actors : b # r => SpansOld(b)
  <2>1. \A s \in DOMAIN spans : spans[s].by # r
    BY DEF Idle
  <2>2. CASE layer = "axum"
    <3>1. PICK sp \in Span : /\ Added(sp) /\ context'[r].trace = sp.trace /\ sp.by = r
                             /\ sp.trace = ContinuedTrace(inbound.trace)
      BY <1>a, <1>1, <1>b, <2>2, ServeView
    <3>2. \A s \in DOMAIN spans' : spans'[s] = sp \/ (s \in DOMAIN spans /\ spans'[s] = spans[s])
      BY <3>1 DEF Added
    <3>3. \A b \in Actors : b # r => SpansOld(b)
      BY <3>1, SpansOldIf
    <3> QED BY <2>1, <2>2, <3>1, <3>2, <3>3
  <2>3. CASE layer # "axum"
    <3>1. UNCHANGED spans /\ context'[r].trace \in {context[hub].trace, Extract(h).trace}
      BY <1>a, <2>3, ServeView
    <3> QED BY <1>1, <1>b, <2>1, <3>1, SpansOldIf
  <2> QED BY <2>2, <2>3
<1>9. call'[r].ctx.trace.n = 0 /\ Extract(call'[r].headers).trace.n = 0
  <2>1. call[r] = NoCall
    BY <1>3 DEF Idle
  <2> QED BY <1>3, <2>1, NoHeadersRead, RecordsAre, ContextsAre, IdsAre
<1>10. ASSUME NEW n \in Nat \ {0}, Knows(r, n)' PROVE Learns(n)
  <2>1. n \in {inbound.trace.n, context[hub].trace.n}
          \/ (layer = "axum" /\ n = ContinuedTrace(inbound.trace).n)
    BY <1>2, <1>8, <1>9, <1>10 DEF Knows
  <2> HIDE DEF Learns
  <2> QED BY <1>5, <1>6, <1>7, <2>1
<1>11. ASSUME NEW b \in Actors, b # r
       PROVE  Root(b)' = Root(b) /\ \A n \in Nat \ {0} : Knows(b, n)' => Knows(b, n)
  <2>1. Root(b)' = Root(b)
    BY <1>11, ActorsAre, RootKept
  <2>2. SpansOld(b) /\ context'[b] = context[b] /\ (b # Main => request'[b] = request[b])
    BY <1>2, <1>8, <1>11, ActorsAre
  <2> QED BY <2>1, <2>2, NothingLearnt
<1>12. ASSUME NEW g \in Ambient' PROVE context'[g].trace.n \in shared' \cup {0}
  <2>1. g \in Ambient /\ g # r /\ g \in Actors
    BY <1>2, <1>3, <1>12, ActorsAre DEF Ambient
  <2> QED BY <1>2, <2>1 DEF Known
<1> QED BY <1>3, <1>10, <1>11, <1>12, KnownLearnt

LEMMA KnownRequest ==
  ASSUME TypeOK, Idle, Known, NEW r \in Requests, RequestSteps(r)
  PROVE  Known'
<1>0. LayersOf[r] \subseteq Layers /\ r \in Actors /\ r # Main /\ traces \in Nat
  BY ActorsAre, NewTraceIs DEF TracingAssumption
<1>1. ASSUME NEW layer \in Layers, NEW hub \in Ambient, NEW h \in ExternalHeaders,
             ServeExternal(r, layer, h, hub)
      PROVE  Known'
  <2>1. /\ h \in Headers /\ Serve(r, layer, h, hub) /\ request[r].phase = "none"
        /\ UNCHANGED <<call, via, shared>> /\ traces' = traces + 1
    BY <1>1, ExternalAre DEF ServeExternal, history
  <2>2. Extract(h).trace.n \in {0, traces + 1}
    BY ExternalAre
  <2> QED BY <2>1, <2>2, KnownServe
<1>2. ASSUME NEW layer \in Layers, NEW hub \in Ambient, NEW a \in Actors,
             ServeCall(r, layer, a, hub)
      PROVE  Known'
  <2>1. /\ request[r].phase = "none" /\ call[a].headers \in Headers
        /\ Serve(r, layer, call[a].headers, hub)
        /\ \A b \in Actors : call'[b].headers = call[b].headers /\ call'[b].ctx = call[b].ctx
        /\ \A q \in Requests : q # r => via'[q] = via[q]
        /\ via'[r].root = Root(a)
        /\ traces' \in {traces, traces + 1}
        /\ layer = "axum" /\ Extract(call[a].headers).trace = NoTrace => traces' = traces + 1
        /\ UNCHANGED shared
    BY <1>2, AmbientIs, ServeCallView
  <2>2. Root(r)' = Root(a)
    BY <1>0, <2>1 DEF Root
  <2>3. Knows(a, Extract(call[a].headers).trace.n)
    BY DEF Knows
  <2> QED BY <2>1, <2>2, <2>3, KnownServe
<1>3. CASE RunCall(r) \/ RunCallEnd(r)
  <2>1. /\ \A q \in Requests : request'[q].inbound = request[q].inbound
        /\ \A q \in Requests : q # r => request'[q] = request[q]
        /\ request'[r].phase \in {"call", "poll"}
        /\ UNCHANGED <<context, call, spans, traces, via, shared>>
    BY <1>3, RunView DEF history
  <2>3. Ambient' \subseteq Ambient
    BY <2>1 DEF Ambient
  <2>2. \A b \in Actors : Root(b)' = Root(b) /\ SpansOld(b)
    BY <2>1, RootKept, SpansOldIf
  <2> QED BY <2>1, <2>2, <2>3, KnownForgets
<1>4. CASE Respond(r) \/ CancelRequest(r) \/ PanicInRun(r)
  <2>0. PICK phase \in {"done", "left"} : EndRequest(r, phase)
    BY <1>4, EndView
  <2>1. Ended(r) /\ UNCHANGED traces
    BY <1>4, EndView
  <2>2. /\ \A q \in Requests : q # r => request'[q] = request[q] /\ via'[q] = via[q]
        /\ request'[r].inbound = NoContext /\ via'[r].root = via[r].root
        /\ \A b \in Actors : b # r => context'[b] = context[b]
        /\ request'[r].phase = phase /\ NoContext.trace.n = 0
        /\ context'[r] = IF phase = "left" THEN context[r] ELSE NoContext
        /\ shared' = IF phase = "left" THEN shared \cup ({context[r].trace.n} \ {0}) ELSE shared
    BY <2>0, EndRequestView, ContextsAre, IdsAre
  <2>3. \A b \in Actors : call'[b] = call[b] \/ call'[b] = NoCall
    BY <2>1 DEF Ended
  <2>4. PICK ss : Closed(ss)
    BY <2>1 DEF Ended
  <2>5. \A b \in Actors : Root(b)' = Root(b) /\ SpansOld(b)
    BY <2>2, <2>4, RootKept, SpansOldIf, ActorsAre
  <2>6. ASSUME NEW hub \in Ambient'
        PROVE  hub \in Ambient \/ context'[hub].trace.n \in shared' \cup {0}
    <3>1. CASE hub = r
      <4>1. phase = "left"
        BY <1>0, <2>2, <2>6, <3>1 DEF Ambient
      <4> QED BY <2>2, <3>1, <4>1
    <3>2. CASE hub # r
      BY <2>2, <2>6, <3>2 DEF Ambient
    <3> QED BY <3>1, <3>2
  <2>7. shared \subseteq shared'
    BY <2>2
  <2>8. \A b \in Actors : context'[b] = context[b] \/ context'[b].trace.n = 0
    BY <2>2
  <2> QED BY <2>1, <2>2, <2>3, <2>5, <2>6, <2>7, <2>8, KnownForgets
<1> QED BY <1>0, <1>1, <1>2, <1>3, <1>4 DEF RequestSteps

(* What an actor knew, with the new span's trace *)
LEMMA SpanLearnt ==
  ASSUME NEW b \in Actors, NEW n \in Nat \ {0}, Knows(b, n)', NEW sp, Added(sp),
         context'[b] = context[b], b # Main => request'[b] = request[b],
         \/ call'[b] = call[b]
         \/ call'[b].ctx.trace.n # n /\ Extract(call'[b].headers).trace.n # n
  PROVE  Knows(b, n) \/ n = sp.trace.n
<1>1. \A s \in DOMAIN spans' : spans'[s] = sp \/ (s \in DOMAIN spans /\ spans'[s] = spans[s])
  BY DEF Added
<1> QED BY <1>1 DEF Knows

LEMMA KnownActor ==
  ASSUME TypeOK, Idle, Known, NEW a \in Actors, ActorSteps(a)
  PROVE  Known'
<1>0. /\ SettingsOf[a] \subseteq Settings /\ traces \in Nat /\ traces <= traces + 1
      /\ \A hub \in Ambient : context[hub].trace.n \in shared \cup {0}
      /\ \A b \in Actors : \A n \in Nat \ {0} : Knows(b, n) => n <= traces
  BY NewTraceIs, ActorsAre DEF TracingAssumption, Actors, Known
<1>1. CASE StartTransaction(a) \/ \E s \in DOMAIN spans : StartChild(a, s)
  <2>1. PICK sp \in Span :
          /\ Added(sp) /\ sp.by = a
          /\ \/ sp.trace.n = traces + 1 /\ traces' = traces + 1
             \/ /\ sp.parent \in DOMAIN spans /\ sp.trace = spans[sp.parent].trace
                /\ spans[sp.parent].by = a /\ UNCHANGED traces
    BY <1>1, AppSpanView
  <2>2. UNCHANGED <<context, request, call, via, shared>>
    BY <1>1 DEF StartTransaction, StartChild, history
  <2>3. Knows(a, sp.trace.n) \/ (sp.trace.n = traces + 1 /\ traces' = traces + 1)
    BY <2>1 DEF Knows
  <2>4. \A b \in Actors : Root(b)' = Root(b)
    BY <2>2, RootKept
  <2>5. ASSUME NEW b \in Actors, b # a, NEW n \in Nat \ {0}, Knows(b, n)' PROVE Knows(b, n)
    <3>1. SpansOld(b)
      BY <2>1, <2>5, SpansOldIf
    <3> QED BY <2>2, <2>5, <3>1, NothingLearnt
  <2>6. ASSUME NEW n \in Nat \ {0}, Knows(a, n)'
        PROVE  Knows(a, n) \/ (n = traces + 1 /\ traces' = traces + 1)
    BY <2>1, <2>2, <2>3, <2>6, SpanLearnt
  <2>7. traces' \in Nat /\ traces <= traces' /\ (traces' = traces + 1 => traces + 1 <= traces')
    BY <1>0, <2>1
  <2>8. \A n \in Nat \ {0} : Knows(a, n)' =>
          \/ \E c \in Actors : Root(c) = Root(a)' /\ Knows(c, n)
          \/ n = traces + 1 /\ n <= traces'
    BY <2>4, <2>6, <2>7
  <2>9. \A hub \in Ambient' : context'[hub].trace.n \in shared' \cup {0}
    BY <1>0, <2>2, AmbientKept
  <2> QED BY <2>2, <2>4, <2>5, <2>7, <2>8, <2>9, KnownLearnt
<1>2. ASSUME NEW hub \in CurrentHubs(a), Query(a, hub) PROVE Known'
  <2>1. UNCHANGED <<context, request, call, spans, traces, via, shared>>
    BY <1>2 DEF Query, history
  <2>2. \A b \in Actors : Root(b)' = Root(b) /\ SpansOld(b)
    BY <2>1, RootKept, SpansOldIf
  <2> QED BY <2>1, <2>2, AmbientKept, KnownForgets
<1>3. ASSUME NEW hub \in CurrentHubs(a),
             SetIds(a, hub) \/ \E form \in {"loose", "junk"} : SetOwnId(a, hub, form)
      PROVE  Known'
  <2>0. Free(a)
    BY <1>3 DEF SetIds, SetOwnId, Publish
  <2>a. hub \in Actors /\ (hub \notin Ambient => hub = a)
    BY <2>0, CurrentIs
  <2>b. PICK trace \in Ids, span \in Int :
          /\ Publish(a, hub, trace, span) /\ traces' \in {traces, traces + 1}
          /\ \/ trace \in {context[hub].trace, NoTrace}
             \/ \E s : OwnSpan(a, s) /\ trace = spans[s].trace
             \/ trace.n = traces + 1 /\ traces' = traces + 1
    BY <1>3, <2>a, PublishesIs
  <2>1. /\ trace.n \in Nat
        /\ \/ trace.n = 0 \/ Knows(hub, trace.n) \/ Knows(a, trace.n)
           \/ trace.n = traces + 1 /\ traces' = traces + 1
    BY <2>b, IdsAre DEF Knows, OwnSpan
  <2>2. /\ \A b \in Actors : b # hub => context'[b] = context[b]
        /\ context'[hub].trace = trace
        /\ UNCHANGED <<request, call, spans, via>>
        /\ shared' = IF hub \in Ambient THEN shared \cup ({trace.n} \ {0}) ELSE shared
    <3>1. /\ \A b \in Actors : b # hub => context'[b] = context[b]
          /\ context'[hub].trace = trace
      BY <2>a, <2>b, PublishView
    <3>2. /\ UNCHANGED <<request, call, spans, via>>
          /\ shared' = IF hub \in Ambient THEN shared \cup ({trace.n} \ {0}) ELSE shared
      BY <2>b DEF Publish
    <3> QED BY <3>1, <3>2
  <2>4. traces' \in Nat /\ traces <= traces' /\ (trace.n # 0 => trace.n <= traces')
    BY <1>0, <2>a, <2>b, <2>1
  <2>5. \A b \in Actors : Root(b)' = Root(b) /\ SpansOld(b)
    BY <2>2, RootKept, SpansOldIf
  <2>6. \A b \in Actors : b # hub => \A n \in Nat \ {0} : Knows(b, n)' => Knows(b, n)
    BY <2>2, <2>5, NothingLearnt
  <2>7. ASSUME NEW n \in Nat \ {0}, Knows(hub, n)' PROVE n = trace.n \/ Knows(hub, n)
    <3>1. CASE context'[hub].trace.n = n
      BY <2>2, <3>1
    <3>2. CASE context'[hub].trace.n # n
      <4>1. \A s \in DOMAIN spans' : s \in DOMAIN spans /\ spans'[s] = spans[s]
        BY <2>2
      <4> QED BY <2>2, <2>7, <3>2, <4>1 DEF Knows
    <3> QED BY <3>1, <3>2
  <2>8. \A n \in Nat \ {0} : Knows(hub, n)' =>
          \/ \E c \in Actors : Root(c) = Root(hub)' /\ Knows(c, n)
          \/ n \in shared' /\ n <= traces'
          \/ n = traces + 1 /\ n <= traces'
    <3>1. ASSUME NEW n \in Nat \ {0}, n = trace.n
          PROVE  \/ \E c \in Actors : Root(c) = Root(hub)' /\ Knows(c, n)
                 \/ n \in shared' /\ n <= traces'
                 \/ n = traces + 1 /\ n <= traces'
      <4>1. CASE hub \in Ambient
        BY <2>2, <2>4, <3>1, <4>1
      <4>2. CASE hub \notin Ambient
        BY <2>a, <2>1, <2>4, <2>5, <3>1, <4>2
      <4> QED BY <4>1, <4>2
    <3> QED BY <2>a, <2>5, <2>7, <3>1
  <2>9. ASSUME NEW g \in Ambient' PROVE context'[g].trace.n \in shared' \cup {0}
    <3>1. g \in Ambient /\ g \in Actors /\ context[g].trace.n \in shared \cup {0}
      BY <1>0, <2>2, <2>9, AmbientKept, AmbientIs
    <3>2. CASE g = hub
      BY <2>2, <3>1, <3>2
    <3>3. CASE g # hub
      BY <2>2, <3>1, <3>3
    <3> QED BY <3>2, <3>3
  <2>10. shared \subseteq shared'
    BY <2>2
  <2> QED BY <2>a, <2>4, <2>5, <2>6, <2>8, <2>9, <2>10, KnownLearnt
<1>6. CASE EndCall(a) \/ CancelCall(a)
  <2>1. /\ call'[a] = NoCall /\ \A b \in Actors : b # a => call'[b] = call[b]
        /\ Closed({call[a].span}) /\ UNCHANGED <<context, request, traces, via, shared>>
    BY <1>6, EndCallView DEF history
  <2>2. \A b \in Actors : Root(b)' = Root(b) /\ SpansOld(b)
    BY <2>1, RootKept, SpansOldIf
  <2> QED BY <2>1, <2>2, AmbientKept, KnownForgets
<1>7. ASSUME NEW hub \in CurrentHubs(a), NEW with \in Settings, NEW forwards \in BOOLEAN,
             StartCall(a, hub, with, forwards)
      PROVE  Known'
  <2>0. Free(a)
    BY <1>7 DEF StartCall
  <2>1. hub \in Actors /\ (hub \notin Ambient => hub = a)
    BY <2>0, CurrentIs
  <2>2. PICK ctx \in TraceContexts, span \in Nat, h \in Headers :
          ctx = call'[a].ctx /\ span = call'[a].span /\ h = call'[a].headers
    <3>1. call'[a] \in Call
      BY <1>7, <2>1, StartCallView
    <3> QED BY <3>1 DEF Call
  <2>3. /\ \A b \in Actors : b # a => call'[b] = call[b]
        /\ ctx.trace = ContinuedTrace(context[hub].trace)
        /\ Reads(a, ctx, span, h)
        /\ context[hub].trace = NoTrace \/ ctx.trace.form = "junk" => traces' = traces + 1
    BY <1>7, <2>1, <2>2, StartCallView
  <2>4. UNCHANGED <<context, request, via, shared>>
    BY <1>7 DEF StartCall, history
  <2>5. traces' \in Nat /\ traces <= traces' /\ (traces' = traces + 1 => traces + 1 <= traces')
    <3>1. traces' = traces \/ traces' = traces + 1
      BY <1>0, <1>7 DEF StartCall
    <3> QED BY <1>0, <3>1
  <2>6. context[hub].trace \in Ids
    BY <2>1, TypeParts, ContextsAre DEF TypeRequests
  <2> DEFINE Learns(n) ==
        \/ \E c \in Actors : Root(c) = Root(a)' /\ Knows(c, n)
        \/ n \in shared' /\ n <= traces'
        \/ n = traces + 1 /\ n <= traces'
  <2>7. \A b \in Actors : Root(b)' = Root(b)
    BY <2>4, RootKept
  <2>8. ASSUME NEW n \in Nat \ {0}, n = ctx.trace.n PROVE Learns(n)
    <3>1. CASE context[hub].trace = NoTrace
      <4>1. n = traces + 1 /\ traces' = traces + 1
        BY <2>3, <2>6, <2>8, <3>1, ContinuedIs
      <4> QED BY <2>5, <4>1
    <3>2. CASE context[hub].trace # NoTrace
      <4>1. n = context[hub].trace.n
        BY <2>3, <2>6, <2>8, <3>2, ContinuedIs
      <4>2. Knows(hub, n)
        BY <4>1 DEF Knows
      <4>3. CASE hub = a
        BY <2>7, <4>2, <4>3
      <4>4. CASE hub \in Ambient
        <5>1. n \in shared /\ n <= traces
          BY <1>0, <2>1, <2>8, <4>1, <4>2, <4>4
        <5> QED BY <1>0, <2>4, <2>5, <5>1
      <4> QED BY <2>1, <4>3, <4>4
    <3> QED BY <3>1, <3>2
  <2>9. ASSUME NEW n \in Nat \ {0}, n = Extract(h).trace.n PROVE Learns(n)
    <3>1. CASE n = ctx.trace.n
      BY <2>8, <3>1
    <3>2. CASE n = traces + 1 /\ ctx.trace.form = "junk"
      BY <2>3, <2>5, <3>2
    <3>3. CASE a # Main /\ n = request[a].inbound.trace.n
      <4>1. Knows(a, n)
        BY <3>3 DEF Knows
      <4> QED BY <2>7, <4>1
    <3> HIDE DEF Learns
    <3> QED BY <2>3, <2>9, <3>1, <3>2, <3>3 DEF Reads
  <2>10. \A b \in Actors : b # a => SpansOld(b)
    <3>1. CASE call'[a].span = NoSpan
      <4>1. UNCHANGED spans
        BY <1>7, <2>1, <3>1, StartCallView
      <4> QED BY <4>1, SpansOldIf
    <3>2. CASE call'[a].span # NoSpan
      <4>1. PICK sp \in Span : Added(sp) /\ sp.by = a
        BY <1>7, <2>1, <3>2, StartCallView
      <4> QED BY <4>1, SpansOldIf
    <3> QED BY <3>1, <3>2
  <2>11. ASSUME NEW n \in Nat \ {0}, Knows(a, n)' PROVE Learns(n)
    <3>1. CASE n = ctx.trace.n \/ n = Extract(h).trace.n
      <4> HIDE DEF Learns
      <4> QED BY <2>8, <2>9, <3>1
    <3>2. CASE n # ctx.trace.n /\ n # Extract(h).trace.n
      <4>1. Knows(a, n)
        <5>1. CASE call'[a].span = NoSpan
          <6>1. UNCHANGED spans
            BY <1>7, <2>1, <5>1, StartCallView
          <6> QED BY <2>2, <2>4, <2>11, <3>2, <6>1 DEF Knows
        <5>2. CASE call'[a].span # NoSpan
          <6>1. PICK sp \in Span : Added(sp) /\ sp.trace = ctx.trace
            BY <1>7, <2>1, <2>2, <5>2, StartCallView
          <6> QED BY <2>2, <2>4, <2>11, <3>2, <6>1, SpanLearnt
        <5> QED BY <5>1, <5>2
      <4> QED BY <2>7, <4>1
    <3> QED BY <3>1, <3>2
  <2>12. ASSUME NEW b \in Actors, b # a, NEW n \in Nat \ {0}, Knows(b, n)' PROVE Knows(b, n)
    BY <2>3, <2>4, <2>10, <2>12, NothingLearnt
  <2>13. /\ \A g \in Ambient' : context'[g].trace.n \in shared' \cup {0}
         /\ shared \subseteq shared'
    BY <1>0, <2>4, AmbientKept
  <2> QED BY <2>5, <2>7, <2>11, <2>12, <2>13, KnownLearnt
<1> QED BY <1>0, <1>1, <1>2, <1>3, <1>6, <1>7 DEF ActorSteps, HubSteps

LEMMA KnownStep == TypeOK /\ Idle /\ Known /\ [Next]_vars => Known'
<1> SUFFICES ASSUME TypeOK, Idle, Known, [Next]_vars PROVE Known'
  OBVIOUS
<1>1. ASSUME NEW s \in DOMAIN spans, EndSpan(s) PROVE Known'
  <2>1. Closed({s}) /\ UNCHANGED <<context, request, call, traces, via, shared>>
    BY <1>1, EndCloses DEF EndSpan, history
  <2>2. \A b \in Actors : Root(b)' = Root(b) /\ SpansOld(b)
    BY <2>1, RootKept, SpansOldIf
  <2> QED BY <2>1, <2>2, AmbientKept, KnownForgets
<1>2. CASE UNCHANGED vars
  <2>1. UNCHANGED <<context, request, call, spans, traces, via, shared>>
    BY <1>2 DEF vars, history
  <2>2. \A b \in Actors : Root(b)' = Root(b) /\ SpansOld(b)
    BY <2>1, RootKept, SpansOldIf
  <2> QED BY <2>1, <2>2, AmbientKept, KnownForgets
<1> QED BY <1>1, <1>2, NextIs, KnownRequest, KnownActor

LEMMA KnownApart == TypeOK /\ Known => TracesKeepApart
<1> SUFFICES ASSUME TypeOK, Known, NEW s \in DOMAIN spans, NEW t \in DOMAIN spans,
                    spans[s].trace.n = spans[t].trace.n
             PROVE  Root(spans[s].by) = Root(spans[t].by) \/ spans[s].trace.n \in shared
  BY DEF TracesKeepApart
<1>1. /\ spans[s].by \in Actors /\ spans[t].by \in Actors
      /\ spans[s].trace.n \in Nat \ {0}
  BY SpansAre, IdsAre DEF Span
<1>2. Knows(spans[s].by, spans[s].trace.n) /\ Knows(spans[t].by, spans[s].trace.n)
  BY DEF Knows
<1> QED BY <1>1, <1>2 DEF Known

-----------------------------------------------------------------------------
(* The theorems *)

LEMMA InvInit == Init => IInv
<1> SUFFICES ASSUME Init PROVE IInv
  OBVIOUS
<1>1. TypeOK
  BY TypeInit
<1>2. spans = <<>> /\ Len(spans) = 0 /\ DOMAIN spans = {}
  <2>1. spans = <<>> /\ spans \in Seq(Span) /\ Len(spans) = 0
    BY EmptySeq DEF Init
  <2> QED BY <1>1, <2>1, SpansAre
<1>3. /\ \A r \in Requests : request[r] = NoRequest /\ via[r] = NotCalled(r)
      /\ \A a \in Actors : call[a] = NoCall /\ context[a] = NoContext
      /\ record = NoRecord
  BY ActorsAre DEF Init
<1>4. NoContext.span = 0 /\ NoContext.trace.n = 0 /\ NoContext.trace = NoTrace
  BY ContextsAre, IdsAre DEF NoSpan
<1>5. Extract(NoHeaders).span = 0 /\ Extract(NoHeaders).trace.n = 0
  BY NoHeadersRead, IdsAre DEF NoSpan
<1>6. Idle
  BY <1>2, <1>3, RecordsAre, ActorsAre DEF Idle
<1>7. Holders
  BY <1>2, <1>3, RecordsAre DEF Holders
<1>8. Keeps
  BY <1>3, RecordsAre DEF Keeps, TraceContinues
<1>9. Trees
  <2>1. Belongs(context[Main], spans, mixed)
    BY <1>3, <1>4, ActorsAre, OutsideBelongs
  <2>2. \A r \in Requests : TreeRequest(r)
    BY <1>3, <1>4, ActorsAre, RecordsAre, OutsideBelongs DEF TreeRequest
  <2>3. \A a \in Actors : TreeCall(a)
    BY <1>3, <1>5, RecordsAre, OutsideBelongs DEF TreeCall
  <2>4. TreeRecord
    BY <1>3 DEF TreeRecord, NoRecord, NoSpan
  <2> QED BY <1>2, <2>1, <2>2, <2>3, <2>4, TreesParts
<1>10. Known
  <2>1. ASSUME NEW a \in Actors, NEW n \in Nat \ {0}, Knows(a, n) PROVE FALSE
    <3>1. a # Main => request[a].inbound.trace.n = 0
      BY <1>3, <1>4, ActorsAre, RecordsAre
    <3>2. call[a].ctx.trace.n = 0 /\ Extract(call[a].headers).trace.n = 0 /\ context[a].trace.n = 0
      BY <1>3, <1>4, <1>5, RecordsAre
    <3> QED BY <1>2, <2>1, <3>1, <3>2 DEF Knows
  <2>2. \A hub \in Ambient : context[hub].trace.n = 0
    BY <1>3, <1>4, ActorsAre DEF Ambient
  <2> QED BY <2>1, <2>2 DEF Known
<1> QED BY <1>1, <1>6, <1>7, <1>8, <1>9, <1>10 DEF IInv

LEMMA InvStep == IInv /\ [Next]_vars => IInv'
BY TypeStep, IdleStep, HoldersStep, KeepsStep, TreesStep, KnownStep DEF IInv

(* Where an open span is, what a call's headers say, which tree a context is  *)
(* in and who knows a trace: the invariant that the four below follow from.  *)
THEOREM TraceInvariance == Spec => []IInv
BY InvInit, InvStep, PTL DEF Spec

(* No finish, drop, cancelled future or panic has a span sent twice, and none *)
(* of the layers' or the middleware's is lost.                               *)
THEOREM SpansSentOnce == Spec => []SentOnce
<1>1. IInv => SentOnce
  BY HoldersSent DEF IInv
<1> QED BY <1>1, TraceInvariance, PTL

(* Every span and record has the trace id of the span it names as its parent, *)
(* but for a server span whose parent's id has no wire form and for spans    *)
(* that a scope had beside another trace.                                    *)
THEOREM SpansFormTrees == Spec => []OneTree
<1>1. IInv => OneTree
  BY DEF IInv, Trees
<1> QED BY <1>1, TraceInvariance, PTL

(* The service that a call reaches goes on with the call's trace id, if that  *)
(* has wire form, and with its span and request id.                          *)
THEOREM CallsContinueTraces == Spec => []TraceContinues
<1>1. IInv => TraceContinues
  BY DEF IInv, Keeps
<1> QED BY <1>1, TraceInvariance, PTL

(* Requests served at once stay out of each other's traces, but for a trace   *)
(* that was on the main hub or on one a panic left to a thread.              *)
THEOREM TracesApart == Spec => []TracesKeepApart
<1>1. IInv => TracesKeepApart
  BY KnownApart DEF IInv
<1> QED BY <1>1, TraceInvariance, PTL
=============================================================================
