----------------------------- MODULE Propagation -----------------------------
(***************************************************************************)
(* Reading and stamping the headers that carry a trace from one service to *)
(* the next (src/src/propagation.rs).                                      *)
(*                                                                         *)
(* A trace id is a text, given here by the hexadecimal digits it comes to, *)
(* n, and its form: "wire" is what travels, 32 lower case digits; "cased"  *)
(* is that in upper case or with blanks around it; "loose" needs padding,  *)
(* cutting or cleaning (a UUID with dashes); "junk" spells no digits, or   *)
(* zeros only.  Two ids are one text only if both agree: bringing an id    *)
(* into wire form makes another id of it, unless it has that form.         *)
(* Baggage is left out: it is read from a request but never put on a       *)
(* scope.                                                                  *)
(***************************************************************************)
EXTENDS Integers

NoTrace == [n |-> 0, form |-> "none"]
TraceIds == [n : Nat \ {0}, form : {"wire", "cased", "loose", "junk"}]
WireId(n) == [n |-> n, form |-> "wire"]

NoSpan == 0       \* span ids, always 16 digits where the SDK made them

(* Request ids; Blank is a header that is there, but empty or not text *)
NoRequestId == 0
Blank == -1
RequestIds == Nat \cup {Blank}
Usable(id) == IF id = Blank THEN NoRequestId ELSE id

(* A traceparent header: whether all but its trace is as it should be *)
Traceparents == [trace : TraceIds \cup {NoTrace}, span : Int, wellFormed : BOOLEAN]
NoTraceparent == [trace |-> NoTrace, span |-> NoSpan, wellFormed |-> FALSE]

NoHeaders ==
  [traceparent |-> NoTraceparent, xAllstakTraceId |-> NoTrace, xTraceId |-> NoTrace,
   xRequestId |-> NoRequestId, xAllstakRequestId |-> NoRequestId]

Headers ==
  [traceparent : Traceparents, xAllstakTraceId : TraceIds \cup {NoTrace},
   xTraceId : TraceIds \cup {NoTrace},
   xRequestId : RequestIds, xAllstakRequestId : RequestIds]

TraceContexts == [trace : TraceIds \cup {NoTrace}, span : Int, request : Nat]
NoContext == [trace |-> NoTrace, span |-> NoSpan, request |-> NoRequestId]

IsValidTraceId(id) == id.form = "wire"
Lowered(id) == IF id.form = "cased" THEN WireId(id.n) ELSE id   \* trim, to_ascii_lowercase

(* Of the two headers that may carry it, the first one that does *)
First(one, two, none) == IF one # none THEN one ELSE two

FirstValidTrace(one, two) ==
  LET valid(id) == IF IsValidTraceId(Lowered(id)) THEN Lowered(id) ELSE NoTrace IN
  First(valid(one), valid(two), NoTrace)

(* What a traceparent says, of which nothing counts unless all of it is valid *)
ParseTraceparent(tp) ==
  IF tp.wellFormed /\ IsValidTraceId(Lowered(tp.trace))
  THEN [trace |-> Lowered(tp.trace), span |-> tp.span]
  ELSE [trace |-> NoTrace, span |-> NoSpan]

(* traceparent decides alone when it is valid; without it there is no parent *)
Extract(h) ==
  LET tp == ParseTraceparent(h.traceparent) IN
  [trace |-> IF tp.trace # NoTrace THEN tp.trace
             ELSE FirstValidTrace(h.xAllstakTraceId, h.xTraceId),
   span |-> tp.span,
   request |-> First(Usable(h.xRequestId), Usable(h.xAllstakRequestId), NoRequestId)]

(* normalize_hex: padded, cut and cleaned until the digits have wire form;   *)
(* what has no usable digits is replaced, by an id made then.                *)
NormalizeTraceId(id, fresh) == IF id.form = "junk" THEN fresh ELSE WireId(id.n)

(* Mutant: the span that was active, not the client span, becomes the parent *)
InjectActiveSpan(ctx, span, headers, fresh) ==
  LET wire == NormalizeTraceId(ctx.trace, fresh) IN
  [headers EXCEPT !.xAllstakTraceId = wire,
     !.traceparent = [trace |-> wire, span |-> ctx.span, wellFormed |-> TRUE],
     !.xAllstakRequestId = IF ctx.request # NoRequestId THEN ctx.request ELSE @]

(* Stamps ctx and the span on headers that may hold others already: with no  *)
(* span, a traceparent that is there stays.                                  *)
Inject(ctx, span, headers, fresh) ==
  LET wire == NormalizeTraceId(ctx.trace, fresh) IN
  [headers EXCEPT
     !.xAllstakTraceId = IF ctx.trace = NoTrace THEN @ ELSE wire,
     !.traceparent = IF ctx.trace = NoTrace \/ span = NoSpan THEN @
                     ELSE [trace |-> wire, span |-> span, wellFormed |-> TRUE],
     !.xAllstakRequestId = IF ctx.request # NoRequestId THEN ctx.request ELSE @]
=============================================================================
