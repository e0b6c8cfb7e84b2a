------------------------------- MODULE Scopes -------------------------------
(***************************************************************************)
(* The scope stacks of hubs, and which hub a thread uses (src/src/hub.rs), *)
(* as with_scope, push_scope and configure_scope of several threads share  *)
(* the main hub, and as the request layers bind a hub of their own         *)
(* (integrations/axum.rs, integrations/actix.rs).                          *)
(*                                                                         *)
(* A scope is the set of tags that were set on it; a tag says who set it,  *)
(* and whether for the body of one with_scope call.  A panic is one that   *)
(* is caught further up its thread, as a task's executor does.             *)
(***************************************************************************)
EXTENDS Integers, Sequences, FiniteSets, SequencesExt

CONSTANTS
  Threads,
  Requests,    \* each with the hub its layer makes for it
  Axum,        \* those of the axum layer, the only one to use Hub::run
  Guards,      \* ScopeGuards of push_scope, which any thread may drop
  Main,        \* MAIN_HUB
  None,
  MaxFrames,   \* bound: nested calls on a thread
  MaxDepth,    \* bound: scopes on a hub's stack
  MaxPanics    \* bound: panics

ASSUME ScopesAssumption ==
  /\ None \notin Threads \cup Requests \cup {Main}
  /\ Axum \subseteq Requests /\ Main \notin Requests /\ Threads \cap Requests = {}
  /\ IsFiniteSet(Threads) /\ IsFiniteSet(Guards)
  /\ MaxFrames \in Nat /\ MaxDepth \in Nat /\ MaxPanics \in Nat

Hubs == {Main} \cup Requests
Actors == Threads \cup Requests
Tags == [by : Actors, temporary : BOOLEAN]

VARIABLES
  stack,     \* inner.scopes of each hub, <<>> before the hub is made
  current,   \* CURRENT_HUB of each thread, None where it is unset
  frames,    \* the with_scope and Hub::run calls each thread is in
  guard,     \* the hub of each ScopeGuard that was not dropped
  request,   \* how far each request is
  serving    \* the request whose code each thread runs

(* History: read by the properties and the bound alone *)
VARIABLES
  leaked,    \* scopes of each hub whose with_scope body panicked
  escaped,   \* threads on which a panic left Hub::run
  inherited, \* what the scope of each request's hub was cloned from
  panics

history == <<leaked, escaped, inherited, panics>>
vars == <<stack, current, frames, guard, request, serving, history>>

Frames == [kind : {"scope"}, hub : Hubs] \cup [kind : {"run"}, prev : Hubs \cup {None}]

TypeOK ==
  /\ stack \in [Hubs -> Seq(SUBSET Tags)] /\ stack[Main] # <<>>
  /\ current \in [Threads -> Hubs \cup {None}]
  /\ frames \in [Threads -> Seq(Frames)] /\ \A t \in Threads : Len(frames[t]) <= MaxFrames
  /\ guard \in [Guards -> Hubs \cup {None}]
  /\ request \in [Requests -> {"none", "made", "call", "await", "done"}]
  /\ \A r \in Requests : request[r] # "none" => stack[r] # <<>>
  /\ serving \in [Threads -> Requests \cup {None}]
  /\ leaked \in [Hubs -> Nat] /\ escaped \subseteq Threads
  /\ inherited \in [Requests -> SUBSET Tags] /\ panics \in 0..MaxPanics

-----------------------------------------------------------------------------

Hub(t) == IF current[t] = None THEN Main ELSE current[t]   \* Hub::current
Top(h) == Last(stack[h])
Actor(t) == IF serving[t] = None THEN t ELSE serving[t]
Tag(t, temporary) == [by |-> Actor(t), temporary |-> temporary]

Push(h, scope) ==
  Len(stack[h]) < MaxDepth /\ stack' = [stack EXCEPT ![h] = Append(@, scope)]

(* Mutant: the last two scopes are never popped *)
PopAllButTwo(h) == stack' = [stack EXCEPT ![h] = IF Len(@) > 2 THEN Front(@) ELSE @]

(* The base scope is never popped *)
Pop(h) == stack' = [stack EXCEPT ![h] = IF Len(@) > 1 THEN Front(@) ELSE @]

Enter(t, frame) ==
  Len(frames[t]) < MaxFrames /\ frames' = [frames EXCEPT ![t] = Append(@, frame)]

Leave(t, kind) ==
  /\ frames[t] # <<>> /\ Last(frames[t]).kind = kind
  /\ frames' = [frames EXCEPT ![t] = Front(@)]

-----------------------------------------------------------------------------

(* Hub::configure_scope on the current hub's top scope, whoever pushed it *)
ConfigureScope(t) ==
  /\ stack' = [stack EXCEPT ![Hub(t)] = Append(Front(@), Last(@) \cup {Tag(t, FALSE)})]
  /\ UNCHANGED <<current, frames, guard, request, serving, history>>

(* Mutant: the configurator is applied to the scope it should be cloned from *)
WithScopeConfiguresTop(t) ==
  /\ Enter(t, [kind |-> "scope", hub |-> Hub(t)])
  /\ Len(stack[Hub(t)]) < MaxDepth
  /\ LET top == Top(Hub(t)) \cup {Tag(t, TRUE)} IN
     stack' = [stack EXCEPT ![Hub(t)] = Append(Append(Front(@), top), top)]
  /\ UNCHANGED <<current, guard, request, serving, history>>

(* Hub::with_scope pushes a configured clone of the top scope and calls its body *)
WithScope(t) ==
  /\ Enter(t, [kind |-> "scope", hub |-> Hub(t)])
  /\ Push(Hub(t), Top(Hub(t)) \cup {Tag(t, TRUE)})
  /\ UNCHANGED <<current, guard, request, serving, history>>

(* The body returned: the scope that is on top by now is popped *)
WithScopeEnd(t) ==
  /\ Leave(t, "scope") /\ Pop(Last(frames[t]).hub)
  /\ UNCHANGED <<current, guard, request, serving, history>>

PushScope(t, g) ==
  /\ guard[g] = None
  /\ Push(Hub(t), Top(Hub(t)))
  /\ guard' = [guard EXCEPT ![g] = Hub(t)]
  /\ UNCHANGED <<current, frames, request, serving, history>>

DropScopeGuard(g) ==
  /\ guard[g] # None
  /\ Pop(guard[g])
  /\ guard' = [guard EXCEPT ![g] = None]
  /\ UNCHANGED <<current, frames, request, serving, history>>

-----------------------------------------------------------------------------
(* Requests *)

(* Mutant: the hub of a request is made without a scope *)
RequestCallBare(t, r) ==
  /\ request[r] = "none" /\ serving[t] = None /\ frames[t] = <<>>
  /\ request' = [request EXCEPT ![r] = "made"]
  /\ UNCHANGED <<stack, current, frames, guard, serving, history>>

(* The layer makes a hub from the top of the current one: new_from_top *)
RequestCall(t, r) ==
  /\ request[r] = "none" /\ serving[t] = None /\ frames[t] = <<>>
  /\ request' = [request EXCEPT ![r] = "made"]
  /\ stack' = [stack EXCEPT ![r] = <<Top(Hub(t))>>]
  /\ inherited' = [inherited EXCEPT ![r] = Top(Hub(t))]
  /\ UNCHANGED <<current, frames, guard, serving, leaked, escaped, panics>>

(* The first poll of the axum layer's future: Hub::run calls the service *)
RequestRun(t, r) ==
  /\ r \in Axum /\ request[r] = "made" /\ serving[t] = None /\ frames[t] = <<>>
  /\ Enter(t, [kind |-> "run", prev |-> current[t]])
  /\ current' = [current EXCEPT ![t] = r]
  /\ request' = [request EXCEPT ![r] = "call"]
  /\ serving' = [serving EXCEPT ![t] = r]
  /\ UNCHANGED <<stack, guard, history>>

(* Mutant: Hub::run leaves its hub bound to the thread *)
RequestRunEndKeepsHub(t) ==
  /\ Leave(t, "run")
  /\ request' = [request EXCEPT ![serving[t]] = "await"]
  /\ UNCHANGED <<stack, current, guard, serving, history>>

(* The service returned its own future: Hub::run restores the thread's hub,  *)
(* and the poll goes on.                                                     *)
RequestRunEnd(t) ==
  /\ Leave(t, "run")
  /\ current' = [current EXCEPT ![t] = Last(frames[t]).prev]
  /\ request' = [request EXCEPT ![serving[t]] = "await"]
  /\ UNCHANGED <<stack, guard, serving, history>>

(* The service's future, and with it an async handler, is polled as it is *)
Poll(t, r) ==
  /\ request[r] = IF r \in Axum THEN "await" ELSE "made"
  /\ serving[t] = None /\ frames[t] = <<>>
  /\ \A u \in Threads : serving[u] # r
  /\ serving' = [serving EXCEPT ![t] = r]
  /\ UNCHANGED <<stack, current, frames, guard, request, history>>

PollEnd(t, ready) ==
  /\ serving[t] # None /\ frames[t] = <<>>
  /\ request' = IF ready THEN [request EXCEPT ![serving[t]] = "done"] ELSE request
  /\ serving' = [serving EXCEPT ![t] = None]
  /\ UNCHANGED <<stack, current, frames, guard, history>>

(* The with_scope bodies that threads T are in and that pushed on h *)
OpenBodies(T, h) ==
  {p \in T \X (1..MaxFrames) :
     /\ p[2] <= Len(frames[p[1]])
     /\ frames[p[1]][p[2]].kind = "scope" /\ frames[p[1]][p[2]].hub = h}

(* A panic unwinds the thread's calls: neither with_scope nor Hub::run has a *)
(* destructor that undoes what it did.                                       *)
Panic(t) ==
  /\ panics < MaxPanics /\ frames[t] # <<>>
  /\ panics' = panics + 1
  /\ frames' = [frames EXCEPT ![t] = <<>>]
  /\ leaked' = [h \in Hubs |-> leaked[h] + Cardinality(OpenBodies({t}, h))]
  /\ escaped' = escaped \cup {u \in {t} : \E f \in ToSet(frames[t]) : f.kind = "run"}
  /\ request' = [r \in Requests |-> IF serving[t] = r THEN "done" ELSE request[r]]
  /\ serving' = [serving EXCEPT ![t] = None]
  /\ UNCHANGED <<stack, current, guard, inherited>>

-----------------------------------------------------------------------------

Init ==
  /\ stack = [h \in Hubs |-> IF h = Main THEN <<{}>> ELSE <<>>]
  /\ current = [t \in Threads |-> None] /\ frames = [t \in Threads |-> <<>>]
  /\ guard = [g \in Guards |-> None]
  /\ request = [r \in Requests |-> "none"] /\ serving = [t \in Threads |-> None]
  /\ leaked = [h \in Hubs |-> 0] /\ escaped = {} /\ panics = 0
  /\ inherited = [r \in Requests |-> {}]

Next ==
  \/ \E t \in Threads :
       \/ ConfigureScope(t) \/ WithScope(t) \/ WithScopeEnd(t)
       \/ \E g \in Guards : PushScope(t, g)
       \/ \E r \in Requests : RequestCall(t, r) \/ RequestRun(t, r) \/ Poll(t, r)
       \/ RequestRunEnd(t) \/ Panic(t)
       \/ \E ready \in BOOLEAN : PollEnd(t, ready)
  \/ \E g \in Guards : DropScopeGuard(g)

Spec == Init /\ [][Next]_vars

-----------------------------------------------------------------------------
(* Properties *)

OpenGuards(h) == {g \in Guards : guard[g] = h}

(* A hub's stack holds its base, one scope for every with_scope body and     *)
(* every ScopeGuard that is open on it, and those a panic left behind: it    *)
(* never shrinks below what its users still hold, in whatever order they     *)
(* pop.                                                                      *)
DepthMatches ==
  \A h \in Hubs : stack[h] # <<>> =>
    Len(stack[h])
      = 1 + Cardinality(OpenBodies(Threads, h)) + Cardinality(OpenGuards(h)) + leaked[h]

(* No with_scope body and no ScopeGuard is open on h, and no panic left a    *)
(* scope on its stack                                                        *)
Quiet(h) == OpenBodies(Threads, h) = {} /\ OpenGuards(h) = {} /\ leaked[h] = 0

(* What with_scope set for its body never reaches the base scope of the main *)
(* hub, and is nowhere on that hub once every body has returned and every    *)
(* ScopeGuard is dropped, in whatever order they pop: a guard that cloned it *)
(* and a body that panicked keep it, and so does the hub of a request.       *)
TemporaryNeverSticks ==
  \A i \in DOMAIN stack[Main] :
    i = 1 \/ Quiet(Main) => \A tag \in stack[Main][i] : ~tag.temporary

(* The hub of a request holds what was on the top scope it was cloned from,  *)
(* other requests' tags on the main hub included, and what that request's    *)
(* code set, unless a panic escaped Hub::run and left the hub bound to its   *)
(* thread.                                                                   *)
RequestHubOwn ==
  escaped = {} =>
    \A r \in Requests : \A i \in DOMAIN stack[r] :
      \A tag \in stack[r][i] : tag \in inherited[r] \/ tag.by = r
=============================================================================
