# Verification of the AllStak Rust SDK

TLA+ models of `allstak` (the crate under `src/`), TLC runs that check them on
small instances, and proofs, checked by TLAPS, of what matters most for every
value of the constants. `PROJECT.json` lists the components, the runs, the
source lines behind every definition, the hazards and the theorems.

## 1. The system

An application calls `init`, which binds a `Client` to the process-wide main
`Hub` and hands out a guard. Events, spans, logs and sessions go through the
hub (scope data, session id) and the client (defaults, integrations, scrubbing,
`before_send`, sampling) to a `Transport`. The HTTP transport puts envelopes on
a bounded channel; one background thread posts them, retries, obeys rate limits
and keeps what it could not send in a spool directory, which the next process
replays.

| Component | State | Operations | Where |
|---|---|---|---|
| Transport | sender under a mutex, bounded channel, join handle under a mutex, the worker's position | `send_envelope`, `flush`, `shutdown`, worker start, `drain_spool`, `deliver`, process end | `transport.rs` |
| EventSpool | files of a directory, limits on count and bytes | `persist`, `enforce_limits`, `files`, `load_file`, `remove_file` | `transport.rs` |
| RateLimiter | a deadline per category and a global one | `is_limited`, `update_from_response` | `transport/ratelimit.rs` |
| TransportCounters | atomic counters and the queue gauge | incremented all over the transport, `snapshot` | `transport.rs` |
| Hub | client, scope stack and session under one RwLock; current hub per thread | `run`, `configure_scope`, `with_scope`, `push_scope`, `capture_event`, `start_session`, `end_session`, marks | `hub.rs`, `session.rs` |
| init and guard | the bound client, whether the guard ends a session | `init`, `ClientInitGuard::drop` | `lib.rs` |
| Panic integration | the process's panic hook | `panic_handler` | `panic.rs` |
| Request layers | per request: a hub, the inbound trace, a server span | axum and actix `call`, and the future it returns | `integrations/axum.rs`, `integrations/actix.rs` |
| Client pipeline | sample counter, captured and dropped counters | `capture_event`, `add_breadcrumb`, the direct ingest calls | `client.rs` |
| Scope | user, tags, trace context, a ring of breadcrumbs | setters, `apply_to_event` | `scope.rs` |
| Scrubber | none | `scrub_value` and the sanitizer around it | `scrub.rs` |
| Propagation | none | `extract`, `inject_active_span`, normalisation of ids | `propagation.rs` |
| Spans | `finished` of each span | `transaction`, `start_child`, `continued`, `finish`, drop | `performance.rs` |
| Outbound middleware | the span and trace context it holds over its await | `handle` | `integrations/reqwest.rs` |
| tracing and sqlx layers | the spans of the tracing layer | `on_event`, `on_new_span`, `on_close`, `build_record` | `integrations/tracing.rs`, `integrations/sqlx.rs` |

They interact by calls and by shared state: threads share the main hub's lock,
the channel and the two mutexes of the transport; the worker shares the spool
directory with every thread whose envelope overflows, and with the process
before and after it; the panic hook runs on whatever thread panics.

Hard behaviours: the order of a mutex, the channel and a counter in one call;
flush and shutdown racing captures and each other; a process that ends between
the server's answer and the removal of a file; retries after lost responses;
limits that close while an envelope is in hand; files that cannot be read or
removed; sessions marked after they were ended, or dropped with a request; scopes pushed and popped by threads that do not know of each other;
futures polled where nobody bound a hub, and dropped while they await; panics
that skip the pops or poison the lock; application code that runs under the
hub's lock; processes that replay and evict one directory from listings of
their own.

What makes each part correct:

- Transport: no envelope vanishes, none is kept twice, none is sent again after
  a 2xx unless its file outlived the answer (the process ended, or the removal
  failed), flush and shutdown mean what they return, nothing waits for ever.
- Limiter: no request goes into a closed limit.
- Counters: every capture is counted once as sent, persisted or dropped; the
  gauge shows the queue.
- Sessions: start, events, end handed over in this order, one end, marks that
  stick.
- Hubs: what a scope holds is seen by those it is for and gone when its body is;
  nobody waits for the lock for ever.
- Pipeline: a capture is counted once, nothing exposed leaves the process
  unless asked for, sampling keeps its rate, an event shows the current scope.
- Traces: a span is sent once, spans and records form trees, a trace continues
  across a call, and requests served at once do not share one.
- Spool files: what `persist` said true of is answered for or evicted, the
  limits hold, a file is sent twice only if two replays had it or it outlived
  its answer.

## 2. Modules

| Module | Models | Extends or uses |
|---|---|---|
| `Delivery` | what the transport promises: the abstract life of an envelope | |
| `Transport` | the channel, the worker, retries, limiter, spool, flush, shutdown, restart | `Delivery` by `INSTANCE ... WITH` |
| `TransportInvariant` | the inductive invariant `IInv` | `Transport` |
| `SequenceLemmas` | facts about sequences used as a channel and as a stack | TLAPS |
| `TransportProofs` | safety of `Transport`, its refinement of `Delivery`, safety of the counters | `TransportInvariant`, `TransportDiagnostics`, `SequenceLemmas` |
| `TransportDiagnostics` | the counters, composed with the transport's actions | `Transport` |
| `EventSpool` | the spool directory file by file, shared by processes | |
| `Sessions` | sessions on hubs, the guard, panics, request layers | |
| `Scopes` | scope stacks, current hub, guards, panics, request layers | |
| `HubLock` | the hub's RwLock, the application's code under it, panics, poisoning | |
| `Scrub` | `scrub_value`: which texts of a JSON value survive | |
| `Pipeline` | `Client::capture_event` and what bypasses it, breadcrumbs, the client's counters | `Scrub` |
| `Propagation` | trace headers: `extract`, `inject`, ids | |
| `Tracing` | spans, request layers, outbound calls, database records | `Propagation` |
| `PipelineProofs`, `SessionsProofs`, `ScopesProofs`, `HubLockProofs`, `EventSpoolProofs`, `TracingProofs` | the safety theorems of each | the module of that name |
| `MCTransport`, `MCDiagnostics`, `MCSpool`, `MCSessions`, `MCScopes`, `MCHubLock`, `MCPipeline`, `MCTracing` | instances for TLC | |

One part of the code is in more than one module where it takes part in more
than one hazard: the request layers in `Sessions` (the mark), `Scopes` (the
current hub) and `Tracing` (the trace); `capture_event` in `Sessions` (the
session), `HubLock` (the lock) and `Pipeline` (the event); the spool in
`Transport` (as a set, with the worker) and `EventSpool` (as files).

### Transport

One caller's call is split where another thread can see the difference.
`send_envelope` is `Capture` (the `try_send`, or the spool when it is refused,
under the sender's mutex) and `SendReturn` (the gauge, then the unlock).
`flush` is `FlushBegin`, `FlushSend` (a blocking send, enabled when there is
room) and one of `Acknowledge`, `FlushTimeout`, `FlushWorkerGone`. `shutdown`
is a flush followed by `TakeSender`, `LockHandle`, `Joined`. The worker is
`WorkerStart` or `WorkerStartFails`, the replay (`DrainNext`,
`DrainUnreadable`, `DrainEnd`), `Receive` / `ReceiveClosed`, `deliver`
(`CheckLimit`, one `Post...` action per kind of answer, `RetryOrGiveUp`) and
`Settle` or `SettleReplay`. `Restart` ends the process at any point; only the
spool and the server survive it. A response that is lost is `PostNetworkError`
with the envelope recorded by the server. Spool files are the envelopes in
them; `Evictions` lets any file be the first by name, because names sort by a
wall clock and a random id. The code looks at no result of `fs::remove_file`,
so every removal, by the limits (`Persist`), of an unreadable file
(`DrainUnreadable`) and of an answered one (`RemoveFile` in `SettleReplay`), may
leave its file.

The variables after the comment "History" are read by the properties alone:
what was captured, delivered, acknowledged, dropped, evicted, lost, what was in
memory when a flush was called, and what was left acknowledged in the spool by
the end of the process or a removal that failed (`leftover`).

### TransportDiagnostics

Adds `TransportCounters` to the same steps. Every action of `Transport` is
conjoined with what it does to the counters. `events_captured` is incremented in
a step of its own (`CountEnter`), before the sender's mutex is asked for;
`entering` is the envelope a thread has counted and not yet sent. `queue_size` is
incremented in `SendReturn`, after the worker could see the envelope, and decremented, never
below zero, in `Receive`.

### Sessions

Each use of a hub's lock is a step: `capture_event` is `CaptureClient`,
`CaptureRead` (the event gets the session id, unless it brings one or a hook puts
one into it, `Foreign`, and is handed over with the read lock held) and `CaptureMark` (a write lock taken anew). `start_session` is
`StartClient` and `Open`; `end_session` is `StopClient`, `Take` and `SendEnd`,
the last one with no lock. `InitClient` and `DropGuard` are `init` and the
guard's drop; `Panic` is `panic_handler`; `RequestCall`, `RequestRun`,
`RequestRunEnd`, `Respond` and `Cancel` are the request layers. When a layer's
future ends or is dropped its hub goes with it (`DropHub`), and so does a session
that is active there, without an end (`vanished`). `handed` is the sequence of
what was handed to the clients; the order in which the backend sees it is the
transport's, which may spool, replay and drop.

### Scopes

A scope is the set of tags set on it; a tag says who set it and whether for the
body of one `with_scope`. `frames` is the call stack of a thread as far as it
matters here: `with_scope` bodies and `Hub::run`. A panic that is caught above
them empties it and undoes nothing, since neither call has an unwind guard. A
request's handler runs in two parts, while the service is called (`RequestRun`,
inside `Hub::run`) and while its future is polled (`Poll`, outside). actix
never uses `Hub::run`.

### HubLock

A thread is the stack of the hub's calls it is in, each at a position: waiting
to read or to write, or running code of the application. `closure` and `hooks`
are under the lock (the closure of `configure_scope`; integrations and
`before_send` inside `capture_event`), `body` and `before_breadcrumb` are not.
With the lock poisoned `client()` is none, upon which `capture_event` returns and
`add_breadcrumb` goes on to its write all the same.
That code may call the hub again or panic (`AppPanics`). With the panic hook
installed, `panic_handler` runs on top of the stack before anything is unwound,
and takes the same lock for its mark, its capture and its flush; without it the
stack is unwound and a panic under the write lock sets `poisoned`. A panic inside
a panic aborts the process. `WriterFirst` says whether a queued
writer keeps readers out, as std's lock may.

### Scrub and Pipeline

A JSON value is the set of its leaves: a path of key classes and a text that
is clean, secret or already redacted. `scrub_value` keeps, redacts or passes
each leaf by the first key class on its path that decides, as the recursion of
`scrub.rs` does. `Pipeline` walks one event of each thread through
`capture_event`, `integrations`, `sanitize`, `before_send`, `sample` and
`deliver`, all with the hub's read lock held, so other threads capture meanwhile
but the scope changes only when no thread holds it (`ScopeFree`). An event may
bring a user, tags and breadcrumbs of its own (`Brought`), which `apply_to_event`
merges with the scope's as the code does. A hook (`Hook`: an integration or
`before_send`) keeps the event, adds a leaf to it, returns another one altogether,
drops it, or panics (`Panics`: the unwinding releases the read lock and no counter
is touched). `brought` remembers what the event brought until a hook replaced it.
`sample` compares the bucket with the rate on a grid of `Buckets * Fine`, finer
than the buckets, so that a rate between two buckets keeps the one below it; rates
of none and all return before the counter. `Ingest` is the path of logs, records
and the like, which skip all but the delivery's scrubbing. `Reported` is
`get_diagnostics`, the larger of the client's and the transport's count. `add_breadcrumb` runs the hook without the lock and `Push` then
pushes and trims under it. `OnEvent` is the tracing layer: ignored, breadcrumb,
event or log by level.

### Propagation and Tracing

A trace id is a text, given by the hex digits it comes to on the wire and a form,
the forms being those the code tells apart: `wire` (32 lower-case digits, not all
zero), `cased`, `loose` (padded, cleaned or truncated on the wire) and `junk`
(replaced by a fresh one). Two ids are one only if both agree: a `loose` id and
what the wire makes of it are different ids. A request id may be there and unusable
(`Blank`), which `extract` passes over and the actix layer takes (`Received`).
`Extract` takes the traceparent or the SDK's own headers in the code's order of
precedence; `Inject` writes both. In `Tracing` an actor is a request's handler
or the application outside of any. `ServeExternal` and `ServeCall` are a layer's
`call` with headers from outside or from an outbound call of this process;
`RunCall` and `RunCallEnd` bracket `Hub::run`; `Respond` finishes the server
span and sends the inbound record; `CancelRequest` drops the future where the
handler awaits, `PanicInRun` unwinds it inside `Hub::run`, which leaves the
request's hub bound to a thread (phase `left`). `Ambient` are the hubs that are
current for code no hub is bound for: the main one and those left so; which
thread polls what is the runtime's choice, so any of them may be current there
(`CurrentHubs`).
`StartCall` is the middleware up to its await, `EndCall` after it, `CancelCall`
the drop of its future. `SetIds` and `SetOwnId` are the application that calls
`set_trace_id`, `set_span_id` or both, with ids of its spans, with none, or with a
trace id it made itself. `mixed` has the spans that were on a scope beside a trace
that is not theirs, which the two setters and the axum layer without a span allow;
`shared` the traces that were on an ambient hub. `record` is the record the last
step sent.

### EventSpool

`dir` maps a file to whether it is written. `persist` is `Create` (the empty
file of `fs::write`), `Write` or `WriteFails`, `List`, then `Evict` one file
after another by the listing made, which other processes make stale; a listed
file that is gone is skipped. A replay keeps the listing of its start as a set and
takes the least name of it (`Current`): `Read`, or `ReadFails` and `Discard` of
what is gone, half written, or cannot be read or parsed although it is whole;
`Accepted`, `Refused` or `Retryable`; `RemoveReplayed`. `Remove` is
`fs::remove_file` with its result ignored: the file goes, or stays. `Crash` ends a
process anywhere. Operations that fail and processes that end are counted against
`MaxFaults`. Names are numbers and any unused one may be next, as wall clocks and
random ids allow.

## 3. Runs

| Run | Question | Instance | Result |
|---|---|---|---|
| `transport` | custody, limits, meaning of flush and shutdown | 2 envelopes of different categories; 2 threads; channel of 2; 1 retry; spool of one file; 1 restart | holds, 4.3 million states |
| `transport_live` | does everything get settled, does shutdown return at all | fair specification, 2 threads, 1 envelope, channel of 1 | holds, 0.1 million states |
| `diagnostics` | do the counters add up; refinement of `Delivery` | 1 thread, 2 envelopes, a spool limit in bytes that one of them exceeds alone, 1 restart | holds, 2.6 million states |
| `spool` | are files kept, limits held, sent once | 2 processes, 3 files of sizes 1, 2, 2, limits of 2 files and 3 units, 2 replays, 1 fault | holds, 4.1 million states |
| `sessions` | order, single end, marks, no forgotten session | 2 threads, 1 tracked init, 1 axum request, 2 sessions, 1 error event | holds, 2.0 million states |
| `scopes` | depth, temporary tags, the request's hub | 2 threads, 1 request, 1 ScopeGuard, 2 nested calls, depth 3, 1 panic | holds, 1.2 million states |
| `hublock` | who can block for ever, what a panic leaves | 3 threads, 3 calls, 3 frames, with and without the panic hook, writers first; fair specification | holds, 0.1 million states |
| `pipeline` | exposure, counters, sampling, fresh scope | 2 threads, 3 captures, 3 breadcrumbs on a ring of 2, rates of none, below a bucket, above one and all | holds, 1.4 million states |
| `tracing` | sent once, trees, continued and separate traces | 2 requests, one of which may be sent by the other's handler, 3 spans, 2 traces, ids set once by the application | holds, 1.7 million states |
| `flush_true` | does a true flush mean a drained queue | 2 threads | violated |
| `sessions_errors` | does an error event show in its session | as `sessions` | violated |
| `tracing_nests` | does a client span nest under the request's | 1 axum request, 2 spans | violated |

The bounds are chosen so that each limit is met: a channel of two holds an
envelope behind another or behind a flush and is full after that, a spool of one
file evicts on the second and a byte limit evicts the file just written, one
retry has both a first and a last attempt, a restart can meet a non-empty spool,
three breadcrumbs push one out of a ring of two, three captures pass the end of
a period of two buckets, two rates to a bucket are one on it and one between,
one fault meets every operation of the spool in some run, three frames hold a panic handler on a call inside a
call. Two threads are what every race here needs but one: that a queued
writer keeps out a reader while another reader is in takes three, and `hublock`
has them. Two processes are what stale listings need, and two requests what
mixing traces needs.

`MaxRestarts`, `MaxFrames`, `MaxDepth`, `MaxPanics`, `MaxCalls`, `MaxFiles`,
`MaxStarts`, `MaxFaults`, `MaxCaptures`, `MaxAdds`, `MaxSpans`, `MaxTraces` and
`MaxPublished` are bounds that are not in the code. `Buckets` stands for the
sampler's 1000, `MaxBreadcrumbs` for the ring's 100 and `Fine` for the values an
`f32` has in a bucket: the runs use 2 for each, since the code treats the values
the same way. Every envelope of the runs is
persistable; one that is not goes the way of one whose write fails
(`PersistOrDrop`). Deadlock checking is off where the application may simply
stop calling; `scopes` checks it.

What the violated runs show:

- `flush_true`: a flush called after another thread's shutdown took the sender
  returns true at once, while that shutdown still joins a worker with envelopes
  to deliver.
- `sessions_errors`: an error event carries a session's id, the session is
  ended before `capture_event` marks it, and it is reported as exited. The mark
  then falls on nothing or on the next session.
- `tracing_nests`: the axum layer calls the service inside `Hub::run` but
  awaits its future outside, so the client span of an async handler is opened on
  the main hub and starts a trace of its own, where `README.md:217` of the
  repository promises that it nests under the request's span.

Every property of a passing run has a mutant, a plausible bug of the code under
which the run finds the property violated.

## 4. What the code does that a reader may not expect

The models follow the code in each of these. They are plain from the source, or
are exceptions the properties name, and so have no run of their own.

Transport and spool:

- `shutdown` does not return within its timeout. `transport.rs:32` has it wait
  "up to `timeout`", and the repository's `README.md:86-87` sets that with
  `shutdown_timeout`, but the timeout bounds only the wait for the flush's
  acknowledgement (`transport.rs:674`): before it the flush message waits for
  room on the channel (`:671`), and after it `join` (`:685`) waits for all the
  worker still has to send, retries and backoff included. `ShutdownSettles` and
  `ShutdownReturns` are about this longer wait: the first that memory is empty
  when it is over, the second that it ends, as long as other threads' flushes do
  not take the room on the channel for ever. Neither says that it ends in time;
  time is not in the model.
- The result of `fs::remove_file` is never looked at. A file that cannot be
  removed after its replay was acknowledged is sent again at the next start, with
  no crash in between (`leftover` in `NoResend`, `exposed` in
  `ResentOnlyIfExposed`), and one the limits chose stays beyond them (`stray` in
  `LimitHolds`).
- A spool file that is whole and cannot be read, or whose path the SDK does not
  know, is removed and counted dropped although `persist` said true of it
  (`ended` in `PromiseKept`).
- Spooled envelopes are sent by the next start, behind whatever it sent first, so
  the backend can see the records of a session in another order than they were
  handed over, or without one of them.
- The worker can receive an envelope before its sender has incremented
  `queue_size`; the decrement of zero is lost and the reported size stays one
  too high. `GaugeCoversQueue` states the half that holds.
- Another process's replay can read a file between its creation and its write;
  it removes the file as unreadable, while `persist` goes on to say true (`ended`
  in `PromiseKept`). A replay also counts as dropped a file that
  another process has replayed already.
- A failed or crashed write leaves a torn file and skips `enforce_limits`
  (`stray` in `LimitHolds`).

Hub and request layers:

- A thread without a hub uses the main hub itself, not a clone of it (the
  comment at `hub.rs:19`), so it sees and pops what other threads push.
- Async handlers are polled outside `Hub::run`, so what they set lands on the
  main hub's scope, which other requests use too (`axum.rs:4` says otherwise).
  The actix layer never runs its hub.
- A request's hub is made without a session: a 5xx marks none unless the
  application started one on that hub. A session started there goes with the hub
  when the request's future ends or is cancelled, and no end is ever sent for it
  (`vanished` in `NoneForgotten`); one that a second start on its hub overwrites
  is forgotten as well (`replaced`).
- What `with_scope` set for its body can outlive it: on a scope that a ScopeGuard
  cloned meanwhile, until the guard is dropped; on a hub made for a request
  meanwhile; and for good where a panic skipped the pop. `TemporaryNeverSticks`
  is about the rest. A request's hub starts with all that the hub it was cloned
  from had on top, other requests' tags included (`inherited` in
  `RequestHubOwn`).
- A panic inside `Hub::run` that is caught further up leaves the request's hub
  bound to the thread, and what runs there next uses it (`escaped` in
  `RequestHubOwn`, phase `left` in `Tracing`): later requests can join the dead
  request's trace (`shared` in `TracesKeepApart`).
- A closure that panics under the hub's write lock while the panic hook is
  installed blocks its thread for ever, since the hook waits for that lock
  ("Capture never blocks the calling thread", the repository's
  `README.md:262`). Without the hook it poisons the lock: `configure_scope`
  does nothing, `client()` is none, and calls that unwrap panic.

Pipeline:

- An integration or `before_send` that panics loses its event from the books: it
  was counted captured and is neither handed over nor counted dropped
  (`panicked` in `CapturesCounted`).
- Hooks get the whole event and may change its user, tags and breadcrumbs too;
  `EventIsFresh` is about events none has changed so.
- A sample rate between two thousandths keeps as many as the one above it: 0.0005
  keeps one event in a thousand.
- `max_breadcrumbs` is not used; the ring's size is fixed by `Scope::new(100)`.
  An event that brought breadcrumbs may exceed it after the merge.
- `event_id` is not part of the JSON that the sanitizer passes through, so
  `before_send` sees a nil id.
- The exemption of identity keys covers the whole subtree below them.
- Metadata of an event that is not an object is discarded by the merge.
- The scope's level is applied after `capture_event` decided whether the event
  is an error, and an event that is dropped later still marks the session.
- A sample rate that is not a number drops everything.

Traces:

- An inbound record has no trace when the request brought none, although the
  span of the same request starts one.
- `set_trace_id` and `set_span_id` are independent, so a scope can have a span
  beside a trace that is not the span's; with `enable_transaction(false)` the
  axum layer makes such a scope itself, of the request's trace and the span the
  main hub had. Spans and database records made from it name a parent in another
  trace (`mixed` in `OneTree`).
- A trace id set by the application that has no wire form is padded, cleaned,
  truncated or replaced on the wire only (`propagation.rs:138`): the caller's
  span and records keep the id as it was, so the two services report different
  ids for one trace. `TraceContinues` and `OneTree` are about ids in wire form.
- An `x-request-id` that is empty or not text keeps the actix layer from using
  `x-allstak-request-id`, which `extract` and the axum layer fall back to.

## 5. Fairness

`FairSpec` of `Transport` assumes weak fairness of the worker's steps and of
each step inside a call of a caller: threads are scheduled, a request ends (the
HTTP client has a timeout of 30 s), `recv_timeout` runs out. Nothing is assumed
about what the application calls, about a limit running out, or about the
server's answers: it may refuse for ever, and envelopes are still settled
because retries are counted. Restarts are bounded, so a run in which the process
ends is finite.

`FairSpec` of `HubLock` assumes weak fairness of each thread's step inside a
call: threads are scheduled, and closures and hooks return or panic. Nothing is
assumed about new calls. Weak fairness is enough although readers overtake one
another, because calls are bounded; `WriterFirst` is true in the run.

## 6. Proofs

Every invariant and every action property of the passing runs is also a
theorem, proved by TLAPS for every value of the constants. `PROJECT.json` names
the theorem of each. The proofs assume only what the modules state next to their
constants, and TLC evaluates on each run:

| Module | Assumed |
|---|---|
| `Transport` | the channel has room for a message, the limits are naturals, envelopes and callers are different things |
| `Pipeline` | threads are finitely many, the period of the sampler, its buckets' values and the ring have at least one place |
| `Sessions`, `Scopes`, `Tracing` | the main hub, requests, threads and `None` are different things; `Scopes`: threads and guards are finitely many |
| `HubLock` | the bounds are naturals |
| `EventSpool` | the limits are positive, every file has a size |

Few of the properties are inductive. Below is what each proof adds, and why.

**Transport.** `Inductive`: `Spec => []IInv`. `IInv` (`TransportInvariant`) adds
to the properties `Custody` (what is in memory was captured and has no end yet,
nothing is on the channel twice), `Tickets` (a flush that waits is on the
channel or in the worker's hand exactly once), `Behind` (what was in memory when
the flush was called is ahead of its message), `Exit` (the worker is gone only
if nothing can come on the channel any more, and who holds the join handle) and
`Ends` (the ends of an envelope exclude each other). The action properties
`FlushKeepsPromise` and `ShutdownKeepsPromise` follow from it, as does
`TransportImplementsDelivery`: each action maps to one of `Delivery` or to a
stutter.

**Counters.** `CountersSteerNothing` first: a step of the counted transport is a
step of the transport, so `IInv` holds of it too. `CountInv` then adds that one
thread at most is between its `try_send` and its increment of the gauge
(`LockHeld`, the sender's mutex); this is the slack `GaugeCoversQueue` allows.
`Books` counts the undecided envelopes as the channel's and the worker's one;
that these are different envelopes is `Custody`.

**Pipeline.** `Invariance`: the breadcrumbs under way and those pushed are no
more than were asked for (`AddsBounded`), and the ring is the newest of what
was pushed (`RingIsLatest`). `NothingExposed` rests on `ScrubHides`: no leaf
keeps a secret through `scrub_value`, whatever the path to it.
`SamplerKeepsRate` rests on division: in `n` consecutive ticks each residue
comes up as often as the quotient says, plus one for the first few, and a bucket
is below the rate exactly if it is among the first, as many as the rate is rounded
up to (`RateRoundsUp`).

**Sessions.** The type needs that a thread in a capture has an event and that
what it is about to end was started (`TypeInv`). Every step then does nothing to
sessions or one of seven things (`Life`: an event handed over, a mark errored or
crashed, a session opened, taken, ended or gone with its hub), and `LifeInv` is
proved over these alone: a session is at one place at a time, on a hub, in a
thread's hand or ended (`Places`), what was handed over was started first
(`InOrder`), a crash mark stays (`Crashes`), and what is at none of these places
was replaced or vanished (`Remembered`). `Bracketed` needs the places: an event is
handed over while its session is on a hub, under the lock that keeps it there, so
no end can have been handed over already. `NoneForgotten` adds that a session is
only ever on a hub that is in use (`InUse`).

**Scopes.** The type needs that every hub in use has a base scope (`HubsMade`):
without it a pop could reach below. `DepthMatches` counts open bodies, open
guards and skipped pops; its proof moves one element between those sets per
step. `TemporaryNeverSticks` has two halves: what is pushed lands above the base
and only `configure_scope` writes in place (`BaseKept`), and by `DepthMatches` the
base is all there is once nothing is open. `RequestHubOwn` adds `Bound`: a thread that
no panic took out of `Hub::run` has a current hub only inside one such call, and
serves that hub's request there.

**HubLock.** A handler is never stacked on another and ends the stack's growth
(`Shape`), which is what bounds the type. `HalfChangedUnseen` adds `LockInv`: a
writer is alone, and a poisoned lock is held by nobody.

**EventSpool.** `KeptInv` says of every file there was why it is there or gone
(`Traced`), whose it is while its call runs (`Owned`), that only such files, or
torn ones, are unwritten and unpromised (`Written`, `Torn`), and that a replay
removes what was answered or did not load (`Answered`). `ResentOnlyIfExposed` adds
`Once`: a file that was acknowledged and is not exposed is at most in the hand of
the replay that had the answer. `LimitHolds` is about processes that each evict by a
listing of their own. Its invariant `LimitInv` says that listings made at
different times are comparable on the files still there, and that one of them,
within the limits, has every settled file: the one made last by a call that
ended. `MaxBytes` is stated with a sum over a set, a recursive function of the
community modules; that it adds up is derived from the well-foundedness of the
strict subsets (`SumUnfolds`, `SumTakes`), with sets in place of the induction
theorem's operator parameter.

**Tracing.** `IInv` adds `Idle` (a request that runs no code awaits no call and,
before it is served, has left nothing anywhere), `Holders` (an open server span
is with its request, an open client span with its caller's call), `Keeps` (the
headers of a call in flight say its trace, though `Extract` prefers some headers
to others), `Trees` (the contexts on hubs, in requests and in headers name spans
of their own trace, which is where new spans get their parents, or spans on record
as mixed, or have crossed the wire from an id without wire form) and `Known`
(whoever can put a trace on a span is of one chain of calls, or the trace was on
an ambient hub; what is on one now is on record; and nobody knows the trace that
is started next).

Only model-checked:

- `EventuallySettled`, `ShutdownReturns` and `EveryWaitEnds`: liveness under
  fairness is outside this prover's reach.
- The three properties of the violated runs, which do not hold.

## 7. Not modelled

- Wire formats, stack frames, time formatting, SQL normalisation, the regular
  expressions of the scrubber, the visitors of the tracing layer: text
  processing without control of its own. What the properties tell apart is in
  the records of `Pipeline`, `Sessions` and `Tracing`.
- `StubTransport`: a recorder for tests, without a queue.
- Options and the environment: the values are constants; reading them keeps no
  state.
- A `sample_rate` that is not a number (`options.rs`; section 4 says what it
  does), and in `Pipeline` the drop counts `get_diagnostics` adds from the
  transport, which are those of `TransportDiagnostics`.
- Sessions on a hub that a panic in `Hub::run` left bound to a thread (`Scopes`
  and `Tracing` have such hubs), and an application that keeps a clone of a
  request's hub beyond the request.
- In `Tracing`, ids the application sets that are neither its own spans' nor made
  by itself, and trace ids in wire form that it made, which are like a span's.
- `extra`, contexts, fingerprint, transaction and level of a scope, which go
  the way of tags; baggage, which never reaches a scope; status, tags and data
  of a span.
- Durations: a limit or a timeout may run out at any time, so that no property
  says how long a call takes. For this reason the
  overflow of `Instant + Duration` by a huge `Retry-After` (`ratelimit.rs:65`)
  has no property, nor has the panic hook on the worker's own thread
  (`panic.rs:76`), which would flush to itself: the worker of `Transport` does
  not panic.
- A channel of size zero, and a spool directory that cannot be listed.
- Whether a session's end still reaches an open transport after a client's
  shutdown (`lib.rs:137`). Two tracked inits, whose guards end each other's
  sessions, are in the theorems of `Sessions` and not in a run.
- `Delivery` is silent on how an envelope that was stored gets lost: it lets it.
  That only the limits or the end of a process lose one is `Accounted`, not the
  refinement.

## 8. Plan

Done, in this order: `Transport` and `Delivery`, `TransportDiagnostics`,
`Sessions`, `Scopes`, `Propagation` and `Tracing`, `Scrub` and `Pipeline`,
`EventSpool`, `HubLock`; then the theorems of each, as in section 6.

What is left, the most useful first:

1. An abstract specification of a session's life, from the six steps that
   `SessionsProofs` reduces every action to, and `Sessions` as its
   implementation.
2. The same for the spool: a file is promised, then answered for or evicted.
3. `Transport` uses the spool as a set and `EventSpool` as files: that the
   second, with one process, is an implementation of the first.
