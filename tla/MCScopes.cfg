\* Scope stacks of a shared main hub: two threads, one request, one guard,
\* two nested calls a thread and one panic.
SPECIFICATION Spec
CONSTANTS
  None = None  Main = Main
  Threads = {t1, t2}
  Requests = {r1}
  Axum = {r1}
  Guards = {g1}
  MaxFrames = 2
  MaxDepth = 3
  MaxPanics = 1
SYMMETRY Symmetric
INVARIANTS TypeOK DepthMatches TemporaryNeverSticks RequestHubOwn
