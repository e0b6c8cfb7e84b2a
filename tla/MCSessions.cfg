\* Sessions on one hub: two threads, one tracked init, one request, two
\* sessions and one error event.
SPECIFICATION Spec
CONSTANTS
  None = None  Foreign = Foreign  Main = Main
  Threads = {t1, t2}
  Clients = {c1}
  Tracked = {c1}
  Released = {c1}
  Requests = {r1}
  Axum = {r1}
  SessionIds = {s1, s2}
  Events = {e1}
  ErrorLevel = {e1}
SYMMETRY Symmetric
CHECK_DEADLOCK FALSE
INVARIANTS TypeOK EndsOnce Bracketed CrashSticks NoneForgotten
