\* Two requests, one of which may be sent by the other's handler, three spans and
\* two traces.  The system may stop: there is no deadlock to check.
SPECIFICATION Spec
CONSTANTS
  None = None  Main = Main
  Requests = {r1, r2}
  r1 = r1  r2 = r2
  LayersOf <- Served
  SettingsOf <- Clients
  MaxPublished = 1
  MaxSpans = 3
  MaxTraces = 2
CHECK_DEADLOCK FALSE
INVARIANTS TypeOK SentOnce OneTree TraceContinues TracesKeepApart
