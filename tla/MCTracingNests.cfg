\* One request of an axum service whose handler makes a call.
SPECIFICATION Spec
CONSTANTS
  None = None  Main = Main
  Requests = {r1}
  r1 = r1  r2 = r2
  LayersOf <- OneAxum
  SettingsOf <- OneClient
  MaxPublished = 1
  MaxSpans = 2
  MaxTraces = 4
CHECK_DEADLOCK FALSE
INVARIANT NestsUnderRequest
