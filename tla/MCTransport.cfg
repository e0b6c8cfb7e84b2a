\* Safety of the transport: two application threads, a channel of two slots,
\* a spool of one file, one restart.
SPECIFICATION Spec
CONSTANTS
  e1 = e1   error = error  log = log  Nobody = Nobody
  Envelopes = {e1, e2}
  Persistable = {e1, e2}
  Categories <- MCCategories
  CategoryOf <- MCCategoryOf
  SizeOf <- MCSizeOf
  Callers = {t1, t2}
  QueueSize = 2
  MaxRetries = 1
  OfflineQueue = TRUE
  MaxEvents = 1
  MaxBytes = 5
  MaxRestarts = 1
SYMMETRY Threads
CHECK_DEADLOCK FALSE
INVARIANTS TypeOK Accounted OnePlace NoResend NeverHot
PROPERTIES AckOutlivesPending ShutdownSettles
