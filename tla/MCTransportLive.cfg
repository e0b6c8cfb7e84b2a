\* Liveness of the transport: two application threads, one envelope, one restart.
SPECIFICATION FairSpec
CONSTANTS
  e1 = e1   error = error  log = log  Nobody = Nobody
  Envelopes = {e1}
  Persistable = {e1}
  Categories <- MCCategories
  CategoryOf <- MCCategoryOf
  SizeOf <- MCSizeOf
  Callers = {t1, t2}
  QueueSize = 1
  MaxRetries = 1
  OfflineQueue = TRUE
  MaxEvents = 1
  MaxBytes = 5
  MaxRestarts = 1
CHECK_DEADLOCK FALSE
PROPERTIES EventuallySettled ShutdownReturns
