\* The books of the counters and the promise of Delivery: one thread, two
\* envelopes, one restart.
SPECIFICATION SpecCounted
CONSTANTS
  e1 = e1  error = error  log = log  Nobody = Nobody
  Envelopes = {e1, e2}
  Persistable = {e1, e2}
  Categories <- MCCategories
  CategoryOf <- MCCategoryOf
  SizeOf <- MCSizeOf
  Callers = {t1}
  QueueSize = 2
  MaxRetries = 1
  OfflineQueue = TRUE
  MaxEvents = 2
  MaxBytes = 1
  MaxRestarts = 1
CHECK_DEADLOCK FALSE
INVARIANTS BooksBalance GaugeCoversQueue
PROPERTY DeliveryPromise
