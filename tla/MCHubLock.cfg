\* Three threads, three calls, with and without the panic hook.  The application
\* may stop calling, and code that uses the hub again may stop itself.
SPECIFICATION FairSpec
CONSTANTS
  Threads = {t1, t2, t3}
  PanicHooks = {TRUE, FALSE}
  WriterFirst = TRUE
  MaxFrames = 3
  MaxCalls = 3
CHECK_DEADLOCK FALSE
INVARIANTS TypeOK HalfChangedUnseen
PROPERTY EveryWaitEnds
