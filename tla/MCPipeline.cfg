\* Two threads, three captures, three breadcrumbs on a scope that keeps two, and
\* four sets of options.  The application may stop calling.
SPECIFICATION Spec
CONSTANTS
  None = None
  App = App
  Threads = {t1, t2}
  Options <- MCOptions
  Buckets = 2
  Fine = 2
  MaxBreadcrumbs = 2
  Brought <- MCBrought
  Bodies <- MCBodies
  Additions <- MCAdditions
  MaxCaptures = 3
  MaxAdds = 3
SYMMETRY Swap
CHECK_DEADLOCK FALSE
INVARIANTS TypeOK NothingExposed HookSeesNothingExposed CapturesCounted SamplerKeepsRate EventIsFresh
