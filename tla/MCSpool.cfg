\* Two processes, three files of different sizes, limits of two files and three
\* units, two replays, one fault.  The processes may stop.
SPECIFICATION Spec
CONSTANTS
  Processes = {p1, p2}
  MaxEvents = 2
  MaxBytes = 3
  MaxFiles = 3
  SizeOf <- OneTwoTwo
  MaxStarts = 2
  MaxFaults = 1
SYMMETRY Swap
CHECK_DEADLOCK FALSE
INVARIANTS TypeOK PromiseKept LimitHolds ResentOnlyIfExposed
