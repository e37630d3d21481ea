\* The caller destroys the pool at last, or an assertion ends the program.
CHECK_DEADLOCK FALSE
CONSTANTS
  Second = 3
  PeriodsNs = {2, 3, 4}
  MinPrio = 1
  SchedMin = 1
  SchedMax = 4
  MaxThreads = 4
SPECIFICATION Spec
INVARIANT
  PrioritiesAccepted
