\* The thread may exit, abort, or sleep beyond the last instant of the clock.
CHECK_DEADLOCK FALSE
CONSTANTS
  Second = 3
  PeriodNs = 2
  DelayNs = 2
  MaxTime = 14
SPECIFICATION Spec
INVARIANTS
  TypeOK
  NoDrift
  NeverEarly
  StatisticsAgree
