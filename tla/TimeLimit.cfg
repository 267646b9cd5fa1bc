\* A request takes up to a second: just what the expiry leaves room for.
SPECIFICATION Spec
CONSTANTS
  Threads = {t1, t2, t3}
  Limit = 2
  Second = 2
  RunTime = 2
  MaxDelay = 2
  MaxTime = 6
INVARIANTS
  TypeOK
  AcceptedPerSecond
  RejectedWhenFull
  ReportsItself
