\* Both limiters.  One call a period, so that two that wait and one too many fit
\* below what the clock lets them read.
SPECIFICATION LimiterSpec
CONSTANTS
  c1 = c1
  c2 = c2
  Callers = {c1, c2}
  Limit = 1
  Period = 3
  Burst = 3
  Timeout <- MCTimeout
  Never = Never
  MaxTime = 6
  Lifetime = 4
INVARIANTS
  RateBound
  RefusalJustified
  NapFits
  WindowBound
  ExpiryIsSafe
PROPERTIES
  RefusedForCause
CHECK_DEADLOCK FALSE
