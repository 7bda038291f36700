\* The dead letter queue in memory or Redis, over any broker.
SPECIFICATION FairSpec
CONSTANTS
  i1 = i1
  i2 = i2
  i3 = i3
  f = f
  g = g
  r1 = r1
  r2 = r2
  Ids = {i1, i2, i3}
  Names = {f, g}
  NameOf <- MCNameOf
  FunctionOf <- MCFunctionOf
  Retriers = {r1, r2}
  MaxSize = 2
  MaxFails = 4
INVARIANTS
  Bounded
  NothingLost
  RetriedOnce
  IndexHasKeys
PROPERTIES
  RetryEnds
CHECK_DEADLOCK FALSE
