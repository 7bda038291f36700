\* Results in memory, in Redis or nowhere, with two calls that poll.
SPECIFICATION FairSpec
CONSTANTS
  i1 = i1
  i2 = i2
  p1 = p1
  p2 = p2
  Ids = {i1, i2}
  Results <- MCResults
  Pollers = {p1, p2}
  WaitsFor <- MCWaitsFor
  Timeout <- MCTimeout
  PollEvery = 2
  TTL = 1
  SweepEvery = 2
  MaxStores = 3
INVARIANTS
  CleanerAlive
PROPERTIES
  OnlyExpiredGo
  NoTimeoutBesideResult
  WaitEnds
  EventuallyForgotten
