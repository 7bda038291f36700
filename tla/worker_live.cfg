\* One slot, so the second task waits for the first.
SPECIFICATION FairSpec
CONSTANTS
  m1 = m1
  m2 = m2
  m3 = m3
  m4 = m4
  f = f
  g = g
  Messages = {m1, m2, m3}
  Functions = {f}
  FnOf <- BenignFn
  Kind <- BenignKind
  Concurrency = 1
  MaxRetries = 2
  ExitOnFinish = TRUE
  HasTimeout = FALSE
  NoMessage = NoMessage
PROPERTIES
  EveryTaskSettles
  StopReturnsSlots
  WaitReturns
CHECK_DEADLOCK FALSE
