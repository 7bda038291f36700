\* One slot: the second task is in the listener's hand while the first runs.
SPECIFICATION Spec
CONSTANTS
  m1 = m1
  m2 = m2
  m3 = m3
  m4 = m4
  f = f
  g = g
  Messages = {m1, m2, m3}
  Functions = {f}
  FnOf <- BenignFn
  Kind <- BenignKind
  Concurrency = 1
  MaxRetries = 1
  ExitOnFinish = TRUE
  HasTimeout = FALSE
  NoMessage = NoMessage
PROPERTIES
  WaitExitsWhenFinished
CHECK_DEADLOCK FALSE
