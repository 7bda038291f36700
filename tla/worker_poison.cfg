\* A message without a task_id and a good task, in either order.
SPECIFICATION FairSpec
CONSTANTS
  m1 = m1
  m2 = m2
  m3 = m3
  m4 = m4
  f = f
  g = g
  Messages = {m1, m2}
  Functions = {f}
  FnOf <- PoisonFn
  Kind <- PoisonKind
  Concurrency = 1
  MaxRetries = 1
  ExitOnFinish = TRUE
  HasTimeout = FALSE
  NoMessage = NoMessage
PROPERTIES
  EveryTaskSettles
CHECK_DEADLOCK FALSE
