\* Every kind of message at once: good, failing, unknown function, arguments that do not unpack.
SPECIFICATION Spec
CONSTANTS
  m1 = m1
  m2 = m2
  m3 = m3
  m4 = m4
  f = f
  g = g
  Messages = {m1, m2, m3, m4}
  Functions = {f, g}
  FnOf <- MixedFn
  Kind <- MixedKind
  Concurrency = 2
  MaxRetries = 2
  ExitOnFinish = TRUE
  HasTimeout = TRUE
  NoMessage = NoMessage
INVARIANTS
  TypeOK
  SlotsConserved
  NoLostWakeup
  OnePlace
  TaskDoneOwed
  RetryDiscipline
PROPERTIES
  WaitMissesOnlyHand
  ImplementsTaskQueue
CHECK_DEADLOCK FALSE
