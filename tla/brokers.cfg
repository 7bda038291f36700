\* Two tasks, one at a time over AMQP, one failing call, one restart.
SPECIFICATION ProcessSpec
CONSTANTS
  t1 = t1
  t2 = t2
  a1 = a1
  None = None
  Backends = {"redis", "amqp", "zmq"}
  Tasks = {t1, t2}
  Prefetch = 1
  MaxFaults = 1
  MaxLives = 2
  Fn = f
  Requests <- RequestsOf
  Hosts = {"console", "setup", "lifespan", "program"}
  Pools = {"async", "thread"}
INVARIANTS
  BegunAtMostOnce
  VerdictIsTrue
  WithinPrefetch
PROPERTIES
  SettledIsOver
CHECK_DEADLOCK FALSE
