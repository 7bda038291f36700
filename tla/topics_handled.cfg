\* What keeps a message from the functions subscribed: it, or another, ends the
\* listener; over AMQP it is skipped.
SPECIFICATION FairSpec
CONSTANTS
  g1 = g1
  g2 = g2
  h1 = h1
  h2 = h2
  h3 = h3
  h4 = h4
  t1 = t1
  t2 = t2
  m1 = m1
  m2 = m2
  m3 = m3
  Managers = {g1, g2}
  Handlers = {h1, h2, h3, h4}
  Topics = {t1, t2}
  Messages = {m1, m2, m3}
  ManagerOf <- TwoManagersOf
  Wanted <- Wants
  HomeOf <- Homes
  TopicOf <- TopicsOf
  Kind <- MalformedKinds
  Unfit = {h4}
  Backends = {"memory", "redis", "amqp", "zmq"}
  Outside = Outside
PROPERTIES
  EveryMessageIsHandled
CHECK_DEADLOCK FALSE
