\* A publisher that is early: in memory before the first step of the listener,
\* over Redis before the subscription exists.
SPECIFICATION Spec
CONSTANTS
  g1 = g1
  g2 = g2
  h1 = h1
  h2 = h2
  h3 = h3
  h4 = h4
  t1 = t1
  t2 = t2
  m1 = m1
  m2 = m2
  m3 = m3
  Managers = {g1, g2}
  Handlers = {h1, h2, h3, h4}
  Topics = {t1, t2}
  Messages = {m1, m2, m3}
  ManagerOf <- TwoManagersOf
  Wanted <- Wants
  HomeOf <- Homes
  TopicOf <- TopicsOf
  Kind <- EmptyKinds
  Unfit = {h4}
  Backends = {"memory", "redis"}
  Outside = Outside
PROPERTIES
  OwnListenerHears
CHECK_DEADLOCK FALSE
