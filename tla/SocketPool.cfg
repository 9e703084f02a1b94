CONSTANTS
  Orders = {o}
  Conns = {c}
  Clients = {t1, t2}
  listen_task = listen_task
  Fds = {3, 4}
  NULL = NULL
SPECIFICATION FairSpec
INVARIANTS
  EventsAlive
  FdsOwned
PROPERTY
  ClosedIsReleased
