CONSTANTS
  Threads = {t1, t2, t3}
  InitStatus = 0
SPECIFICATION FairSpec
INVARIANTS
  TypeOK
  CountIsUsers
  ReleasedProperly
PROPERTIES
  EventuallyReleased
  ImplementsResource
