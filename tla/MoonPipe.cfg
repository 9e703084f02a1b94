CONSTANTS
  Creator = c
  Threads = {c, t1, t2}
SPECIFICATION FairSpec
INVARIANTS
  NoUseAfterFree
  CallbacksRight
  ReferencesRight
PROPERTIES
  WaitersReturn
  ImplementsResources
CHECK_DEADLOCK FALSE
