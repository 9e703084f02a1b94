CONSTANTS
  Callers = {c1, c2, c3}
  Tasks = {t1, t2, t3}
  Processes = {p1, p2, p3}
  process_max = 2
  idle_max = 1
  RingTasks = 2
SPECIFICATION FairSpec
INVARIANTS
  CountsAgree
  TaskOnce
  EnoughProcesses
PROPERTIES
  AcceptedRuns
CHECK_DEADLOCK FALSE
