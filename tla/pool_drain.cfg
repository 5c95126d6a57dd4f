SPECIFICATION FairSpec
CONSTANTS
  t1 = t1
  t2 = t2
  t3 = t3
  w1 = w1
  w2 = w2
  c1 = c1
  c2 = c2
  Task = {t1, t2, t3}
  Worker = {w1, w2}
  Closer = {c1, c2}
  QueueDepth = 2
  Cancels = TRUE
CHECK_DEADLOCK FALSE
PROPERTIES
  AcceptedRuns
  CloseReturns
INVARIANTS
  DrainedMeansRun
