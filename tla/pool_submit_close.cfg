SPECIFICATION Spec
CONSTANTS
  t1 = t1
  t2 = t2
  t3 = t3
  w1 = w1
  w2 = w2
  c1 = c1
  c2 = c2
  Task = {t1, t2}
  Worker = {w1}
  Closer = {c1}
  QueueDepth = 1
  Cancels = FALSE
CHECK_DEADLOCK FALSE
INVARIANT SubmitDoesNotPanic
