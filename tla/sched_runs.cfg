SPECIFICATION FairSpec
CONSTANTS
  r1 = r1
  r2 = r2
  r3 = r3
  k1 = k1
  w1 = w1
  NoRun = NoRun
  Run = {r1, r2, r3}
  Priority <- UrgentThird
  Panicky = {r3}
  Canceller = {k1}
  Waiter = {w1}
  About <- TheSecond
  MaxConcurrent = 1
CHECK_DEADLOCK FALSE
INVARIANTS SlotsAreExecutions DispatchFits ClosedMeansEnded
PROPERTY EveryRunEnds
