SPECIFICATION FairSpec
CONSTANTS
  e1 = e1
  e2 = e2
  e3 = e3
  r1 = r1
  r2 = r2
  c1 = c1
  c2 = c2
  Event = {e1, e2}
  Broken = {e2}
  Reg = {r1, r2}
  Flaky = {r2}
  Founding = {r1}
  Consumer = {c1, c2}
  Buses = {"streams", "memory"}
  Count = 2
  MaxAttempts = 2
  MaxTrouble = 1
CHECK_DEADLOCK FALSE
INVARIANTS AckedIsServed RepeatsAreCaused
PROPERTY EveryEventArrives
