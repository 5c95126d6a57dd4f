SPECIFICATION FairSpec
CONSTANTS
  m1 = m1
  m2 = m2
  m3 = m3
  run = run
  stop = stop
  exec = exec
  Component = {m1, m2, m3}
  Stubborn = {m2}
  Caller = {run, stop, exec}
  Role <- Roles
  Coordinators = {"manager", "phases"}
  Phases <- ThreePhases
  Duration <- Durations
  Timeout = 3
CHECK_DEADLOCK FALSE
INVARIANTS ClosedInReverse BudgetHolds
PROPERTY EveryComponentCloses
