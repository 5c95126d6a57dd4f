SPECIFICATION Spec
CONSTANTS
  r1 = r1
  r2 = r2
  a1 = a1
  NoId = NoId
  Req = {r1, r2}
  Id = {a1}
  Shapes <- AllShapes
  InitialLogs <- LegacyLog
  Faults = TRUE
  MaxDays = 1
  QueryColumns <- QueryOfTable
CHECK_DEADLOCK FALSE
SYMMETRY RequestSymmetry
INVARIANTS
  AppliedIsRecorded
  OneUnmatchedPerWrite
PROPERTY CleanVerdictIsTrue
