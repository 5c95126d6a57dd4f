SPECIFICATION WorkflowsSpec
CONSTANTS
  p1 = p1
  p2 = p2
  p3 = p3
  r1 = r1
  r2 = r2
  o1 = o1
  o2 = o2
  v1 = v1
  v2 = v2
  s1 = s1
  s2 = s2
  s3 = s3
  t1 = t1
  t2 = t2
  Exec <- Execs
  Flow <- FlowOf
  About <- AboutOf
  Scenarios <- Together
  Large <- LargeRefunds
  Gateway <- GatewayOf
  MaxAttempts = 3
  MaxRetries = 3
  MaxSagaTrouble = 6
  MaxTrouble = 3
  Trial = {TRUE, FALSE}
  MaxSignals = 2
  MaxPeriods = 2
CHECK_DEADLOCK FALSE
INVARIANTS RenewalsAreDue OncePerSubject RolledBackIsUndone ClaimsAreTrue
PROPERTY CancelEnds
