SPECIFICATION FairSpec
CONSTANTS
  c1 = c1
  c2 = c2
  k1 = k1
  k2 = k2
  Ids = {TRUE, FALSE}
  Call = {c1, c2}
  Key = {k1, k2}
  KeysOf <- FirstUsesK1
  MaxRuns = 2
  MaxRevision <- OneRevisionIfAuto
  MaxAttempts <- OneAttemptIfAuto
  UpdateFaults <- FaultsIfAuto
  Compliant <- FirstOnly
CHECK_DEADLOCK FALSE
INVARIANTS DecidedIsKept ConflictTellsDecision GateSeesDecision
PROPERTIES ListingSpec EveryCallAnswered DecisionTakesEffect
