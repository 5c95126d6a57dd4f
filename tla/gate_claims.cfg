SPECIFICATION Spec
CONSTANTS
  w1 = w1
  w2 = w2
  h1 = h1
  h2 = h2
  NoOne = NoOne
  Workflow = {w1, w2}
  Worker = {h1, h2}
  Content = {c1}
  RunsOn <- SharedHost
  MaxAttempts <- RetriesOfW2
  WrittenFields <- FieldsForKeys
  EchoedFields <- FieldsForKeys
  InitialStore <- NothingOnSale
  DryRunHosts = {}
  SlowAttempts = TRUE
  LateWrites = TRUE
CHECK_DEADLOCK FALSE
INVARIANTS ClaimExclusive OneProductPerSku
PROPERTIES CompletedIsFinal ListingSpec
