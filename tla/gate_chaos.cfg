SPECIFICATION FairSpec
CONSTANTS
  w1 = w1
  w2 = w2
  h1 = h1
  h2 = h2
  NoOne = NoOne
  Workflow = {w1, w2}
  Worker = {h1, h2}
  Content = {c1, c2}
  RunsOn <- OneHostEach
  MaxAttempts <- RetriesOfW2
  WrittenFields <- FieldsForKeys
  EchoedFields <- LiveFieldsOfKeys
  InitialStore <- NothingOnSale
  DryRunHosts = {h2}
  SlowAttempts = TRUE
  LateWrites = TRUE
CHECK_DEADLOCK FALSE
INVARIANTS WriteNeedsApproval CompletedWasWritten
PROPERTIES KeyComesFree
