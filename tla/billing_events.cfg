SPECIFICATION FairSpec
CONSTANTS
    h1 = h1
    h2 = h2
    a1 = a1
    i1 = i1
    Handlers = {h1, h2}
    Admins = {a1}
    Invoices = {i1}
    Statuses <- SomeStatuses
    MaxEvents = 4
    MaxRaced = 2
    MaxRestarts = 1
    Weather = {TRUE, FALSE}
INVARIANTS MirrorsStripe RecordedHasEffect
PROPERTY EveryEventAcked
CHECK_DEADLOCK FALSE
