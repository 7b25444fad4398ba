\* Two deliveries to one endpoint, two isolates, a ladder of three rungs, an
\* endpoint disabled after two failures; one message duplicated or one send
\* that throws.
SPECIFICATION FairSpec
CONSTANTS
    Deliveries = {d1, d2}
    Workers = {w1, w2}
    NoWorker = NoWorker
    Rungs = 3
    DisableAfter = 2
    Faults = {"crash_unleased", "duplicate"}
    MaxMishaps = 1
INVARIANTS
    TypeOK
    OneRequestAtATime
    GivenUpHonestly
PROPERTIES
    PromiseKept
    DeliveriesSettle
CHECK_DEADLOCK FALSE
