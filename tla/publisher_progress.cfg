\* Two targets of one post and no faults: automatic retries up to the budget,
\* reconciliation, cancels, and the aggregate status of the post.
SPECIFICATION FairSpec
CONSTANTS
    Targets = {t1, t2}
    Workers = {w1}
    Leases = {l1}
    NoLease = NoLease
    MaxAttempts = 2
    Faults = {}
    Redelivered = {}
    MaxMishaps = 0
    MaxRetries = 0
INVARIANT ClosedPostIsSettled
PROPERTIES
    EveryTargetComesToRest
    AggregateConverges
CHECK_DEADLOCK FALSE
