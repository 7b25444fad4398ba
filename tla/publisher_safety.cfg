\* One target, two isolates, automatic retries; crashes anywhere but between a
\* provider call and the statement that records it, lost sends, I/O errors,
\* redelivered publish.target messages, one customer retry.
SPECIFICATION Spec
CONSTANTS
    Targets = {t1}
    Workers = {w1, w2}
    Leases = {l1, l2}
    NoLease = NoLease
    MaxAttempts = 2
    Faults = {"crash_outside", "lost_send", "io"}
    Redelivered = {"target"}
    MaxMishaps = 1
    MaxRetries = 1
SYMMETRY Symmetry
INVARIANTS
    TypeOK
    LeaseDiscipline
    EffectivelyOnce
    LeasableIsNotLive
    PublishedIsLive
    NoEarlyPublish
    BudgetRespected
PROPERTIES
    StatusesFollowTheDomain
    PromiseKept
CHECK_DEADLOCK FALSE
