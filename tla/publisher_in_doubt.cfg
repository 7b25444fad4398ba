\* No fault at all: a call whose answer is unknown, and a search that cannot
\* tell.
SPECIFICATION Spec
CONSTANTS
    Targets = {t1}
    Workers = {w1}
    Leases = {l1}
    NoLease = NoLease
    MaxAttempts = 1
    Faults = {}
    Redelivered = {}
    MaxMishaps = 0
    MaxRetries = 0
INVARIANT FailedIsNotLive
CHECK_DEADLOCK FALSE
