\* One isolate dies between the provider call and the statement that records
\* its outcome, once.
SPECIFICATION Spec
CONSTANTS
    Targets = {t1}
    Workers = {w1}
    Leases = {l1}
    NoLease = NoLease
    MaxAttempts = 2
    Faults = {"crash"}
    Redelivered = {}
    MaxMishaps = 1
    MaxRetries = 0
INVARIANT EffectivelyOnce
CHECK_DEADLOCK FALSE
