SPECIFICATION Spec
CONSTANTS
    Job = {1, 2}
    Permit = {p1, p2, p3, p4}
    Max = 1
    Ttl = 3
    Startup = 0
    CallBudget = 2
    BusyDelay = 1
    SweepDelay = 4
    FirstCooldown = 1
    LongestCooldown = 3
    RetryDelays <- Delays
    MaxAttempts = 2
    MaxMishaps = 2
    Faults = {"throw", "report"}
INVARIANTS TypeOK ConcurrencyCapped
PROPERTIES CooldownKept EveryJobGetsThrough
CHECK_DEADLOCK FALSE
