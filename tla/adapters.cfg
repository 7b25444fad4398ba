SPECIFICATION Spec

CONSTANTS
    Used <- ProviderName
    Faults <- ToleratedFaults
    MaxAttempts = 3

INVARIANTS
    TypeOK
    OneLivePost
    RefusedIsNotLive
    PublishedIsOurs
    BlockedIsDeserved

PROPERTY EveryJobSettles

CHECK_DEADLOCK FALSE
