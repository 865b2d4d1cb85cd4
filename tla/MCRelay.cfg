SPECIFICATION Spec
CONSTANTS
    Endpoints <- OneRelay
    Envelope <- Exchange
    Attempts = 2
    MAX_SKEW = 1
    NONCE_MEMORY = 3
    QUEUE_TTL = 2
    Minute = 1
    Hour = 2
    RATE_PER_MINUTE = 2
    RATE_PER_HOUR = 3
    MaxTime = 3
    Offset <- Clocks
    MaxFaults = 1
INVARIANTS TypeOK QueuedOnce RoutedHome KeptUntilTTL
PROPERTIES RevokeReachesAskers
CHECK_DEADLOCK FALSE
