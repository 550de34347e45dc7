SPECIFICATION Spec
CONSTANTS
    Receivers = {r1, r2}
    Sets = {s1, s2}
    SigningKeys = {k1, k2}
    FetchLimit = 1
    KeyCacheLifetime = 2
    PollAttempts = 2
    MaxNow = 2
    MaxPolls = 3
    MaxKeyChanges = 1
    MaxFailures = 1
    Nonces = {n1}
    FreshnessSkew = 1
    TicksPerSecond = 2
    Timeouts = {0, 1, 2}
    MaxWall = 8
    MaxDeliveries = 4
    Threads = {t1, t2}
    Users = {alice, bob}
    Device = gadget
    MaxSessions = 3
    MaxRequests = 2
CHECK_DEADLOCK FALSE
INVARIANT OutageLosesNoEvent
