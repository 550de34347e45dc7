SPECIFICATION MCFairSpec
CONSTANTS
    Workers = {w1, w2, w3}
    Requests <- MCRequests
    MaxConcurrentRequests = 2
    CookieListRace = TRUE
    Watched = {w1}
    MaxRequests = 3
    Threads = {t1, t2}
    Kids = {k1, k2}
    NoKid = NoKid
    CacheTtl = 2
    Cooldown = 1
    MaxNow = 3
    MaxVerifications = 2
    MaxRotations = 1
    Guards = {g1, g2}
    Sids = {s1}
    RequestedInterval = 1
    MinPollInterval = 2
    MaxChecks = 3
INVARIANTS
    HandlesConserved
    SessionlessApart
    WritesSentOnce
    WithdrawnKeyBounded
    UnknownKidExcused
PROPERTIES
    CookieListsAreSafe
    EveryRequestReturns
    KnownRevocationHolds
    RevocationHeard
