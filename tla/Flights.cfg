SPECIFICATION MCFairSpec
CONSTANTS
    c1 = c1
    c2 = c2
    c3 = c3
    a1 = a1
    a2 = a2
    a3 = a3
    Callers <- MCCallers
    MaxCalls = 3
    Askers <- MCAskers
    Tokens = {k1}
    Scopes = {read, write}
    MaxAsks = 4
    Lifetimes <- MCLifetimes
    ServerIntervals <- MCServerIntervals
    Hints = {0, 2}
    MaxAttempts = 3
    MaxJitter = 1
    MaxLag = 1
CHECK_DEADLOCK FALSE
INVARIANTS
    OneRefreshAtATime
    NoSelfInflictedReplay
    EmptySlotMeansRotated
    OnlyLateCallersPresentSpent
    NoRequestPastDeadline
    PollsSpaced
    
PROPERTIES
    ImplementsSingleFlight
    EveryCallReturns
    EveryGrantCallEnds
