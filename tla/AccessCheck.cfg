SPECIFICATION MCFairSpec
CONSTANTS
    k1 = k1
    k2 = k2
    q1 = q1
    q2 = q2
    alice = alice
    bob = bob
    tenantA = tenantA
    Nobody = Nobody
    NoTenant = NoTenant
    Checkers <- MCCheckers
    Questions <- MCQuestions
    Principals <- MCPrincipals
    Tenants <- MCTenants
    RequestedTtl = 2
    MaxTtl = 1
    MaxEntries = 2
    MaxChecks = 3
    MaxChanges = 1
    MaxNow = 1
INVARIANTS
    MemoIsSound
    WrongDecisionsRaced
PROPERTIES
    EveryCheckReturns
