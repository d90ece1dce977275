SPECIFICATION IntegrationSpec
CONSTANTS
    r1 = r1
    r2 = r2
    a1 = a1
    o1 = o1
    Runs <- MCRuns
    Agents <- MCAgents
    Others <- MCOthers
    Mortal <- MCMortal
    Policies <- MCPolicies
    NoOne = NoOne
    MaxLockAttempts = 2
    MaxRestarts = 1
INVARIANTS
    IntegrationTypeOK
    LockGoesWithWork
    CompletedIsDelivered
PROPERTIES
    VerifiedOnly
CONSTRAINT OneOutsider
CHECK_DEADLOCK FALSE
