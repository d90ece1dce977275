SPECIFICATION Spec
CONSTANTS
    run1 = run1
    run2 = run2
    review1 = review1
    remedy1 = remedy1
    sup1 = sup1
    sup2 = sup2
    total = total
    hourly = hourly
    Launches = {run1, run2, review1}
    Implementations = {run1, run2}
    Remediations = {}
    Owners = {sup1, sup2}
    Owner <- MCOwner
    Verifiable = {sup1}
    Mortal = {sup1}
    Recoverers = {c1}
    Limits = {total, hourly}
    Cap <- MCCap
    Window <- MCWindow
    Covered <- MCCovered
    Declared <- MCDeclared
    FailSafe <- MCFailSafe
    Usages = {1}
    Grace = 1
    MaxTime = 2
    MaxGeneration = 2
    TornWrites = FALSE
    FailingCompaction = TRUE
CHECK_DEADLOCK FALSE
INVARIANTS
    CapRespected
    LaunchBacked
    ChargedOnce
