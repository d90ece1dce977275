SPECIFICATION Spec
CONSTANTS
    r1 = r1
    r2 = r2
    c1 = c1
    NoOne = NoOne
    Runs = {r1, r2}
    Continuations = {}
    Cleaners = {c1}
    Mortal = {r1, c1}
    Refused = {r1}
    ParkAdapter = TRUE
    Forced = TRUE
    MaxAttempts = 2
    MaxMisjudged = 1
CHECK_DEADLOCK FALSE
INVARIANTS
    LaunchedKeepsLock
    CompletedIsCommitted
    ReleasedIsSettled
PROPERTIES
    RecoveryNeverStrands
