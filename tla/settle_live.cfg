SPECIFICATION FairSpec
CONSTANTS
    r1 = r1
    r2 = r2
    c1 = c1
    NoOne = NoOne
    Runs = {r1, r2}
    Continuations = {r2}
    Cleaners = {c1}
    Mortal = {r1, r2}
    Refused = {r1, c1}
    ParkAdapter = TRUE
    Forced = FALSE
    MaxAttempts = 1
    MaxMisjudged = 2
CHECK_DEADLOCK FALSE
PROPERTIES
    AbandonedTaskSettled
