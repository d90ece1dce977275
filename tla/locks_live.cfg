SPECIFICATION FairSpec
CONSTANTS
    Runs = {r1}
    RuntimeOwned = {r1}
    Helpers = {h1}
    Cleaners = {c1}
    Mortal = {r1, h1}
    NoOne = NoOne
    MaxToken = 1
    MaxScope = 1
    WriteErrors = FALSE
    TornTokenWrites = FALSE
CHECK_DEADLOCK FALSE
PROPERTIES
    OperationsEnd
    AbandonedLockRecovered
