SPECIFICATION Spec
CONSTANTS
    Runs = {r1, r2}
    RuntimeOwned = {}
    Helpers = {h1}
    Cleaners = {c1}
    Mortal = {r1, r2}
    NoOne = NoOne
    MaxToken = 2
    MaxScope = 1
    WriteErrors = TRUE
    TornTokenWrites = FALSE
CHECK_DEADLOCK FALSE
SYMMETRY Symmetry
INVARIANTS
    LockHeldAtWork
    FencingTokensUnique
PROPERTIES
    PublishedIsKept
