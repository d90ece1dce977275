SPECIFICATION FairSpec
CONSTANTS
    w1 = w1
    f1 = f1
    NoHead = NoHead
    Works = {w1}
    NGates = 1
    Findings = {f1}
    MaxRounds = 2
    MaxReanchors = 1
    MaxInitial = 1
    MaxClosure = 1
    MaxMain = 2
    MaxStrays = 1
CHECK_DEADLOCK FALSE
INVARIANTS
    MergedWithoutFindings
    NeverRefused
PROPERTIES
    ReviewedOnly
    RunEnds
