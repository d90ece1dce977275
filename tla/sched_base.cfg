SPECIFICATION Spec
CONSTANTS
    s1 = s1
    s2 = s2
    a = a
    b = b
    c = c
    NoOne = NoOne
    Supervisors = {s1, s2}
    Mortal = {s1}
    Tasks = {a, b, c}
    Slices <- MCSlices
    Domain <- MCDomain
    Endings <- MCEndings
    Wider <- MCWider
    Jobs <- MCJobs
    MaxTasks <- MCMaxTasks
    MaxSlices <- MCMaxSlices
    MaxRestarts <- MCMaxRestarts
    ContinueOnFailure = FALSE
    Activates = TRUE
CHECK_DEADLOCK FALSE
INVARIANTS
    TypeOK
    DomainsDisjoint
    LimitsKept
    NeverInItsOwnWay
