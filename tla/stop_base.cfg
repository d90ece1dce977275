SPECIFICATION Spec
CONSTANTS
    s1 = s1
    s2 = s2
    k1 = k1
    k2 = k2
    o1 = o1
    NoOne = NoOne
    Supervisors = {s1, s2}
    Children = {k1}
    Stoppers = {o1}
    Mortal = {s1, k1, o1}
    Reusable <- ReusedPids
CHECK_DEADLOCK FALSE
INVARIANTS
    TypeOK
    OneSupervisor
    StopDrains
    NotLeftFrozen
    OnlyOwnSignalled
    StoppedRunsSettled
