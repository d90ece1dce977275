SPECIFICATION Spec
CONSTANTS
    p1 = p1
    p2 = p2
    Supervisors = {p1, p2}
    Mortal = {p1, p2}
    MaxStarts = 3
    MaxRuns = 4
    MaxAttempts = 2
    Threshold = 2
SYMMETRY Symmetry
CHECK_DEADLOCK FALSE
INVARIANTS
    TypeOK
    CircuitHolds
    RecoveredOnce
    NothingForgotten
