SPECIFICATION Spec
CONSTANTS
    r1 = r1
    r2 = r2
    c1 = c1
    c2 = c2
    c3 = c3
    Runs = {r1, r2}
    Changes = {c1, c2, c3}
    Mortal = {r1, r2}
    Conflict = Conflict
    None = None
SYMMETRY Symmetry
CHECK_DEADLOCK FALSE
INVARIANTS
    NothingLost
    NothingHalfMade
PROPERTIES
    ClaimedAsChecked
    ReapedIsOver
