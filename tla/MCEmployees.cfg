SPECIFICATION Spec
CONSTANTS
    Requests = {r1, r2}
    Employees = {e1, e2}
    Statuses = {s1, s2}
    Positions = {p1, p2}
    BadPosition = badPosition
    Values = {v1, v2}
    Keep = keep
    NoEmployee = noEmployee
    NoCall = noCall
    MaxWrites = 3
SYMMETRY Symmetry
INVARIANTS
    TypeOK
    LastRowIsState
    OldValueWasReal
    DetailExplained
PROPERTIES
    ChangesAreAsked
    ImplementsFile
