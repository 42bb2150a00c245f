SPECIFICATION FairSpec
CONSTANTS
    Requests = {r1, r2}
    Departments = {d1, d2}
    Names = {n1, n2}
    Positions = {p1, p2}
    Employees = {e1}
    None = none
INVARIANTS
    TypeOK
    NamesAreFound
    HierarchyHasTop
    NamesAreUnique
    EveryoneIsCounted
PROPERTIES
    EveryCallAnswered
