SPECIFICATION FairSpec
CONSTANTS
    Departments = {d1}
    Positions = {p1, p2}
    Employees = {e1, e2}
    Slots = {s1, s2}
    None = none
INVARIANTS
    TypeOK
    FormCreatesOnce
    SavesWhatIsShown
PROPERTIES
    RefreshKeeps
    ButtonsComeBack
