SPECIFICATION Spec
CONSTANTS
    Accounts = {a}
    Slots = {s1, s2}
    None = none
SYMMETRY Symmetry
INVARIANTS
    TypeOK
    FlagIsHonest
PROPERTIES
    ScreensAreAllowed
