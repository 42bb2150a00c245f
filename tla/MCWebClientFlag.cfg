SPECIFICATION Spec
CONSTANTS
    Accounts = {a, b}
    Slots = {s1, s2}
    None = none
SYMMETRY Symmetry
INVARIANTS
    FlagIsHonest
