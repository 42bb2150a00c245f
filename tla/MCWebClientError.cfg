SPECIFICATION Spec
CONSTANTS
    Accounts = {a}
    Slots = {s1}
    None = none
SYMMETRY Symmetry
PROPERTIES
    ErrorStaysOnScreen
