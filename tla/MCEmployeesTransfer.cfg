SPECIFICATION Spec
CONSTANTS
    Requests = {r1, r2}
    Employees = {e1}
    Statuses = {s1}
    Positions = {p1, p2, p3}
    BadPosition = badPosition
    Values = {v1}
    Keep = keep
    NoEmployee = noEmployee
    NoCall = noCall
    MaxWrites = 3
PROPERTIES
    TransferIsRecorded
