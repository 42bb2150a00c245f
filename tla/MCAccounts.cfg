SPECIFICATION Spec
CONSTANTS
    Requests = {r1, r2}
    Users = {u1}
    HrAdmins = {}
    Passwords = {p1, p2}
    FirstPassword = p1
    ResetTokens = {t1}
    NoReset = NoReset
    NoCall = NoCall
    NoRow = NoRow
    MaxWrites = 2
SYMMETRY Symmetry
INVARIANTS
    TypeOK
    DeniedIsRecorded
    StepsInOrder
PROPERTIES
    PasswordChangeGate
    CredentialsKept
    ResetKept
    GoneIsFinal
    ImplementsCredentials
