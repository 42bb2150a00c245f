SPECIFICATION Spec
CONSTANTS
    Requests = {r1, r2}
    Tokens = {t1, t2}
    Profiles <- People
    u1 = u1
    u2 = u2
    e1 = e1
    e2 = e2
    e3 = e3
    CliSecret = CliSecret
    NoSetup = NoSetup
    NoCall = NoCall
    TTL = 1
    MaxTime = 2
INVARIANTS
    CreatedIsAnswered
