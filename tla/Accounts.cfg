SPECIFICATION Spec
CHECK_DEADLOCK FALSE
SYMMETRY Symmetry
CONSTANTS
    u1 = u1
    u2 = u2
    Users = {u1, u2}
    Wallets = {u2}
    Emails = {e1, e2}
    Tokens = {k1, k2, k3}
    Sessions = {s1}
    Callers = {c1, c2}
    MaxEpoch = 2
    None = None
INVARIANTS
    TypeOK
    VerifiedIsProven
    WorksOnce
    SessionsAreCurrent
