SPECIFICATION LiveSpec
CHECK_DEADLOCK FALSE
CONSTANTS
    Users = {u1}
    Wallets = {w1, w2}
    Challenges = {c1, c2}
    Associations = {a1}
    Connects = {k1}
    SignIns = {}
    MaxVersion = 3
    None = None
INVARIANTS
    WorkerIsEligible
    VerdictIsCurrent
PROPERTIES
    EligibleIsServed
    MismatchIsNoticed
