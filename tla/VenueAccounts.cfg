SPECIFICATION Spec
CHECK_DEADLOCK FALSE
SYMMETRY Symmetry
CONSTANTS
    Users = {u1, u2}
    Wallets = {w1, w2}
    Challenges = {c1, c2}
    Associations = {a1, a2}
    Connects = {}
    SignIns = {q1}
    MaxVersion = 1
    None = None
INVARIANTS
    TypeOK
    OneOwner
PROPERTIES
    AssociationIsProven
