SPECIFICATION Spec
CHECK_DEADLOCK FALSE
CONSTANTS
    Users = {u1}
    Wallets = {w1}
    Challenges = {c1}
    Associations = {a1}
    Connects = {}
    SignIns = {}
    MaxVersion = 2
    None = None
PROPERTIES
    ConnectingWalletResolvesMissing
