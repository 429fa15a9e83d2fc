SPECIFICATION ASpec
CHECK_DEADLOCK FALSE
SYMMETRY Symmetry
CONSTANTS
    Ids = {a1, a2}
    m1 = m1
    Markets = {m1}
    Workflows <- MCWorkflows
    Keys = {k1}
    Callers = {c1, c2}
    Calls = 2
    Levels = {}
    MinChange = 0
    Interval = 0
    Cooldown = 0
    MaxTime = 0
    MaxRestarts = 0
    Requests = {r1}
    Tools <- MCTools
    None = None
INVARIANT DecidedOnce
