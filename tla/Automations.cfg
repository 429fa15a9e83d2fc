SPECIFICATION MCLiveSpec
CHECK_DEADLOCK FALSE
CONSTANTS
    a1 = a1
    a2 = a2
    Ids = {a1, a2}
    m1 = m1
    Markets = {m1}
    Workflows <- MCWorkflows
    Keys = {}
    Callers = {c1}
    Calls = 3
    Levels = {1, 2}
    MinChange = 100
    Interval = 1
    Cooldown = 1
    MaxTime = 1
    MaxRestarts = 1
    None = None
INVARIANTS
    TypeOK
    BaselineIsOwn
PROPERTIES
    AlertsRespectCooldown
    LifeSpec
    ActiveIsEvaluated
