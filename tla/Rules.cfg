SPECIFICATION RulesSpec
CHECK_DEADLOCK FALSE
CONSTANTS
    w1 = w1
    w2 = w2
    u1 = u1
    u2 = u2
    k1 = k1
    k2 = k2
    l1 = l1
    l2 = l2
    n2 = n2
    n3 = n3
    e2 = e2
    Missing = Missing
    StepIds = {1, 2, 3, 4}
    Drafts <- MCDrafts
    Payloads <- MCPayloads
    Submissions <- MCSubmissions
    Wallets = {w1, w2}
    Tokens = {u1, u2}
    Markets = {k1, k2}
    Labels = {l1, l2}
    Scale = 4
    Fine = 2
    MaxU128 = 31
    MaxRequest = 15
    Absent = Absent
    Addresses = {d1, d2}
    Routes = {"public", "auth"}
    Limit <- MCLimit
    Window = 2
    Crowd = 1
    MaxClock = 4
    RowIds = {1, 2, 3}
    Topics = {p1, p2, p3}
    PageSizes = {1, 2}
    MaxTime = 1
    NoRow = 0
    Alerts = {n1, n2, n3}
    Own = {n1, n2}
    Clients = {v1}
    Editors = {e1, e2}
    ListLimit = 1
    Stamps = {0, 1}
    Backlog = 1
    Room = 1
INVARIANTS
    AcceptedRuns
    OrderIsSound
    CyclesAreFound
    EconomicsKept
    OneWalletOneOutcome
    LimitIsKept
    PagesAreExact
    NothingMissed
    OnlyListedGo
PROPERTIES
    OrderingEnds
