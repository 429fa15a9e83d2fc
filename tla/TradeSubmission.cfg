SPECIFICATION Spec
CHECK_DEADLOCK FALSE
SYMMETRY Symmetry
CONSTANTS
    t1 = t1
    t2 = t2
    o1 = o1
    o2 = o2
    s1 = s1
    s2 = s2
    m1 = m1
    Trades = {t1, t2}
    Orders = {o1, o2}
    Fills = {}
    Submitters = {s1, s2}
    Reconcilers = {r1}
    Cancellers = {c1}
    MarketOf <- OneMarket
    None = None
INVARIANTS
    NoBlindRepost
    TerminalIsTrue
    OrdersAreClaimed
    OrderIdIsOwn
PROPERTIES
    PlacementSpec
