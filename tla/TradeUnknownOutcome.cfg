SPECIFICATION LiveSpec
CHECK_DEADLOCK FALSE
CONSTANTS
    t1 = t1
    t2 = t2
    o1 = o1
    o2 = o2
    s1 = s1
    s2 = s2
    m1 = m1
    Trades = {t1}
    Orders = {o1}
    Fills = {f1}
    Submitters = {s1}
    Reconcilers = {r1}
    Cancellers = {}
    MarketOf <- OneMarket
    None = None
PROPERTIES
    StreamResolvesUnknown
