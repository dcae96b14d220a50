CONSTANTS
    o1 = o1  o2 = o2
    s1 = s1  s2 = s2  s3 = s3
    t1 = t1  t2 = t2  t3 = t3  m1 = m1
    w1 = w1  w2 = w2  w3 = w3
    NoOrder = NoOrder
    NoTicket = NoTicket
    Orders = {o1, o2}
    Skus = {s1, s2, s3}
    Tracked = {s1, s2}
    MaxItems = 3
    Items <- MCItems
    Mode <- MCMode
    InitStock <- MCStock
    ProgramTickets = {t1, t2}
    ManualTickets = {}
    Workers = {w1, w2}
    MayCrash = TRUE
SPECIFICATION Spec
INVARIANTS
    CookedExactlyOnce
    StockMatchesLedger
PROPERTIES
    ImplementsContract
SYMMETRY Symmetry
CHECK_DEADLOCK FALSE
