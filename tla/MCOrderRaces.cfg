CONSTANTS
    o1 = o1  o2 = o2
    s1 = s1  s2 = s2  s3 = s3
    t1 = t1  t2 = t2  t3 = t3  m1 = m1
    w1 = w1  w2 = w2  w3 = w3
    NoOrder = NoOrder
    NoTicket = NoTicket
    Orders = {o1}
    Skus = {s1, s2, s3}
    Tracked = {s1}
    MaxItems = 1
    Items <- MCUntracked
    Mode <- MCMode1
    InitStock <- MCStock1
    ProgramTickets = {t1, t2}
    ManualTickets = {m1}
    Workers = {w1, w2}
    MayCrash = FALSE
SPECIFICATION FairSpec
INVARIANTS
    TypeOK
    RowLockStable
PROPERTIES
    OrderStepsLegal
    TicketStepsLegal
    EveryRequestEnds
    HandOffAdvancesOrder
CHECK_DEADLOCK FALSE
