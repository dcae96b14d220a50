CONSTANTS
    o1 = o1  o2 = o2
    p1 = p1  p2 = p2
    w1 = w1  w2 = w2
    NoOrder = NoOrder
    NoPay = NoPay
    Orders = {o1, o2}
    Pays = {p1, p2}
    Bodies <- AnyBody
    Workers = {w1, w2}
    ApiEvents = {"CANCEL", "START_COOKING"}
    AckStops = FALSE
    EarlyCancel = TRUE
    MayCrash = TRUE
SPECIFICATION Spec
INVARIANTS
    PayTypeOK
    OutcomeMatchesProvider
    PaidOnlyIfCharged
    CaptureMovesOrder
PROPERTIES
    ImplementsPayments
SYMMETRY Symmetry
CHECK_DEADLOCK FALSE
