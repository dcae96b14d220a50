CONSTANTS
    d1 = d1  e1 = e1  e2 = e2  v1 = v1
    w1 = w1  w2 = w2  c1 = c1  c2 = c2  c3 = c3
    p1 = p1  p2 = p2  p3 = p3  A = A  B = B  C = C
    s1 = s1  s2 = s2  s3 = s3
    Null = Null
    k1 = k1  k2 = k2  h1 = h1
    NoKey = NoKey
    NoOrder = NoOrder
    Keys = {k1, k2}
    Request <- MCRequest
    Phones = {h1}
    Goods = {3}
    Promotions <- MCPromotions
    Fees = {1, 2}
    Orders = {1, 2, 3}
    Callers = {w1, w2}
    NoWindow = NoWindow
    NoDate = NoDate
    Permanent = Permanent
    Tasks = {d1}
    Clients = {w1, w2}
    Skus = {s1}
    Workers = {w1, w2}
    Amounts = {1, 3}
    Counts <- MCCounts
    Low <- MCLow
    High = 6
    Writers = {w1, w2}
    Cats = {c1, c2, c3}
    Prods = {p1, p2, p3}
    CatNames = {A, B, C}
    ProdNames = {1, 2}
    Norm <- MCNorm
    SkuCodes = {s1, s2, s3}
    Legacy <- MCLegacy
    Slugs <- MCSlugs
    Commands <- MCCommands
    MenuStart <- MCStart
    MaxSent = 3
    Editors = {e1, e2}
    Visitors = {v1}
    LastTick = 3
    Eod = 2
    LastDay = 1
    MaxGiven = 2
    Seed <- MCSeed
    ScheduleCommands <- MCScheduleCommands
SPECIFICATION BackOfficeSpec
INVARIANTS
    ShopTypeOK
    OneOrderPerKey
    
    ThanksPageAddsUp
    InventoryTypeOK
    LedgerMatchesQuantity
    NoStageSkipped
    MenuTypeOK
    SkusUnique
    CategoryStands
    ScheduleTypeOK
    CoveredDayIsOpen
PROPERTIES
    OtherFieldsKept
    MenuWriteEnds
    ImplementsBoard
    CommandTakesEffect
