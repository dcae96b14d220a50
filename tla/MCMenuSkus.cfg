CONSTANTS
    w1 = w1  w2 = w2  c1 = c1  c2 = c2  c3 = c3
    p1 = p1  p2 = p2  p3 = p3  A = A  B = B  C = C  s3 = s3  s1 = s1  s2 = s2
    Null = Null
    Writers = {w1, w2}
    Cats = {c1, c2, c3}
    Prods = {p1, p2, p3}
    CatNames = {A, B, C}
    ProdNames = {1, 2}
    Norm <- MCNorm
    SkuCodes = {s1, s2, s3}
    Legacy <- MCLegacy
    Slugs <- MCSlugs
    Commands <- MCCommands
    MenuStart <- MCStart
    MaxSent = 3
SPECIFICATION MenuSpec
PROPERTIES
    SkusOnlyFillGaps
CHECK_DEADLOCK FALSE
