CONSTANTS
    k1 = k1  k2 = k2  c1 = c1  f1 = f1
    w1 = w1  w2 = w2  w3 = w3
    Members = {k1, k2, c1, f1}
    Recipients <- MCRecipients
    Workers = {w1, w2}
SPECIFICATION FairSpec
INVARIANTS
    CardTypeOK
    FirstCookCurrent
PROPERTIES
    KitchenIsServed
CHECK_DEADLOCK FALSE
