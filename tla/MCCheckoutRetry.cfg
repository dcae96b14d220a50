CONSTANTS
    k1 = k1  k2 = k2  h1 = h1
    NoKey = NoKey
    NoOrder = NoOrder
    Keys = {k1, k2}
    Request <- MCRequest
    Phones = {h1}
    Goods = {3}
    Promotions <- MCPromotions
    Fees = {1}
    Orders = {1, 2, 3}
    Callers = {11, 12}
SPECIFICATION CheckoutSpec
PROPERTIES
    RefusedOnlyInFlight
