---------------------------- MODULE MCCheckout ----------------------------
(* Model-checking instance of Checkout: a card checkout with a promo code  *)
(* and a cash pickup by the same customer.                                 *)
EXTENDS Checkout, TLC

CONSTANTS k1, k2, h1

Send1 == [method |-> "card", phone |-> h1, pickup |-> FALSE, promo |-> TRUE]
Send2 == [method |-> "cash", phone |-> h1, pickup |-> TRUE, promo |-> FALSE]

MCRequest == (k1 :> Send1) @@ (k2 :> Send2)

MCPromotions ==
    {[effect |-> "PERCENT_DISCOUNT", discount |-> 50],
     [effect |-> "FIXED_AMOUNT", discount |-> 4],
     [effect |-> "FREE_DELIVERY", discount |-> 0]}

===========================================================================
