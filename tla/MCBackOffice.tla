--------------------------- MODULE MCBackOffice ---------------------------
(* Model-checking instance of the shop's tables around the orders:         *)
(* Checkout, Inventory, Delivery, Menu and Schedule, whose routes run side *)
(* by side in one process and write no row of each other.  A behaviour     *)
(* therefore exercises one of them, chosen at the start.                   *)
(*                                                                         *)
(* Inventory and Delivery: one sku and one task, since neither relates two *)
(* of them, and quantities around the thresholds 0 and 5.  Schedule: a day *)
(* of four ticks, the last one after 23:59:59, and one midnight.           *)
(* Checkout: a card order with a promo code and a cash pickup of the same  *)
(* customer, a fixed discount above the price of the goods.                *)
EXTENDS Checkout, Delivery, Inventory, MCMenu, Schedule

CONSTANTS d1, e1, e2, v1, k1, k2, h1

VARIABLE part    \* the tables this behaviour is about

MCRequest ==
    (k1 :> [method |-> "card", phone |-> h1, pickup |-> FALSE, promo |-> TRUE])
        @@ (k2 :> [method |-> "cash", phone |-> h1, pickup |-> TRUE, promo |-> FALSE])

MCPromotions ==
    {[effect |-> "PERCENT_DISCOUNT", discount |-> 50],
     [effect |-> "FIXED_AMOUNT", discount |-> 4],
     [effect |-> "FREE_DELIVERY", discount |-> 0]}

MCCounts == {-1, 0, 5}
MCLow == -3

Span(a, b) == [start |-> a, end |-> b]

MCSeed == [p \in Periods |-> IF p = "morning" THEN Span(0, 1) ELSE Span(1, 2)]

Say(period, action, scope, hours) ==
    [period |-> period, action |-> action, scope |-> scope, hours |-> hours]

MCScheduleCommands ==
    {Say("evening", "set_hours", "today", Span(2, 3)),
     Say("evening", "set_hours", "permanent", Span(0, 2)),
     Say("evening", "reset_to_default", "today", Span(0, 0)),
     Say("evening", "reset_to_default", "permanent", Span(0, 0)),
     Say("morning", "set_hours", "today", Span(1, 2))}

BackOfficeInit ==
    /\ part \in {"checkout", "inventory", "delivery", "menu", "schedule"}
    /\ CheckoutInit /\ Init /\ DeliveryInit /\ MenuInit /\ ScheduleInit

BackOfficeNext ==
    /\ \/ part = "checkout" /\ CheckoutNext /\ UNCHANGED <<vars, deliveryVars, menuVars, schedVars>>
       \/ part = "inventory" /\ Next /\ UNCHANGED <<checkoutVars, deliveryVars, menuVars, schedVars>>
       \/ part = "delivery" /\ DeliveryNext /\ UNCHANGED <<checkoutVars, vars, menuVars, schedVars>>
       \/ part = "menu" /\ MenuNext /\ UNCHANGED <<checkoutVars, vars, deliveryVars, schedVars>>
       \/ part = "schedule" /\ ScheduleNext /\ UNCHANGED <<checkoutVars, vars, deliveryVars, menuVars>>
    /\ UNCHANGED part

BackOfficeSpec ==
    /\ BackOfficeInit
    /\ [][BackOfficeNext]_<<part, checkoutVars, vars, deliveryVars, menuVars, schedVars>>
    /\ MenuFairness

(* The type invariants of Checkout and Delivery.                           *)
ShopTypeOK == CheckoutTypeOK /\ DeliveryTypeOK

===========================================================================
