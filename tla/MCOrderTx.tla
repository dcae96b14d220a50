----------------------------- MODULE MCOrderTx -----------------------------
(* Model-checking instance of OrderTx.                                     *)
EXTENDS OrderTx, TLC

CONSTANTS o1, o2, s1, s2, s3, t1, t2, t3, m1, w1, w2, w3

(* Two orders that list the same two skus in opposite orders, so their     *)
(* reservations can wait for each other; s3 has no inventory row.          *)
MCItems ==
    (o1 :> << [sku |-> s1, qty |-> 1], [sku |-> s2, qty |-> 2] >>) @@
    (o2 :> << [sku |-> s2, qty |-> 1], [sku |-> s3, qty |-> 1], [sku |-> s1, qty |-> 1] >>)

(* One order without any reservable item: nothing serialises two           *)
(* START_COOKING requests before they insert their tickets.                *)
MCUntracked == o1 :> << [sku |-> s3, qty |-> 1] >>

MCMode == (o1 :> "pickup") @@ (o2 :> "delivery")
MCMode1 == o1 :> "pickup"
MCStock == (s1 :> 1) @@ (s2 :> 1)
MCStock1 == s1 :> 1

Symmetry == Permutations(Workers) \cup Permutations(ProgramTickets)

===========================================================================
