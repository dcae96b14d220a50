------------------------------ MODULE MCMenu ------------------------------
(* Model-checking instance of Menu: two writers, two categories and one    *)
(* product, room for one more category and two more products.  The         *)
(* commands meet on the same rows and skus from both sides: renames        *)
(* against lookups by name, two categories made parents of each other, a   *)
(* sku set by hand against the batch, a file that updates one product and  *)
(* adds another whose name differs only in white space.                    *)
EXTENDS Menu, TLC

CONSTANTS w1, w2, c1, c2, c3, p1, p2, p3, A, B, C, s1, s2, s3

MCNorm == 1 :> 1 @@ 2 :> 1
MCLegacy == 1 :> s1 @@ 2 :> Null
MCSlugs == [k \in Prods |-> [n \in ProdNames |-> <<s1, s2, s3>>]]

Of(kind) == [NoCommand EXCEPT !.kind = kind]

MCCommands ==
    {NoCommand,
     [Of("create_product") EXCEPT !.name = 2, !.cat = A],
     [Of("create_category") EXCEPT !.name = C, !.cat = A],
     [Of("update_product") EXCEPT !.id = p1, !.sku = s2],
     [Of("update_product") EXCEPT !.id = p1, !.cat = B, !.name = 2, !.active = FALSE],
     [Of("update_product") EXCEPT !.id = p2, !.sku = s1, !.cat = A],
     [Of("update_category") EXCEPT !.id = c1, !.name = C],
     [Of("update_category") EXCEPT !.id = c1, !.cat = B],
     [Of("update_category") EXCEPT !.id = c2, !.cat = A],
     [Of("import") EXCEPT !.lines =
        <<[name |-> 1, cat |-> B, price |-> "given"], [name |-> 2, cat |-> A, price |-> "blank"]>>]}

MCStart ==
  [cat |-> c1 :> [name |-> A, parent |-> Null] @@ c2 :> [name |-> B, parent |-> Null] @@ c3 :> Null,
   prod |-> p1 :> [name |-> 1, cat |-> c1, priced |-> TRUE, active |-> TRUE, sku |-> Null]
         @@ p2 :> Null @@ p3 :> Null]

MenuFair == MenuSpec /\ MenuFairness
===========================================================================
