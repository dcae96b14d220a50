---------------------------- MODULE MCPayments ----------------------------
(* Model-checking instances of Payments.  The safety run takes             *)
(* notifications that name any trace with any payment; the liveness run    *)
(* only the provider's own.                                                *)
EXTENDS Payments, TLC

CONSTANTS o1, o2, p1, p2, w1, w2

AnyBody == Pays \X Pays

OwnBodies == {<<p, p>> : p \in Pays}

Symmetry == Permutations(Workers) \cup Permutations(Pays) \cup Permutations(Orders)

===========================================================================
