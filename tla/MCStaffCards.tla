--------------------------- MODULE MCStaffCards ---------------------------
(* Model-checking instance of StaffCards: two cooks, a courier and a staff *)
(* member with full authority; nobody has the admin role.                  *)
EXTENDS StaffCards, TLC

CONSTANTS k1, k2, c1, f1, w1, w2, w3

MCRecipients ==
    [r \in Role |-> CASE r = "kitchen" -> <<k1, k2>>
                      [] r = "courier" -> <<c1>>
                      [] r = "admin"   -> <<>>
                      [] r = "staff"   -> <<f1>>]

===========================================================================
