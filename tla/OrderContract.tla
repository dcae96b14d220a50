--------------------------- MODULE OrderContract ---------------------------
(***************************************************************************)
(* What the order lifecycle promises, request by request atomic: an order  *)
(* moves along ORDER_TRANSITIONS, and the step into COOKING issues one     *)
(* kitchen ticket and records one sale of each reservable item.            *)
(***************************************************************************)
EXTENDS Lifecycles, Naturals

CONSTANTS Orders, TicketIds, ItemNo, Reserved(_)

VARIABLES state, issued, sold

cvars == <<state, issued, sold>>

Start ==
    /\ state = [o \in Orders |-> "ABSENT"]
    /\ issued = [o \in Orders |-> {}]
    /\ sold = [o \in Orders |-> [i \in ItemNo |-> 0]]

(* A new order.                                                            *)
Place(o) ==
    /\ state[o] = "ABSENT"
    /\ state' = [state EXCEPT ![o] = "DRAFT"]
    /\ UNCHANGED <<issued, sold>>

(* Any event but START_COOKING only moves the order.                       *)
Move(o, edge) ==
    /\ edge[2] # "START_COOKING"
    /\ state[o] = edge[1]
    /\ state' = [state EXCEPT ![o] = edge[3]]
    /\ UNCHANGED <<issued, sold>>

(* START_COOKING.                                                          *)
Cook(o, t) ==
    /\ state[o] \in {"PAID", "CONFIRMED"}
    /\ \A p \in Orders : t \notin issued[p]
    /\ state' = [state EXCEPT ![o] = "COOKING"]
    /\ issued' = [issued EXCEPT ![o] = @ \cup {t}]
    /\ sold' = [sold EXCEPT ![o] =
                  [i \in ItemNo |-> IF i \in Reserved(o) THEN @[i] + 1 ELSE @[i]]]

Advance ==
    \/ \E o \in Orders : Place(o)
    \/ \E o \in Orders, edge \in ORDER_TRANSITIONS : Move(o, edge)
    \/ \E o \in Orders, t \in TicketIds : Cook(o, t)

Contract == Start /\ [][Advance]_cvars

===========================================================================
