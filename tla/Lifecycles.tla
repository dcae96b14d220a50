---------------------------- MODULE Lifecycles ----------------------------
(***************************************************************************)
(* The transition graphs of the order, the kitchen ticket and the delivery *)
(* task, as the source declares them: a state maps each event it accepts   *)
(* to the state the event leads to.  A state of a graph is a row's state   *)
(* column; ABSENT (not a state of the source) is a row not yet inserted.   *)
(***************************************************************************)

OrderState ==
    {"DRAFT", "CONFIRMED", "PAYMENT_PENDING", "PAID", "COOKING", "PACKING",
     "COURIER_ASSIGNED", "DELIVERING", "DELIVERED", "CLOSED", "CANCELLED"}

OrderEvent ==
    {"CONFIRM", "REQUEST_PAYMENT", "PAYMENT_CONFIRMED", "PAYMENT_FAILED",
     "START_COOKING", "START_PACKING", "ASSIGN_COURIER", "PICKUP", "DELIVER",
     "CLOSE", "CANCEL"}

(* ORDER_TRANSITIONS as a set of edges <<from, event, to>>.                *)
ORDER_TRANSITIONS ==
    { <<"DRAFT", "CONFIRM", "CONFIRMED">>,
      <<"DRAFT", "CANCEL", "CANCELLED">>,
      <<"CONFIRMED", "REQUEST_PAYMENT", "PAYMENT_PENDING">>,
      <<"CONFIRMED", "START_COOKING", "COOKING">>,
      <<"CONFIRMED", "CANCEL", "CANCELLED">>,
      <<"PAYMENT_PENDING", "PAYMENT_CONFIRMED", "PAID">>,
      <<"PAYMENT_PENDING", "PAYMENT_FAILED", "CONFIRMED">>,
      <<"PAYMENT_PENDING", "CANCEL", "CANCELLED">>,
      <<"PAID", "START_COOKING", "COOKING">>,
      <<"PAID", "CANCEL", "CANCELLED">>,
      <<"COOKING", "START_PACKING", "PACKING">>,
      <<"PACKING", "ASSIGN_COURIER", "COURIER_ASSIGNED">>,
      <<"PACKING", "CLOSE", "CLOSED">>,
      <<"COURIER_ASSIGNED", "PICKUP", "DELIVERING">>,
      <<"DELIVERING", "DELIVER", "DELIVERED">>,
      <<"DELIVERED", "CLOSE", "CLOSED">> }

(* The states an order passes through once its kitchen ticket was issued.  *)
CookedStates ==
    {"COOKING", "PACKING", "COURIER_ASSIGNED", "DELIVERING", "DELIVERED",
     "CLOSED"}

KitchenState == {"NEW", "QUEUED", "PREPARING", "READY", "HANDED_OFF"}

KitchenEvent == {"QUEUE", "START_PREP", "MARK_READY", "HAND_OFF"}

KITCHEN_TRANSITIONS ==
    { <<"NEW", "QUEUE", "QUEUED">>,
      <<"QUEUED", "START_PREP", "PREPARING">>,
      <<"PREPARING", "MARK_READY", "READY">>,
      <<"READY", "HAND_OFF", "HANDED_OFF">> }

DeliveryState ==
    {"UNASSIGNED", "ASSIGNED", "PICKED_UP", "ON_ROUTE", "DELIVERED", "FAILED"}

DeliveryEvent == {"ASSIGN", "PICKUP", "START_ROUTE", "COMPLETE", "FAIL"}

DELIVERY_TRANSITIONS ==
    { <<"UNASSIGNED", "ASSIGN", "ASSIGNED">>,
      <<"ASSIGNED", "PICKUP", "PICKED_UP">>,
      <<"ASSIGNED", "FAIL", "FAILED">>,
      <<"PICKED_UP", "START_ROUTE", "ON_ROUTE">>,
      <<"ON_ROUTE", "COMPLETE", "DELIVERED">>,
      <<"ON_ROUTE", "FAIL", "FAILED">> }

(* The events a graph accepts in a state, and where one of them leads.     *)
Allowed(graph, s) == {edge[2] : edge \in {g \in graph : g[1] = s}}

(* Some event of the graph leads from s to t.                              *)
IsEdge(graph, s, t) == \E edge \in graph : edge[1] = s /\ edge[3] = t

===========================================================================
