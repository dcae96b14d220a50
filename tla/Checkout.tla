----------------------------- MODULE Checkout -----------------------------
(***************************************************************************)
(* POST /api/orders: a checkout claims the client's idempotency key in its *)
(* own transaction, finds or creates the customer, works through a series  *)
(* of commits (order, transitions, payment) and finally writes the order   *)
(* id into the key's payload.  A repeated call is answered from the        *)
(* payload.  Any step may fail, and the process may restart between any    *)
(* two.  Prices, promotions and zone fees are edited at any time, so each  *)
(* call reads any of their values.                                         *)
(***************************************************************************)
EXTENDS Lifecycles, Integers, FiniteSets

CONSTANTS
    Keys,        \* idempotency keys of the clients
    NoKey,
    Request,     \* Request[k]: what the client sends with k
    Phones,      \* normalised phone numbers
    Goods,       \* what the items of a request may cost together, in roubles
    Promotions,  \* the promotions that ever are ACTIVE under the code sent
    Fees,        \* delivery_fee_rub, as edited by the zone agent
    Orders,      \* order ids (bound)
    NoOrder,
    Callers      \* concurrent calls (bound)

CheckoutRequest ==
    [method : {"card", "cash"}, phone : Phones, pickup : BOOLEAN, promo : BOOLEAN]

(* The bounds of a discount are those the promotion agent enforces.        *)
Promotion ==
    [effect : {"PERCENT_DISCOUNT"}, discount : 0..100]
        \cup [effect : {"FIXED_AMOUNT"}, discount : Nat \ {0}]
        \cup [effect : {"FREE_DELIVERY"}, discount : {0}]

ASSUME CheckoutAssumption ==
    /\ NoKey \notin Keys
    /\ NoOrder \notin Orders
    /\ Request \in [Keys -> CheckoutRequest]
    /\ Promotions \subseteq Promotion
    /\ Goods \subseteq Nat /\ Fees \subseteq Nat

VARIABLES
    claimed,   \* keys in idempotency_keys
    payload,   \* payload[k]: the order id stored with the key
    order,     \* orders.state, committed
    keyOf,     \* the key whose call created the order
    bill,      \* bill[o]: items, discount_rub and total_rub of the row, and the fee charged
    customers, \* customers.phone, unique
    linked,    \* orders create_payment returned a link for
    replies,   \* <<k, o>>: a call with key k was answered 200 with order o
    refused,   \* keys some call was refused with 409
    call       \* the calls in flight

sales == <<order, keyOf, bill, linked>>

checkoutVars == <<claimed, payload, sales, customers, replies, refused, call>>

NoCall == [pc |-> "idle", k |-> NoKey, o |-> NoOrder]

NoBill == [goods |-> 0, discount |-> 0, fee |-> 0, total |-> 0]

CheckoutTypeOK ==
    /\ claimed \subseteq Keys
    /\ payload \in [Keys -> Orders \cup {NoOrder}]
    /\ order \in [Orders -> OrderState \cup {"ABSENT"}]
    /\ keyOf \in [Orders -> Keys \cup {NoKey}]
    /\ bill \in [Orders -> [goods : Nat, discount : Nat, fee : Nat, total : Nat]]
    /\ customers \subseteq Phones
    /\ linked \subseteq Orders
    /\ replies \subseteq Keys \X Orders
    /\ refused \subseteq Keys
    /\ call \in [Callers -> [pc : {"idle", "customer", "insert", "resolve", "confirm", "request", "pay", "cook", "save"},
                             k : Keys \cup {NoKey}, o : Orders \cup {NoOrder}]]

CheckoutInit ==
    /\ claimed = {}
    /\ payload = [k \in Keys |-> NoOrder]
    /\ order = [o \in Orders |-> "ABSENT"]
    /\ keyOf = [o \in Orders |-> NoKey]
    /\ bill = [o \in Orders |-> NoBill]
    /\ customers = {}
    /\ linked = {}
    /\ replies = {}
    /\ refused = {}
    /\ call = [w \in Callers |-> NoCall]

Goto(w, pc) == call' = [call EXCEPT ![w].pc = pc]

End(w) == call' = [call EXCEPT ![w] = NoCall]

(* An event of the order's own checkout, sent by transition_order.  It     *)
(* moves the order if its state allows the event and nothing in the        *)
(* program fails.                                                          *)
SendEvent(o, ev) ==
    \/ UNCHANGED order
    \/ \E edge \in ORDER_TRANSITIONS :
          /\ edge[1] = order[o] /\ edge[2] = ev
          /\ order' = [order EXCEPT ![o] = edge[3]]

---------------------------------------------------------------------------
(* check_and_record inserts the key: this call does the work.              *)
Claim(w, k) ==
    /\ call[w].pc = "idle" /\ k \notin claimed
    /\ claimed' = claimed \cup {k}
    /\ call' = [call EXCEPT ![w] = [NoCall EXCEPT !.pc = "customer", !.k = k]]
    /\ UNCHANGED <<payload, sales, customers, replies, refused>>

(* A slip: a repeated call without a stored order does the work again.     *)
EagerDuplicate(w, k) ==
    /\ call[w].pc = "idle" /\ k \in claimed
    /\ IF payload[k] # NoOrder
       THEN replies' = replies \cup {<<k, payload[k]>>} /\ UNCHANGED call
       ELSE /\ call' = [call EXCEPT ![w] = [NoCall EXCEPT !.pc = "customer", !.k = k]]
            /\ UNCHANGED replies
    /\ UNCHANGED <<claimed, payload, sales, customers, refused>>

(* The key exists: the stored order is the answer, else the call is        *)
(* refused.                                                                *)
Duplicate(w, k) ==
    /\ call[w].pc = "idle" /\ k \in claimed
    /\ IF payload[k] # NoOrder
       THEN replies' = replies \cup {<<k, payload[k]>>} /\ UNCHANGED refused
       ELSE refused' = refused \cup {k} /\ UNCHANGED replies
    /\ UNCHANGED <<claimed, payload, sales, customers, call>>

(* find_or_create_by_phone looks the phone up.                             *)
FindCustomer(w) ==
    /\ call[w].pc = "customer"
    /\ Goto(w, IF Request[call[w].k].phone \in customers THEN "resolve" ELSE "insert")
    /\ UNCHANGED <<claimed, payload, sales, customers, replies, refused>>

(* The customer is inserted; the unique index refuses a phone that another *)
(* call inserted meanwhile, and nothing catches the error.                 *)
CreateCustomer(w) ==
    /\ call[w].pc = "insert"
    /\ customers' = customers \cup {Request[call[w].k].phone}
    /\ IF Request[call[w].k].phone \in customers THEN End(w) ELSE Goto(w, "resolve")
    /\ UNCHANGED <<claimed, payload, sales, replies, refused>>

(* A phone that is no phone, a product that is gone or has no price, a     *)
(* zone that does not exist: the call fails.                               *)
ResolveFails(w) ==
    /\ call[w].pc \in {"customer", "resolve"}
    /\ End(w)
    /\ UNCHANGED <<claimed, payload, sales, customers, replies, refused>>

NoEffect == [discount |-> 0, free |-> FALSE]

(* A slip: a fixed amount is taken as it is.                               *)
uncapped_promo_effect(rows, goods) ==
    IF Cardinality(rows) # 1 THEN NoEffect
    ELSE LET p == CHOOSE q \in rows : TRUE
         IN  [discount |-> IF p.effect = "PERCENT_DISCOUNT"
                           THEN (goods * p.discount) \div 100
                           ELSE p.discount,
              free |-> p.effect = "FREE_DELIVERY"]

(* What the ACTIVE promotions found under the code take off the goods.     *)
resolve_promo_effect(rows, goods) ==
    IF Cardinality(rows) # 1 THEN NoEffect
    ELSE LET p == CHOOSE q \in rows : TRUE
         IN  [discount |-> CASE p.effect = "PERCENT_DISCOUNT" -> (goods * p.discount) \div 100
                             [] p.effect = "FIXED_AMOUNT" -> IF p.discount < goods THEN p.discount ELSE goods
                             [] OTHER -> 0,
              free |-> p.effect = "FREE_DELIVERY"]

(* The fee that is part of the total.                                      *)
ChargedFee(pickup, effect, fee) == IF pickup \/ effect.free THEN 0 ELSE fee

(* The total, computed on the server.                                      *)
compute_checkout_total(goods, pickup, effect, fee) ==
    (IF effect.discount < goods THEN goods - effect.discount ELSE 0)
        + ChargedFee(pickup, effect, fee)

(* create_order_from_checkout, with what was read before it; the id is a   *)
(* new one.                                                                *)
CreateOrder(w) ==
    /\ call[w].pc = "resolve" /\ \E o \in Orders : order[o] = "ABSENT"
    /\ \E goods \in Goods, fee \in Fees,
          rows \in SUBSET (IF Request[call[w].k].promo THEN Promotions ELSE {}) :
         LET o == CHOOSE q \in Orders : order[q] = "ABSENT"
             effect == resolve_promo_effect(rows, goods)
             pickup == Request[call[w].k].pickup
         IN  /\ order' = [order EXCEPT ![o] = "DRAFT"]
             /\ keyOf' = [keyOf EXCEPT ![o] = call[w].k]
             /\ bill' = [bill EXCEPT ![o] =
                   [goods |-> goods, discount |-> effect.discount,
                    fee |-> ChargedFee(pickup, effect, fee),
                    total |-> compute_checkout_total(goods, pickup, effect, fee)]]
             /\ call' = [call EXCEPT ![w].pc = "confirm", ![w].o = o]
    /\ UNCHANGED <<claimed, payload, linked, customers, replies, refused>>

(* CONFIRM; the result is not looked at and the call goes on.              *)
Confirm(w) ==
    /\ call[w].pc = "confirm"
    /\ SendEvent(call[w].o, "CONFIRM")
    /\ Goto(w, IF Request[call[w].k].method = "card" THEN "request" ELSE "cook")
    /\ UNCHANGED <<claimed, payload, keyOf, bill, linked, customers, replies, refused>>

(* Card: REQUEST_PAYMENT; the result is not looked at either.              *)
RequestPayment(w) ==
    /\ call[w].pc = "request"
    /\ SendEvent(call[w].o, "REQUEST_PAYMENT")
    /\ Goto(w, "pay")
    /\ UNCHANGED <<claimed, payload, keyOf, bill, linked, customers, replies, refused>>

(* create_payment returns the link; it requests the payment once more, and *)
(* only logs a failure of that.                                            *)
CreatePayment(w) ==
    /\ call[w].pc = "pay"
    /\ linked' = linked \cup {call[w].o}
    /\ SendEvent(call[w].o, "REQUEST_PAYMENT")
    /\ Goto(w, "save")
    /\ UNCHANGED <<claimed, payload, keyOf, bill, customers, replies, refused>>

(* A slip: the call goes on after the payment failed.                      *)
IgnoredPaymentFails(w) ==
    /\ call[w].pc = "pay"
    /\ Goto(w, "save")
    /\ UNCHANGED <<claimed, payload, sales, customers, replies, refused>>

(* The provider rejects the payment or cannot be reached: 502.             *)
PaymentFails(w) ==
    /\ call[w].pc = "pay"
    /\ End(w)
    /\ UNCHANGED <<claimed, payload, sales, customers, replies, refused>>

(* Cash: START_COOKING; a failure is only logged.                          *)
StartCooking(w) ==
    /\ call[w].pc = "cook"
    /\ SendEvent(call[w].o, "START_COOKING")
    /\ Goto(w, "save")
    /\ UNCHANGED <<claimed, payload, keyOf, bill, linked, customers, replies, refused>>

(* A slip: the key itself is stored with the key.                          *)
SelfSave(w) ==
    /\ call[w].pc = "save"
    /\ payload' = [payload EXCEPT ![call[w].k] = call[w].k]
    /\ End(w)
    /\ UNCHANGED <<claimed, sales, customers, replies, refused>>

(* update_payload, and the answer.                                         *)
Save(w) ==
    /\ call[w].pc = "save"
    /\ payload' = [payload EXCEPT ![call[w].k] = call[w].o]
    /\ replies' = replies \cup {<<call[w].k, call[w].o>>}
    /\ End(w)
    /\ UNCHANGED <<claimed, sales, customers, refused>>

(* Staff cancel the order.                                                 *)
StaffCancel(o) ==
    /\ order[o] # "ABSENT" /\ "CANCEL" \in Allowed(ORDER_TRANSITIONS, order[o])
    /\ order' = [order EXCEPT ![o] = "CANCELLED"]
    /\ UNCHANGED <<claimed, payload, keyOf, bill, linked, customers, replies, refused, call>>

(* The server process restarts; the calls in flight are gone.              *)
CheckoutCrash ==
    /\ call' = [w \in Callers |-> NoCall]
    /\ UNCHANGED <<claimed, payload, sales, customers, replies, refused>>

Step(w) ==
    \/ FindCustomer(w) \/ CreateCustomer(w) \/ ResolveFails(w) \/ CreateOrder(w) \/ Confirm(w)
    \/ RequestPayment(w) \/ CreatePayment(w) \/ PaymentFails(w) \/ StartCooking(w) \/ Save(w)

CheckoutNext ==
    \/ \E w \in Callers, k \in Keys : Claim(w, k) \/ Duplicate(w, k)
    \/ \E w \in Callers : Step(w)
    \/ \E o \in Orders : StaffCancel(o)
    \/ CheckoutCrash

CheckoutSpec == CheckoutInit /\ [][CheckoutNext]_checkoutVars

---------------------------------------------------------------------------
(* However often a checkout is repeated, and whether the repetition meets  *)
(* the first call in flight, finished, failed or lost to a restart, at     *)
(* most one order is created for its key.                                  *)
OneOrderPerKey ==
    \A o, q \in Orders :
        (order[o] # "ABSENT" /\ order[q] # "ABSENT" /\ keyOf[o] = keyOf[q]) => o = q

(* Every successful answer for a key, first or repeated, names the one     *)
(* order that exists under that key, the one further repetitions will be   *)
(* answered with; for a card it has a payment link, and for cash it does   *)
(* not wait for a payment.  (Since the checkout goes on after a failed     *)
(* CONFIRM, the order may still be a DRAFT.)                               *)
ReplyIsBacked ==
    \A r \in replies :
        /\ keyOf[r[2]] = r[1] /\ order[r[2]] # "ABSENT"
        /\ payload[r[1]] = r[2]
        /\ IF Request[r[1]].method = "card"
           THEN r[2] \in linked
           ELSE order[r[2]] \notin {"PAYMENT_PENDING", "PAID"}

(* The delivery fee the thanks page shows, a remainder of what the row     *)
(* keeps.                                                                  *)
ThanksFee(o) == bill[o].total - bill[o].goods + bill[o].discount

(* Whatever is edited while a checkout is under way, the page the customer *)
(* is sent to (shop_thanks) shows the delivery fee that was charged, and   *)
(* the discount never exceeds the goods.                                   *)
ThanksPageAddsUp ==
    \A o \in Orders : ThanksFee(o) = bill[o].fee /\ bill[o].discount <= bill[o].goods

(* A repeated call is refused only while the first call is in flight.      *)
RefusedOnlyInFlight ==
    [][\A k \in Keys : (k \notin refused /\ k \in refused') => \E w \in Callers : call[w].k = k]_checkoutVars

===========================================================================
