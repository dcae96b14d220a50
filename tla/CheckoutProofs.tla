--------------------------- MODULE CheckoutProofs ---------------------------
(***************************************************************************)
(* What POST /api/orders keeps, for any number of keys, concurrent calls,  *)
(* orders, promotions, prices and fees: however the calls race, fail, are  *)
(* repeated or are lost to a restart.                                      *)
(***************************************************************************)
EXTENDS Checkout, FiniteSetTheorems, TLAPS

(* The call works on its order.                                            *)
HasOrder(t) == t.pc \in {"confirm", "request", "pay", "cook", "save"}

(* The order waits for a payment, or got one.                              *)
AsksPayment(s) == s \in {"PAYMENT_PENDING", "PAID"}

(* An order that may be named in an answer for k.                          *)
Backed(k, o) ==
    /\ o \in Orders
    /\ keyOf[o] = k
    /\ order[o] # "ABSENT"
    /\ IF Request[k].method = "card" THEN o \in linked ELSE ~AsksPayment(order[o])

(* What is known of a call at each step.                                   *)
CallOK(t) ==
    /\ t.pc = "idle" => t = NoCall
    /\ t.pc # "idle" => t.k \in claimed
    /\ (t.pc # "idle" /\ ~HasOrder(t)) => \A o \in Orders : keyOf[o] # t.k
    /\ HasOrder(t) => t.o \in Orders /\ keyOf[t.o] = t.k /\ order[t.o] # "ABSENT"
    /\ (HasOrder(t) /\ Request[t.k].method # "card") => ~AsksPayment(order[t.o])
    /\ t.pc \in {"request", "pay"} => Request[t.k].method = "card"
    /\ t.pc = "cook" => Request[t.k].method # "card"
    /\ t.pc = "save" => Backed(t.k, t.o)

(* A key is claimed by one call: no two calls do its work.                 *)
KeysApart ==
    \A v, w \in Callers : (v # w /\ call[v].pc # "idle") => call[v].k # call[w].k

(* An order was created under a claimed key, a free id under none.         *)
OrdersKeyed ==
    \A o \in Orders : IF order[o] = "ABSENT" THEN keyOf[o] = NoKey ELSE keyOf[o] \in claimed

(* What is stored with a key may be answered again; what was answered is   *)
(* stored.                                                                 *)
PayloadBacked == \A k \in Keys : payload[k] # NoOrder => Backed(k, payload[k])

RepliesBacked == \A r \in replies : Backed(r[1], r[2]) /\ payload[r[1]] = r[2]

CheckoutInv ==
    /\ CheckoutTypeOK
    /\ \A w \in Callers : CallOK(call[w])
    /\ KeysApart
    /\ OrdersKeyed
    /\ OneOrderPerKey
    /\ PayloadBacked
    /\ RepliesBacked
    /\ ThanksPageAddsUp

---------------------------------------------------------------------------
Call ==
    [pc : {"idle", "customer", "insert", "resolve", "confirm", "request", "pay", "cook", "save"},
     k : Keys \cup {NoKey}, o : Orders \cup {NoOrder}]

(* Nothing is taken back: no key is freed, no order leaves the table, no   *)
(* link is lost; and no cash order is asked to be paid.                    *)
Forward ==
    /\ claimed \subseteq claimed'
    /\ linked \subseteq linked'
    /\ UNCHANGED <<keyOf, bill>>
    /\ \A o \in Orders :
          /\ order'[o] = "ABSENT" <=> order[o] = "ABSENT"
          /\ (AsksPayment(order'[o]) /\ Request[keyOf[o]].method # "card") => AsksPayment(order[o])

(* What may be answered may be answered for ever.                          *)
LEMMA ForwardBacked ==
    ASSUME Forward
    PROVE  \A k, o : Backed(k, o) => Backed(k, o)'
BY DEF Forward, Backed

(* What is known of a call stays true while others go forward.             *)
LEMMA ForwardCall ==
    ASSUME CheckoutInv, Forward, NEW w \in Callers, call'[w] = call[w]
    PROVE  CallOK(call[w])'
<1>1. CallOK(call[w]) BY DEF CheckoutInv
<1>2. Backed(call[w].k, call[w].o) => Backed(call[w].k, call[w].o)'
    <2>1. \A k, o : Backed(k, o) => Backed(k, o)' BY ForwardBacked
    <2>2. Backed(call[w].k, call[w].o) =>
            /\ call[w].o \in Orders
            /\ keyOf'[call[w].o] = call[w].k
            /\ order'[call[w].o] # "ABSENT"
            /\ IF Request[call[w].k].method = "card" THEN call[w].o \in linked'
               ELSE ~AsksPayment(order'[call[w].o])
        BY DEF Backed, Forward
    <2> QED BY <2>2 DEF Backed
<1>3. call[w].o \in Orders =>
        /\ order'[call[w].o] = "ABSENT" <=> order[call[w].o] = "ABSENT"
        /\ (AsksPayment(order'[call[w].o]) /\ Request[keyOf[call[w].o]].method # "card")
              => AsksPayment(order[call[w].o])
    BY DEF Forward
<1> QED BY <1>1, <1>2, <1>3 DEF CallOK, HasOrder, Forward

(* A step of call w in which everything else goes forward.                 *)
LEMMA ForwardInv ==
    ASSUME CheckoutInv, Forward, CheckoutTypeOK',
           NEW w \in Callers,
           \A v \in Callers \ {w} : call'[v] = call[v],
           CallOK(call[w])',
           call'[w].pc # "idle" => \A v \in Callers \ {w} : call[v].k # call'[w].k,
           \A v \in Callers \ {w} : call[v].pc # "idle" => call[v].k # call'[w].k,
           PayloadBacked', RepliesBacked'
    PROVE  CheckoutInv'
<1>2. \A v \in Callers : CallOK(call[v])'
    <2> TAKE v \in Callers
    <2> QED BY ForwardCall
<1>3. KeysApart' BY DEF CheckoutInv, KeysApart
<1>4. OrdersKeyed' BY DEF CheckoutInv, OrdersKeyed, Forward
<1>5. OneOrderPerKey' BY DEF CheckoutInv, OneOrderPerKey, Forward
<1>6. ThanksPageAddsUp' BY DEF CheckoutInv, ThanksPageAddsUp, ThanksFee, Forward
<1> QED BY <1>2, <1>3, <1>4, <1>5, <1>6 DEF CheckoutInv

---------------------------------------------------------------------------
(* transition_order moves the order along its graph or not at all; only    *)
(* REQUEST_PAYMENT makes an order of the checkout wait for a payment.      *)
LEMMA SendStep ==
    ASSUME CheckoutTypeOK, NEW o \in Orders,
           NEW ev \in {"CONFIRM", "REQUEST_PAYMENT", "START_COOKING"}, SendEvent(o, ev)
    PROVE  /\ order' \in [Orders -> OrderState \cup {"ABSENT"}]
           /\ \A q \in Orders :
                 /\ order'[q] = "ABSENT" <=> order[q] = "ABSENT"
                 /\ AsksPayment(order'[q]) =>
                       AsksPayment(order[q]) \/ (q = o /\ ev = "REQUEST_PAYMENT")
<1>1. CASE UNCHANGED order BY <1>1 DEF CheckoutTypeOK
<1>2. CASE \E edge \in ORDER_TRANSITIONS :
             /\ edge[1] = order[o] /\ edge[2] = ev
             /\ order' = [order EXCEPT ![o] = edge[3]]
    <2>1. PICK edge \in ORDER_TRANSITIONS :
             /\ edge[1] = order[o] /\ edge[2] = ev
             /\ order' = [order EXCEPT ![o] = edge[3]]
        BY <1>2
    <2>2. /\ edge[1] # "ABSENT" /\ edge[3] \in OrderState /\ edge[3] # "ABSENT"
          /\ AsksPayment(edge[3]) => ev = "REQUEST_PAYMENT"
        BY <2>1 DEF ORDER_TRANSITIONS, OrderState, AsksPayment
    <2> QED BY <2>1, <2>2 DEF CheckoutTypeOK
<1> QED BY <1>1, <1>2 DEF SendEvent

(* An event of call w, which goes on to pc.                                *)
LEMMA SendForward ==
    ASSUME CheckoutInv, NEW w \in Callers, HasOrder(call[w]),
           NEW ev \in {"CONFIRM", "REQUEST_PAYMENT", "START_COOKING"}, SendEvent(call[w].o, ev),
           ev = "REQUEST_PAYMENT" => Request[call[w].k].method = "card",
           linked \subseteq linked', linked' \subseteq Orders,
           NEW pc \in {"request", "pay", "cook", "save"}, Goto(w, pc),
           UNCHANGED <<claimed, payload, keyOf, bill, customers, replies, refused>>
    PROVE  /\ Forward
           /\ CheckoutTypeOK'
           /\ \A v \in Callers \ {w} : call'[v] = call[v]
           /\ call'[w] = [call[w] EXCEPT !.pc = pc]
           /\ PayloadBacked' /\ RepliesBacked'
<1> USE DEF CheckoutInv
<1>1. call[w].o \in Orders /\ keyOf[call[w].o] = call[w].k BY DEF CallOK
<1>2. /\ order' \in [Orders -> OrderState \cup {"ABSENT"}]
      /\ \A q \in Orders :
            /\ order'[q] = "ABSENT" <=> order[q] = "ABSENT"
            /\ (AsksPayment(order'[q]) /\ Request[keyOf[q]].method # "card") => AsksPayment(order[q])
    BY <1>1, SendStep
<1>3. Forward BY <1>2 DEF Forward
<1>4. call[w] \in Call /\ call \in [Callers -> Call] BY DEF CheckoutTypeOK, Call
<1>5. call' = [call EXCEPT ![w] = [call[w] EXCEPT !.pc = pc]] BY DEF Goto
<1>6. call' \in [Callers -> Call] BY <1>4, <1>5 DEF Call
<1>7. CheckoutTypeOK' BY <1>2, <1>6 DEF CheckoutTypeOK, Call
<1>8. PayloadBacked' BY <1>3, ForwardBacked DEF PayloadBacked
<1>9. RepliesBacked' BY <1>3, ForwardBacked DEF RepliesBacked
<1> QED BY <1>3, <1>4, <1>5, <1>7, <1>8, <1>9

(* A step that changes no order: call w goes on, and a key may be claimed. *)
LEMMA CallInv ==
    ASSUME CheckoutInv, NEW w \in Callers,
           claimed \subseteq claimed', claimed' \subseteq Keys, customers' \subseteq Phones,
           UNCHANGED <<payload, sales, replies, refused>>,
           call' = [call EXCEPT ![w] = call'[w]], call'[w] \in Call,
           CallOK(call[w])',
           \A v \in Callers \ {w} :
              (call[v].pc # "idle" \/ call'[w].pc # "idle") => call[v].k # call'[w].k
    PROVE  CheckoutInv'
<1>1. Forward BY DEF Forward, sales
<1>2. CheckoutTypeOK' BY DEF CheckoutInv, CheckoutTypeOK, Call, sales
<1>3. PayloadBacked' BY <1>1, ForwardBacked DEF CheckoutInv, PayloadBacked
<1>4. RepliesBacked' BY <1>1, ForwardBacked DEF CheckoutInv, RepliesBacked
<1>5. \A v \in Callers \ {w} : call'[v] = call[v] BY DEF CheckoutInv, CheckoutTypeOK
<1> QED BY <1>1, <1>2, <1>3, <1>4, <1>5, ForwardInv

(* The call ends without an answer.                                        *)
LEMMA EndInv ==
    ASSUME CheckoutInv, NEW w \in Callers, End(w), customers' \subseteq Phones,
           UNCHANGED <<claimed, payload, sales, replies, refused>>
    PROVE  CheckoutInv'
<1>1. call' = [call EXCEPT ![w] = call'[w]] /\ call'[w] = NoCall
    BY DEF End, CheckoutInv, CheckoutTypeOK
<1>2. NoCall \in Call BY DEF NoCall, Call
<1>3. CallOK(call[w])' BY <1>1 DEF CallOK, HasOrder, NoCall
<1>4. \A v \in Callers \ {w} :
         (call[v].pc # "idle" \/ call'[w].pc # "idle") => call[v].k # call'[w].k
    <2>1. \A v \in Callers : call[v].pc # "idle" => call[v].k \in Keys
        BY DEF CheckoutInv, CheckoutTypeOK, CallOK
    <2>2. NoCall.k = NoKey /\ NoCall.pc = "idle" BY DEF NoCall
    <2>3. NoKey \notin Keys BY CheckoutAssumption DEF CheckoutInv
    <2> QED BY <1>1, <2>1, <2>2, <2>3
<1>5. claimed' \subseteq Keys BY DEF CheckoutInv, CheckoutTypeOK
<1> QED BY <1>1, <1>2, <1>3, <1>4, <1>5, CallInv

(* The call goes on to another step before it has an order.                *)
LEMMA GotoInv ==
    ASSUME CheckoutInv, NEW w \in Callers, call[w].pc \in {"customer", "insert"},
           NEW pc \in {"insert", "resolve"}, Goto(w, pc), customers' \subseteq Phones,
           UNCHANGED <<claimed, payload, sales, replies, refused>>
    PROVE  CheckoutInv'
<1>1. call[w] \in Call /\ call \in [Callers -> Call] BY DEF CheckoutInv, CheckoutTypeOK, Call
<1>2. call' = [call EXCEPT ![w] = [call[w] EXCEPT !.pc = pc]] BY DEF Goto
<1>3. call'[w] = [call[w] EXCEPT !.pc = pc] BY <1>1, <1>2
<1>4. call'[w] \in Call /\ call'[w].pc = pc /\ call'[w].k = call[w].k
    BY <1>1, <1>3 DEF Call
<1>5. call' = [call EXCEPT ![w] = call'[w]] BY <1>2, <1>3
<1>6. CallOK(call[w]) BY DEF CheckoutInv
<1>7. CallOK(call[w])' BY <1>4, <1>6 DEF CallOK, HasOrder, sales
<1>8. \A v \in Callers \ {w} : call[v].k # call'[w].k
    BY <1>4 DEF CheckoutInv, KeysApart
<1>9. claimed' \subseteq Keys BY DEF CheckoutInv, CheckoutTypeOK
<1> QED BY <1>4, <1>5, <1>7, <1>8, <1>9, CallInv

---------------------------------------------------------------------------
(* check_and_record: nobody else works on a key that was not claimed, and  *)
(* it has no order.                                                        *)
LEMMA ClaimInv ==
    ASSUME CheckoutInv, NEW w \in Callers, NEW k \in Keys, Claim(w, k)
    PROVE  CheckoutInv'
<1> DEFINE t == [NoCall EXCEPT !.pc = "customer", !.k = k]
<1>1. t \in Call /\ t.pc = "customer" /\ t.k = k BY DEF NoCall, Call
<1>2. call' = [call EXCEPT ![w] = t] BY DEF Claim
<1> HIDE DEF t
<1>3. call'[w] = t BY <1>2 DEF CheckoutInv, CheckoutTypeOK
<1>4. k \notin claimed /\ claimed' = claimed \cup {k} BY DEF Claim
<1>5. \A o \in Orders : keyOf[o] # k
    BY <1>4, CheckoutAssumption DEF CheckoutInv, OrdersKeyed
<1>6. CallOK(call[w])' BY <1>1, <1>3, <1>4, <1>5 DEF CallOK, HasOrder, Claim, sales
<1>7. \A v \in Callers : call[v].k # k
    <2> TAKE v \in Callers
    <2>1. CallOK(call[v]) BY DEF CheckoutInv
    <2>2. CASE call[v].pc = "idle"
        BY <2>1, <2>2, CheckoutAssumption DEF CallOK, NoCall, CheckoutInv
    <2>3. CASE call[v].pc # "idle" BY <2>1, <2>3, <1>4 DEF CallOK
    <2> QED BY <2>2, <2>3
<1>8. claimed' \subseteq Keys /\ customers' \subseteq Phones
    BY <1>4 DEF CheckoutInv, CheckoutTypeOK, Claim
<1> QED BY <1>1, <1>2, <1>3, <1>4, <1>6, <1>7, <1>8, CallInv DEF Claim

(* A repeated call is answered from the payload, or refused.               *)
LEMMA DuplicateInv ==
    ASSUME CheckoutInv, NEW w \in Callers, NEW k \in Keys, Duplicate(w, k)
    PROVE  CheckoutInv'
<1>1. Forward /\ UNCHANGED <<call, payload>> BY DEF Duplicate, Forward, sales
<1>2. RepliesBacked'
    <2>1. \A r \in replies : Backed(r[1], r[2])' /\ payload'[r[1]] = r[2]
        BY <1>1, ForwardBacked DEF CheckoutInv, RepliesBacked
    <2>2. payload[k] # NoOrder => Backed(k, payload[k])' BY <1>1, ForwardBacked DEF CheckoutInv, PayloadBacked
    <2>3. CASE payload[k] # NoOrder
        <3>1. replies' = replies \cup {<<k, payload[k]>>} BY <2>3 DEF Duplicate
        <3>2. \A r \in replies' : Backed(r[1], r[2])' /\ payload'[r[1]] = r[2]
            BY <1>1, <2>1, <2>2, <2>3, <3>1
        <3> QED BY <3>2 DEF RepliesBacked
    <2>4. CASE payload[k] = NoOrder
        BY <1>1, <2>1, <2>4 DEF Duplicate, RepliesBacked
    <2> QED BY <2>3, <2>4
<1>3. PayloadBacked' BY <1>1, ForwardBacked DEF CheckoutInv, PayloadBacked
<1>4. CheckoutTypeOK'
    <2>1. payload[k] \in Orders \cup {NoOrder} BY DEF CheckoutInv, CheckoutTypeOK
    <2> QED BY <2>1 DEF CheckoutInv, CheckoutTypeOK, Duplicate, sales
<1>5. CallOK(call[w])' BY <1>1, ForwardCall
<1>6. \A v \in Callers \ {w} :
         (call[v].pc # "idle" \/ call[w].pc # "idle") => call[v].k # call[w].k
    BY DEF CheckoutInv, KeysApart
<1> QED BY <1>1, <1>2, <1>3, <1>4, <1>5, <1>6, ForwardInv

---------------------------------------------------------------------------
(* A percentage of at most 100 takes off at most the whole price.          *)
LEMMA PercentBound ==
    ASSUME NEW g \in Nat, NEW d \in 0..100
    PROVE  (g * d) \div 100 \in 0..g
<1>1. g * d \in Nat BY SMT
<1>2. g * d <= g * 100 BY SMT
<1>3. \A x \in Nat : x <= g * 100 => x \div 100 \in 0..g BY SMT
<1> QED BY <1>1, <1>2, <1>3

(* Whatever promotions are found, the discount is an amount between 0 and  *)
(* the price of the goods.                                                 *)
LEMMA PromoBound ==
    ASSUME NEW rows \in SUBSET Promotions, NEW goods \in Goods
    PROVE  resolve_promo_effect(rows, goods).discount \in 0..goods
<1>1. goods \in Nat BY CheckoutAssumption
<1>2. CASE Cardinality(rows) # 1
    BY <1>1, <1>2 DEF resolve_promo_effect, NoEffect
<1>3. CASE Cardinality(rows) = 1
    <2> DEFINE p == CHOOSE q \in rows : TRUE
    <2>1. rows # {} BY <1>3, FS_EmptySet
    <2>2. p \in rows BY <2>1
    <2>3. resolve_promo_effect(rows, goods).discount =
            CASE p.effect = "PERCENT_DISCOUNT" -> (goods * p.discount) \div 100
              [] p.effect = "FIXED_AMOUNT" -> IF p.discount < goods THEN p.discount ELSE goods
              [] OTHER -> 0
        BY <1>3 DEF resolve_promo_effect
    <2> HIDE DEF p
    <2>4. p \in Promotion BY <2>2, CheckoutAssumption
    <2>5. CASE p.effect = "PERCENT_DISCOUNT"
        <3>1. p.discount \in 0..100 BY <2>4, <2>5 DEF Promotion
        <3> QED BY <1>1, <2>3, <2>5, <3>1, PercentBound
    <2>6. CASE p.effect = "FIXED_AMOUNT"
        <3>1. p.discount \in Nat BY <2>4, <2>6 DEF Promotion
        <3> QED BY <1>1, <2>3, <2>6, <3>1
    <2>7. CASE p.effect = "FREE_DELIVERY" BY <1>1, <2>3, <2>7
    <2>8. p.effect \in {"PERCENT_DISCOUNT", "FIXED_AMOUNT", "FREE_DELIVERY"}
        BY <2>4 DEF Promotion
    <2> QED BY <2>5, <2>6, <2>7, <2>8
<1> QED BY <1>2, <1>3

(* What the page shows as the fee is the fee, since the discount that was  *)
(* stored is the one the total was computed with.                          *)
LEMMA TotalAddsUp ==
    ASSUME NEW goods \in Nat, NEW fee \in Nat, NEW pickup, NEW effect,
           effect.discount \in 0..goods
    PROVE  /\ ChargedFee(pickup, effect, fee) \in Nat
           /\ compute_checkout_total(goods, pickup, effect, fee) \in Nat
           /\ compute_checkout_total(goods, pickup, effect, fee) - goods + effect.discount
                = ChargedFee(pickup, effect, fee)
<1>1. ChargedFee(pickup, effect, fee) \in Nat BY DEF ChargedFee
<1> QED BY <1>1 DEF compute_checkout_total

(* create_order_from_checkout: the order is the first one of its key.      *)
LEMMA CreateOrderInv ==
    ASSUME CheckoutInv, NEW w \in Callers, CreateOrder(w)
    PROVE  CheckoutInv'
<1> DEFINE o == CHOOSE q \in Orders : order[q] = "ABSENT"
           pickup == Request[call[w].k].pickup
<1>1. o \in Orders /\ order[o] = "ABSENT" BY DEF CreateOrder
<1>2. PICK goods \in Goods, fee \in Fees,
            rows \in SUBSET (IF Request[call[w].k].promo THEN Promotions ELSE {}) :
        LET effect == resolve_promo_effect(rows, goods)
        IN  /\ order' = [order EXCEPT ![o] = "DRAFT"]
            /\ keyOf' = [keyOf EXCEPT ![o] = call[w].k]
            /\ bill' = [bill EXCEPT ![o] =
                  [goods |-> goods, discount |-> effect.discount,
                   fee |-> ChargedFee(pickup, effect, fee),
                   total |-> compute_checkout_total(goods, pickup, effect, fee)]]
            /\ call' = [call EXCEPT ![w].pc = "confirm", ![w].o = o]
    BY DEF CreateOrder
<1> DEFINE effect == resolve_promo_effect(rows, goods)
           row == [goods |-> goods, discount |-> effect.discount,
                   fee |-> ChargedFee(pickup, effect, fee),
                   total |-> compute_checkout_total(goods, pickup, effect, fee)]
<1>3. /\ order' = [order EXCEPT ![o] = "DRAFT"]
      /\ keyOf' = [keyOf EXCEPT ![o] = call[w].k]
      /\ bill' = [bill EXCEPT ![o] = row]
      /\ call' = [call EXCEPT ![w].pc = "confirm", ![w].o = o]
    BY <1>2
<1>4. CheckoutTypeOK BY DEF CheckoutInv
<1>5. effect.discount \in 0..goods
    <2>1. rows \in SUBSET Promotions OBVIOUS
    <2> QED BY <1>4, <2>1, PromoBound
<1> HIDE DEF o, effect
<1>6. /\ row \in [goods : Nat, discount : Nat, fee : Nat, total : Nat]
      /\ row.total - row.goods + row.discount = row.fee
      /\ row.discount <= row.goods
    <2>1. goods \in Nat /\ fee \in Nat BY <1>4, CheckoutAssumption
    <2>2. /\ ChargedFee(pickup, effect, fee) \in Nat
          /\ compute_checkout_total(goods, pickup, effect, fee) \in Nat
          /\ compute_checkout_total(goods, pickup, effect, fee) - goods + effect.discount
               = ChargedFee(pickup, effect, fee)
        BY <1>5, <2>1, TotalAddsUp
    <2> QED BY <1>5, <2>1, <2>2
<1> HIDE DEF pickup, row
<1>7. /\ call[w].pc = "resolve"
      /\ UNCHANGED <<claimed, payload, linked, customers, replies, refused>>
    BY DEF CreateOrder
<1>8. /\ call[w].k \in claimed /\ call[w].k \in Keys
      /\ \A q \in Orders : keyOf[q] # call[w].k
    <2>1. CallOK(call[w]) BY DEF CheckoutInv
    <2> QED BY <1>4, <1>7, <2>1 DEF CallOK, HasOrder, CheckoutTypeOK
<1>9. /\ \A q \in Orders : q # o => order'[q] = order[q] /\ keyOf'[q] = keyOf[q] /\ bill'[q] = bill[q]
      /\ order'[o] = "DRAFT" /\ keyOf'[o] = call[w].k /\ bill'[o] = row
    BY <1>1, <1>3, <1>4 DEF CheckoutTypeOK
<1>10. /\ call' \in [Callers -> Call]
       /\ \A v \in Callers : v # w => call'[v] = call[v]
       /\ call'[w] \in Call
       /\ call'[w].pc = "confirm" /\ call'[w].o = o /\ call'[w].k = call[w].k
    <2>1. call \in [Callers -> Call] /\ call[w] \in Call BY <1>4 DEF CheckoutTypeOK, Call
    <2> DEFINE t == [[call[w] EXCEPT !.pc = "confirm"] EXCEPT !.o = o]
    <2>2. t \in Call /\ t.pc = "confirm" /\ t.o = o /\ t.k = call[w].k
        BY <1>1, <2>1 DEF Call
    <2>3. call' = [call EXCEPT ![w] = t] BY <1>3, <2>1
    <2> HIDE DEF t
    <2> QED BY <2>1, <2>2, <2>3
<1>11. CheckoutTypeOK'
    <2>1. order' \in [Orders -> OrderState \cup {"ABSENT"}] BY <1>3, <1>4 DEF CheckoutTypeOK, OrderState
    <2>2. keyOf' \in [Orders -> Keys \cup {NoKey}] BY <1>3, <1>4, <1>8 DEF CheckoutTypeOK
    <2>3. bill' \in [Orders -> [goods : Nat, discount : Nat, fee : Nat, total : Nat]]
        BY <1>3, <1>4, <1>6 DEF CheckoutTypeOK
    <2> QED BY <1>4, <1>7, <1>10, <2>1, <2>2, <2>3 DEF CheckoutTypeOK, Call
<1>13. \A v \in Callers : CallOK(call[v])'
    <2> TAKE v \in Callers
    <2>1. CallOK(call[v]) BY DEF CheckoutInv
    <2>2. CASE v = w BY <1>1, <1>7, <1>8, <1>9, <1>10, <2>2 DEF CallOK, HasOrder, AsksPayment
    <2>3. CASE v # w
        <3>1. call'[v] = call[v] BY <1>10, <2>3
        <3>2. call[v].pc # "idle" => call[v].k # call[w].k BY <2>3 DEF CheckoutInv, KeysApart
        <3>3. HasOrder(call[v]) => call[v].o # o BY <1>1, <2>1 DEF CallOK
        <3>4. ~HasOrder(call[v]) => call[v].pc # "save" BY DEF HasOrder
        <3>5. HasOrder(call[v])' <=> HasOrder(call[v]) BY <3>1 DEF HasOrder
        <3>6. HasOrder(call[v]) => /\ call[v].o \in Orders
                                   /\ order'[call[v].o] = order[call[v].o]
                                   /\ keyOf'[call[v].o] = keyOf[call[v].o]
            BY <1>9, <2>1, <3>3 DEF CallOK
        <3>7. call[v].pc # "idle" => keyOf'[o] # call[v].k BY <1>9, <3>2
        <3>8. call[v].pc = "save" => Backed(call[v].k, call[v].o)'
            BY <1>7, <2>1, <3>1, <3>4, <3>6 DEF CallOK, Backed
        <3> QED BY <1>7, <1>9, <2>1, <3>1, <3>5, <3>6, <3>7, <3>8 DEF CallOK
    <2> QED BY <2>2, <2>3
<1>14. KeysApart' BY <1>7, <1>10 DEF CheckoutInv, KeysApart
<1>15. OrdersKeyed' BY <1>7, <1>8, <1>9 DEF CheckoutInv, OrdersKeyed
<1>16. OneOrderPerKey' BY <1>8, <1>9 DEF CheckoutInv, OneOrderPerKey
<1>17. \A k, q : Backed(k, q) => Backed(k, q)' BY <1>1, <1>7, <1>9 DEF Backed
<1>18. PayloadBacked' BY <1>7, <1>17 DEF CheckoutInv, PayloadBacked
<1>19. RepliesBacked' BY <1>7, <1>17 DEF CheckoutInv, RepliesBacked
<1>20. ThanksPageAddsUp' BY <1>6, <1>9 DEF CheckoutInv, ThanksPageAddsUp, ThanksFee
<1> QED BY <1>11, <1>13, <1>14, <1>15, <1>16, <1>18, <1>19, <1>20 DEF CheckoutInv

---------------------------------------------------------------------------
(* A step of a call that has its order: the order may move, the call goes  *)
(* on to pc.                                                               *)
LEMMA WorkInv ==
    ASSUME CheckoutInv, NEW w \in Callers, HasOrder(call[w]),
           NEW ev \in {"CONFIRM", "REQUEST_PAYMENT", "START_COOKING"}, SendEvent(call[w].o, ev),
           ev = "REQUEST_PAYMENT" => Request[call[w].k].method = "card",
           linked \subseteq linked', linked' \subseteq Orders,
           NEW pc \in {"request", "pay", "cook", "save"}, Goto(w, pc),
           UNCHANGED <<claimed, payload, keyOf, bill, customers, replies, refused>>,
           pc \in {"request", "pay"} => Request[call[w].k].method = "card",
           pc = "cook" => Request[call[w].k].method # "card",
           (pc = "save" /\ Request[call[w].k].method = "card") => call[w].o \in linked'
    PROVE  CheckoutInv'
<1>1. /\ Forward
      /\ CheckoutTypeOK'
      /\ \A v \in Callers \ {w} : call'[v] = call[v]
      /\ call'[w] = [call[w] EXCEPT !.pc = pc]
      /\ PayloadBacked' /\ RepliesBacked'
    BY SendForward
<1>2. CallOK(call[w]) /\ call[w] \in Call BY DEF CheckoutInv, CheckoutTypeOK, Call
<1>3. call'[w].pc = pc /\ call'[w].k = call[w].k /\ call'[w].o = call[w].o
    BY <1>1, <1>2 DEF Call
<1>4. /\ call[w].o \in Orders /\ keyOf'[call[w].o] = call[w].k /\ call[w].k \in claimed'
      /\ order'[call[w].o] # "ABSENT"
      /\ Request[call[w].k].method # "card" => ~AsksPayment(order'[call[w].o])
    BY <1>1, <1>2 DEF CallOK, HasOrder, Forward
<1>5. CallOK(call[w])' BY <1>3, <1>4 DEF CallOK, HasOrder, Backed
<1>6. \A v \in Callers \ {w} : call[v].k # call'[w].k
    <2>1. call[w].pc # "idle" BY DEF HasOrder
    <2> QED BY <1>3, <2>1 DEF CheckoutInv, KeysApart
<1> QED BY <1>1, <1>5, <1>6, ForwardInv

LEMMA ConfirmInv ==
    ASSUME CheckoutInv, NEW w \in Callers, Confirm(w)
    PROVE  CheckoutInv'
<1>1. HasOrder(call[w]) /\ call[w].o \in Orders BY DEF CheckoutInv, CallOK, Confirm, HasOrder
<1>2. SendEvent(call[w].o, "CONFIRM") BY DEF Confirm
<1>4. linked' \subseteq Orders /\ linked' = linked BY DEF CheckoutInv, CheckoutTypeOK, Confirm
<1>5. CASE Request[call[w].k].method = "card"
    <2>1. Goto(w, "request") BY <1>5 DEF Confirm
    <2> QED BY <1>1, <1>2, <1>4, <1>5, <2>1, WorkInv DEF Confirm
<1>6. CASE Request[call[w].k].method # "card"
    <2>1. Goto(w, "cook") BY <1>6 DEF Confirm
    <2> QED BY <1>1, <1>2, <1>4, <1>6, <2>1, WorkInv DEF Confirm
<1> QED BY <1>5, <1>6

LEMMA RequestPaymentInv ==
    ASSUME CheckoutInv, NEW w \in Callers, RequestPayment(w)
    PROVE  CheckoutInv'
<1>1. HasOrder(call[w]) BY DEF RequestPayment, HasOrder
<1>2. Request[call[w].k].method = "card" BY DEF CheckoutInv, CallOK, RequestPayment
<1>3. linked' \subseteq Orders /\ linked' = linked BY DEF CheckoutInv, CheckoutTypeOK, RequestPayment
<1> QED BY <1>1, <1>2, <1>3, WorkInv DEF RequestPayment

LEMMA CreatePaymentInv ==
    ASSUME CheckoutInv, NEW w \in Callers, CreatePayment(w)
    PROVE  CheckoutInv'
<1>1. HasOrder(call[w]) BY DEF CreatePayment, HasOrder
<1>2. Request[call[w].k].method = "card" BY DEF CheckoutInv, CallOK, CreatePayment
<1>3. call[w].o \in Orders BY <1>1 DEF CheckoutInv, CallOK
<1>4. /\ linked \subseteq linked' /\ linked' \subseteq Orders
      /\ call[w].o \in linked'
    BY <1>3 DEF CheckoutInv, CheckoutTypeOK, CreatePayment
<1> QED BY <1>1, <1>2, <1>4, WorkInv DEF CreatePayment

(* A cash order needs no link.                                             *)
LEMMA StartCookingInv ==
    ASSUME CheckoutInv, NEW w \in Callers, StartCooking(w)
    PROVE  CheckoutInv'
<1>1. HasOrder(call[w]) /\ call[w].pc = "cook" BY DEF StartCooking, HasOrder
<1>3. Request[call[w].k].method # "card" BY <1>1 DEF CheckoutInv, CallOK
<1>4. linked' \subseteq Orders /\ linked' = linked BY DEF CheckoutInv, CheckoutTypeOK, StartCooking
<1> QED BY <1>1, <1>3, <1>4, WorkInv DEF StartCooking

(* update_payload stores the order the answer names.                       *)
LEMMA SaveInv ==
    ASSUME CheckoutInv, NEW w \in Callers, Save(w)
    PROVE  CheckoutInv'
<1>1. Forward BY DEF Save, Forward, sales
<1>2. CheckoutTypeOK /\ CallOK(call[w]) BY DEF CheckoutInv
<1>3. /\ call[w].k \in Keys /\ call[w].o \in Orders
      /\ Backed(call[w].k, call[w].o)
    BY <1>2 DEF CallOK, HasOrder, Save, CheckoutTypeOK
<1>4. call' = [call EXCEPT ![w] = NoCall] BY DEF Save, End
<1>5. /\ \A v \in Callers \ {w} : call'[v] = call[v]
      /\ call'[w] = NoCall /\ call' \in [Callers -> Call]
    BY <1>2, <1>4 DEF CheckoutTypeOK, Call, NoCall
<1>6. \A k, o :
        Backed(k, o) <=>
            /\ o \in Orders
            /\ keyOf'[o] = k
            /\ order'[o] # "ABSENT"
            /\ IF Request[k].method = "card" THEN o \in linked' ELSE ~AsksPayment(order'[o])
    BY DEF Backed, Save, sales
<1>7. /\ payload' = [payload EXCEPT ![call[w].k] = call[w].o]
      /\ replies' = replies \cup {<<call[w].k, call[w].o>>}
    BY DEF Save
<1>8. PayloadBacked'
    <2>1. \A k \in Keys : payload'[k] # NoOrder => Backed(k, payload'[k])
        BY <1>2, <1>3, <1>7 DEF CheckoutInv, PayloadBacked, CheckoutTypeOK
    <2> QED BY <2>1, <1>6 DEF PayloadBacked, Backed
<1>9. RepliesBacked'
    <2>1. \A r \in replies' : Backed(r[1], r[2])
        BY <1>3, <1>7 DEF CheckoutInv, RepliesBacked
    <2>2. \A r \in replies' : payload'[r[1]] = r[2]
        <3> TAKE r \in replies'
        <3>1. CASE r = <<call[w].k, call[w].o>> BY <1>2, <1>3, <1>7, <3>1 DEF CheckoutTypeOK
        <3>2. CASE r \in replies
            <4>1. payload[r[1]] = r[2] /\ Backed(r[1], r[2]) /\ r[1] \in Keys
                BY <1>2, <3>2 DEF CheckoutInv, RepliesBacked, CheckoutTypeOK
            <4>2. r[1] = call[w].k => r[2] = call[w].o
                BY <1>3, <4>1 DEF CheckoutInv, OneOrderPerKey, Backed
            <4> QED BY <1>2, <1>7, <4>1, <4>2 DEF CheckoutTypeOK
        <3> QED BY <1>7, <3>1, <3>2
    <2> QED BY <2>1, <2>2, <1>6 DEF RepliesBacked, Backed
<1>10. CheckoutTypeOK'
    BY <1>2, <1>3, <1>5, <1>7 DEF CheckoutTypeOK, Call, Save, sales
<1>11. CallOK(call[w])' BY <1>5 DEF CallOK, HasOrder, NoCall
<1>12. /\ call'[w].pc = "idle"
       /\ \A v \in Callers : call[v].pc # "idle" => call[v].k # call'[w].k
    BY <1>2, <1>5, CheckoutAssumption DEF NoCall, CheckoutInv, CallOK, CheckoutTypeOK
<1> QED BY <1>1, <1>5, <1>8, <1>9, <1>10, <1>11, <1>12, ForwardInv

(* Staff cancel an order, whichever call is at work on it.                 *)
LEMMA StaffCancelInv ==
    ASSUME CheckoutInv, NEW o \in Orders, StaffCancel(o)
    PROVE  CheckoutInv'
<1>1. Forward BY DEF StaffCancel, Forward, CheckoutInv, CheckoutTypeOK, AsksPayment
<1>2. CheckoutTypeOK' BY DEF StaffCancel, CheckoutInv, CheckoutTypeOK, OrderState
<1>4. UNCHANGED <<call, payload, replies>> BY DEF StaffCancel
<1>5. \A v \in Callers : CallOK(call[v])' BY <1>1, <1>4, ForwardCall
<1>6. PayloadBacked' BY <1>1, <1>4, ForwardBacked DEF CheckoutInv, PayloadBacked
<1>7. RepliesBacked' BY <1>1, <1>4, ForwardBacked DEF CheckoutInv, RepliesBacked
<1>8. KeysApart' BY <1>4 DEF CheckoutInv, KeysApart
<1>9. OrdersKeyed' BY <1>1 DEF CheckoutInv, OrdersKeyed, Forward
<1>10. OneOrderPerKey' BY <1>1 DEF CheckoutInv, OneOrderPerKey, Forward
<1>11. ThanksPageAddsUp' BY <1>1 DEF CheckoutInv, ThanksPageAddsUp, ThanksFee, Forward
<1> QED BY <1>2, <1>5, <1>6, <1>7, <1>8, <1>9, <1>10, <1>11 DEF CheckoutInv

(* A restart takes the calls and leaves their keys claimed.                *)
LEMMA CrashInv ==
    ASSUME CheckoutInv, CheckoutCrash
    PROVE  CheckoutInv'
<1>1. Forward /\ UNCHANGED <<payload, replies>> BY DEF CheckoutCrash, Forward, sales
<1>2. \A v \in Callers : call'[v] = NoCall BY DEF CheckoutCrash
<1>3. CheckoutTypeOK'
    <2>1. NoCall \in Call BY DEF NoCall, Call
    <2>2. call' \in [Callers -> Call] BY <2>1 DEF CheckoutCrash
    <2> QED BY <2>2 DEF CheckoutCrash, CheckoutInv, CheckoutTypeOK, Call, sales
<1>5. \A v \in Callers : CallOK(call[v])'  BY <1>2 DEF CallOK, HasOrder, NoCall
<1>6. PayloadBacked' BY <1>1, ForwardBacked DEF CheckoutInv, PayloadBacked
<1>7. RepliesBacked' BY <1>1, ForwardBacked DEF CheckoutInv, RepliesBacked
<1>8. KeysApart' BY <1>2 DEF KeysApart, NoCall
<1>9. OrdersKeyed' BY <1>1 DEF CheckoutInv, OrdersKeyed, Forward
<1>10. OneOrderPerKey' BY <1>1 DEF CheckoutInv, OneOrderPerKey, Forward
<1>11. ThanksPageAddsUp' BY <1>1 DEF CheckoutInv, ThanksPageAddsUp, ThanksFee, Forward
<1> QED BY <1>3, <1>5, <1>6, <1>7, <1>8, <1>9, <1>10, <1>11 DEF CheckoutInv

LEMMA StepInv ==
    ASSUME CheckoutInv, NEW w \in Callers, Step(w)
    PROVE  CheckoutInv'
<1>1. customers \subseteq Phones BY DEF CheckoutInv, CheckoutTypeOK
<1>2. CASE FindCustomer(w)
    <2> DEFINE pc == IF Request[call[w].k].phone \in customers THEN "resolve" ELSE "insert"
    <2>1. PICK p \in {"insert", "resolve"} : p = pc OBVIOUS
    <2>2. Goto(w, p) BY <1>2, <2>1 DEF FindCustomer
    <2> QED BY <1>1, <1>2, <2>2, GotoInv DEF FindCustomer
<1>3. CASE CreateCustomer(w)
    <2>1. call[w].k \in Keys BY <1>3 DEF CheckoutInv, CheckoutTypeOK, CallOK, CreateCustomer
    <2>2. Request[call[w].k].phone \in Phones
        BY <2>1, CheckoutAssumption DEF CheckoutInv, CheckoutRequest
    <2>3. customers' \subseteq Phones BY <1>1, <1>3, <2>2 DEF CreateCustomer
    <2>4. CASE End(w) BY <1>3, <2>3, <2>4, EndInv DEF CreateCustomer
    <2>5. CASE Goto(w, "resolve") BY <1>3, <2>3, <2>5, GotoInv DEF CreateCustomer
    <2> QED BY <1>3, <2>4, <2>5 DEF CreateCustomer
<1>4. CASE ResolveFails(w) BY <1>1, <1>4, EndInv DEF ResolveFails
<1>5. CASE CreateOrder(w) BY <1>5, CreateOrderInv
<1>6. CASE Confirm(w) BY <1>6, ConfirmInv
<1>7. CASE RequestPayment(w) BY <1>7, RequestPaymentInv
<1>8. CASE CreatePayment(w) BY <1>8, CreatePaymentInv
<1>9. CASE PaymentFails(w) BY <1>1, <1>9, EndInv DEF PaymentFails
<1>10. CASE StartCooking(w) BY <1>10, StartCookingInv
<1>11. CASE Save(w) BY <1>11, SaveInv
<1> QED BY <1>2, <1>3, <1>4, <1>5, <1>6, <1>7, <1>8, <1>9, <1>10, <1>11 DEF Step

LEMMA StutterInv ==
    ASSUME CheckoutInv, UNCHANGED checkoutVars
    PROVE  CheckoutInv'
BY DEF checkoutVars, sales, CheckoutInv, CheckoutTypeOK, CallOK, HasOrder,
       KeysApart, OrdersKeyed, OneOrderPerKey, PayloadBacked, RepliesBacked, Backed,
       ThanksPageAddsUp, ThanksFee

LEMMA InitInv ==
    ASSUME CheckoutInit
    PROVE  CheckoutInv
<1>1. CheckoutTypeOK BY DEF CheckoutInit, CheckoutTypeOK, NoCall, NoBill
<1>2. \A w \in Callers : CallOK(call[w]) BY DEF CheckoutInit, CallOK, HasOrder, NoCall
<1>3. KeysApart BY DEF CheckoutInit, KeysApart, NoCall
<1>4. OrdersKeyed /\ OneOrderPerKey BY DEF CheckoutInit, OrdersKeyed, OneOrderPerKey
<1>5. PayloadBacked /\ RepliesBacked BY DEF CheckoutInit, PayloadBacked, RepliesBacked
<1>6. ThanksPageAddsUp BY DEF CheckoutInit, ThanksPageAddsUp, ThanksFee, NoBill
<1> QED BY <1>1, <1>2, <1>3, <1>4, <1>5, <1>6 DEF CheckoutInv

(* The inductive invariant: the key a call claimed is its own until the    *)
(* call ends, and no order is created under a key that has one.            *)
THEOREM CheckoutInvariant == CheckoutSpec => []CheckoutInv
<1>1. CheckoutInit => CheckoutInv BY InitInv
<1>2. CheckoutInv /\ [CheckoutNext]_checkoutVars => CheckoutInv'
    <2> SUFFICES ASSUME CheckoutInv, [CheckoutNext]_checkoutVars PROVE CheckoutInv' OBVIOUS
    <2>1. ASSUME NEW w \in Callers, NEW k \in Keys, Claim(w, k) \/ Duplicate(w, k)
          PROVE  CheckoutInv'
        BY <2>1, ClaimInv, DuplicateInv
    <2>2. ASSUME NEW w \in Callers, Step(w) PROVE CheckoutInv' BY <2>2, StepInv
    <2>3. ASSUME NEW o \in Orders, StaffCancel(o) PROVE CheckoutInv' BY <2>3, StaffCancelInv
    <2>4. CASE CheckoutCrash BY <2>4, CrashInv
    <2>5. CASE UNCHANGED checkoutVars BY <2>5, StutterInv
    <2> QED BY <2>1, <2>2, <2>3, <2>4, <2>5 DEF CheckoutNext
<1> QED BY <1>1, <1>2, PTL DEF CheckoutSpec

(* Every state of the checkout is of its type.                             *)
THEOREM CheckoutTypeCorrect == CheckoutSpec => []CheckoutTypeOK
<1>1. CheckoutInv => CheckoutTypeOK BY DEF CheckoutInv
<1> QED BY <1>1, CheckoutInvariant, PTL

(* POST /api/orders: a key gets at most one order, however many calls      *)
(* carry it, wherever they fail and whenever the process restarts.         *)
THEOREM KeyHasOneOrder == CheckoutSpec => []OneOrderPerKey
<1>1. CheckoutInv => OneOrderPerKey BY DEF CheckoutInv
<1> QED BY <1>1, CheckoutInvariant, PTL

(* Every 200 of POST /api/orders, first or repeated, names the one order   *)
(* of its key, which the key keeps; a card order has its payment link and  *)
(* a cash order waits for no payment.  This needs no CONFIRM or            *)
(* REQUEST_PAYMENT to succeed.                                             *)
THEOREM RepliesAreBacked == CheckoutSpec => []ReplyIsBacked
<1>1. CheckoutInv => ReplyIsBacked
    BY DEF CheckoutInv, RepliesBacked, Backed, ReplyIsBacked, AsksPayment
<1> QED BY <1>1, CheckoutInvariant, PTL

(* compute_checkout_total and shop_thanks: for all prices, fees and        *)
(* promotions the fee the page derives is the fee charged, and no discount *)
(* exceeds the goods.                                                      *)
THEOREM ThanksAddsUp == CheckoutSpec => []ThanksPageAddsUp
<1>1. CheckoutInv => ThanksPageAddsUp BY DEF CheckoutInv
<1> QED BY <1>1, CheckoutInvariant, PTL

=============================================================================
