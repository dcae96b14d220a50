-------------------------- MODULE PaymentContract --------------------------
(***************************************************************************)
(* What PaymentService promises of a payment and an order, each of its     *)
(* commits one step: a notification is claimed once for its trace and      *)
(* outcome, the payment it names is settled together with the move of the  *)
(* trace's order, a payment is settled at most once unless several traces  *)
(* name it, and only a paid order is cooked.  Who notified whom, how often *)
(* and in which order, the locks and the restarts do not show.             *)
(*                                                                         *)
(* A trace is named by the payment it was made for.                        *)
(***************************************************************************)
EXTENDS Lifecycles

CONSTANTS Orders, NoOrder, Pays, Events

VARIABLES
    state,    \* of the order
    payFor,   \* the order a payment, and its trace, was started for
    record,   \* of the payment
    claims,   \* <<trace, outcome, payment>>: the notifications taken up
    steered   \* orders an event from elsewhere moved in a payment's stead

pvars == <<state, payFor, record, claims, steered>>

Begin ==
    /\ state \in [Orders -> {"DRAFT", "CONFIRMED"}]
    /\ payFor = [p \in Pays |-> NoOrder]
    /\ record = [p \in Pays |-> "ABSENT"]
    /\ claims = {}
    /\ steered = {}

(* The order waits for a payment, if it was not waiting for one.           *)
Awaiting(o) == [state EXCEPT ![o] = IF @ = "CONFIRMED" THEN "PAYMENT_PENDING" ELSE @]

(* A payment is started, by a checkout (which asks for it first) or later. *)
StartPayment(o, p) ==
    /\ payFor[p] = NoOrder
    /\ payFor' = [payFor EXCEPT ![p] = o]
    /\ state' \in {state, Awaiting(o)}
    /\ UNCHANGED <<record, claims, steered>>

(* Its row appears together with the order's REQUEST_PAYMENT.              *)
RecordPayment(p) ==
    /\ payFor[p] \in Orders /\ record[p] = "ABSENT"
    /\ record' = [record EXCEPT ![p] = "PENDING"]
    /\ state' = Awaiting(payFor[p])
    /\ UNCHANGED <<payFor, claims, steered>>

(* A notification about a recorded payment is taken up, the first of its   *)
(* trace and outcome.                                                      *)
Claim(c) ==
    /\ payFor[c[1]] \in Orders /\ record[c[3]] # "ABSENT"
    /\ \A d \in claims : ~(d[1] = c[1] /\ d[2] = c[2])
    /\ claims' = claims \cup {c}
    /\ UNCHANGED <<state, payFor, record, steered>>

Recorded(outcome) == IF outcome = "succeeded" THEN "SUCCESS" ELSE "FAILED"

(* Its trace is only claimed for the payment, and the payment under it.    *)
OwnClaims(p) == \A c \in claims : c[1] = p <=> c[3] = p

OnlyPayment(p) == \A q \in Pays \ {p} : payFor[q] # payFor[p]

(* A claimed notification settles its payment and moves its trace's order  *)
(* in one step.  A payment is settled once; only claims of several traces  *)
(* settle it again, the same way.  An order that waits for its only        *)
(* payment is not left behind when that is settled.                        *)
SettlePayment(q, outcome, p) ==
    /\ record[p] = "PENDING" \/ (record[p] = Recorded(outcome) /\ ~OwnClaims(p))
    /\ record' = [record EXCEPT ![p] = Recorded(outcome)]
    /\ \/ /\ state[payFor[q]] = "PAYMENT_PENDING"
          /\ state' = [state EXCEPT ![payFor[q]] =
                         IF outcome = "succeeded" THEN "PAID" ELSE "CONFIRMED"]
       \/ /\ (state[payFor[q]] = "PAYMENT_PENDING" /\ OwnClaims(p) /\ OnlyPayment(p))
                => payFor[p] \in steered
          /\ UNCHANGED state
    /\ UNCHANGED <<payFor, claims, steered>>

(* An order that was paid for goes to the kitchen.                         *)
CookPaid(o) ==
    /\ state[o] = "PAID"
    /\ \E c \in claims : payFor[c[1]] = o /\ c[2] = "succeeded" /\ record[c[3]] = "SUCCESS"
    /\ state' = [state EXCEPT ![o] = "COOKING"]
    /\ UNCHANGED <<payFor, record, claims, steered>>

(* An event that moves an order as only its checkout or a payment should.  *)
Steers(edge) ==
    \/ edge[2] \in {"CONFIRM", "PAYMENT_CONFIRMED", "PAYMENT_FAILED"}
    \/ edge[2] = "START_COOKING" /\ edge[1] = "CONFIRMED"

(* An event from elsewhere moves the order along its graph.                *)
OtherEvent(o, edge) ==
    /\ edge[2] \in Events /\ state[o] = edge[1]
    /\ state' = [state EXCEPT ![o] = edge[3]]
    /\ steered' = IF Steers(edge) THEN steered \cup {o} ELSE steered
    /\ UNCHANGED <<payFor, record, claims>>

Proceed ==
    /\ pvars' # pvars
    /\ \/ \E o \in Orders, p \in Pays : StartPayment(o, p)
       \/ \E p \in Pays : RecordPayment(p)
       \/ \E c \in claims' : Claim(c)
       \/ \E c \in claims : SettlePayment(c[1], c[2], c[3])
       \/ \E o \in Orders : CookPaid(o)
       \/ \E o \in Orders, edge \in ORDER_TRANSITIONS : OtherEvent(o, edge)

PaymentPromise == Begin /\ [][Proceed]_pvars

===========================================================================
