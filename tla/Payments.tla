----------------------------- MODULE Payments -----------------------------
(***************************************************************************)
(* PaymentService and the YooKassa webhook: how a payment is created at    *)
(* the provider and recorded, and how notifications, late, repeated or     *)
(* contradicting the provider's own record, settle the payment and an      *)
(* order.  A notification names a trace and a payment independently: the   *)
(* trace picks the order and the idempotency key, the payment the row.     *)
(* create_payment makes one trace for every payment, so a payment p also   *)
(* stands for the trace of its creation where a trace is meant.            *)
(*                                                                         *)
(* Order events from elsewhere (the events route, staff) and START_COOKING *)
(* are single steps here: OrderTx shows that its requests behave so.       *)
(***************************************************************************)
EXTENDS Lifecycles, Naturals, FiniteSets

CONSTANTS
    Orders,       \* card orders
    NoOrder,
    Pays,         \* payments the provider may create (bound)
    NoPay,
    Workers,      \* concurrent requests (bound)
    Bodies,       \* the <<trace, payment>> pairs the notifications name
    ApiEvents,    \* order events sent from outside PaymentService
    AckStops,     \* whether a 200 stops the provider from repeating a notification
    EarlyCancel,  \* whether the provider may cancel before create_payment has ended
    MayCrash      \* whether the server process may restart

ASSUME PaymentsAssumption ==
    /\ NoOrder \notin Orders
    /\ NoPay \notin Pays
    /\ Bodies \subseteq Pays \X Pays
    /\ ApiEvents \subseteq OrderEvent
    /\ AckStops \in BOOLEAN
    /\ EarlyCancel \in BOOLEAN
    /\ MayCrash \in BOOLEAN

VARIABLES
    order,     \* orders.state, committed
    remote,    \* the payment's status at the provider
    payOf,     \* the order a payment is for
    row,       \* payments.state, committed
    keys,      \* idempotency_keys: <<trace, outcome, payment in the payload>>
    traced,    \* traces the process has in memory
    handed,    \* payments whose confirmation link the customer got
    unsent,    \* settled payments whose notification was not yet answered 200
    checked,   \* orders whose checkout has called create_payment
    steered,   \* history: orders an event from outside moved as only a checkout
               \* or a payment should (see Steers)
    job        \* the requests in flight

vars == <<order, remote, payOf, row, keys, traced, handed, unsent, checked, steered, job>>

Outcome == {"succeeded", "canceled"}

PC == {"idle", "http", "insert", "upgrade", "pcommit",
       "verify", "key", "find", "settle", "lock", "wcommit", "cook"}

NoJob == [pc |-> "idle", o |-> NoOrder, p |-> NoPay, tr |-> NoPay, out |-> "none",
          from |-> "none", moved |-> FALSE]

Job == [pc : PC, o : Orders \cup {NoOrder}, p : Pays \cup {NoPay}, tr : Pays \cup {NoPay},
        out : Outcome \cup {"none"}, from : OrderState \cup {"none"}, moved : BOOLEAN]

PayTypeOK ==
    /\ order \in [Orders -> OrderState]
    /\ remote \in [Pays -> {"none", "pending"} \cup Outcome]
    /\ payOf \in [Pays -> Orders \cup {NoOrder}]
    /\ row \in [Pays -> {"ABSENT", "PENDING", "SUCCESS", "FAILED"}]
    /\ keys \subseteq Pays \X Outcome \X Pays
    /\ traced \subseteq Pays
    /\ handed \subseteq Pays
    /\ unsent \subseteq Pays
    /\ checked \subseteq Orders
    /\ steered \subseteq Orders
    /\ job \in [Workers -> Job]

(* A card order is CONFIRMED by its checkout, or still a DRAFT if that     *)
(* failed.                                                                 *)
Init ==
    /\ order \in [Orders -> {"DRAFT", "CONFIRMED"}]
    /\ remote = [p \in Pays |-> "none"]
    /\ payOf = [p \in Pays |-> NoOrder]
    /\ row = [p \in Pays |-> "ABSENT"]
    /\ keys = {}
    /\ traced = {}
    /\ handed = {}
    /\ unsent = {}
    /\ checked = {}
    /\ steered = {}
    /\ job = [w \in Workers |-> NoJob]

---------------------------------------------------------------------------
(* Row locks, by the step a request has reached.                           *)

(* FOR UPDATE on the order.                                                *)
HoldsRow(w, o) == job[w].o = o /\ job[w].pc \in {"pcommit", "wcommit"} /\ job[w].moved

(* KEY SHARE on the order, taken by the insert into payments.              *)
HoldsKey(w, o) == job[w].o = o /\ job[w].pc \in {"upgrade", "pcommit"}

(* The payment's row, taken by its UPDATE.                                 *)
HoldsPay(w, p) == job[w].p = p /\ job[w].pc \in {"lock", "wcommit"}

RowFree(w, o) == \A v \in Workers \ {w} : ~HoldsRow(v, o) /\ ~HoldsKey(v, o)

(* Two creations that both inserted their payment wait for each other to   *)
(* lock the order.                                                         *)
Deadlocked(w) ==
    job[w].pc = "upgrade" /\
    \E v \in Workers \ {w} : job[v].pc = "upgrade" /\ job[v].o = job[w].o

Goto(w, j) == job' = [job EXCEPT ![w] = j]

Edge(s, ev) == CHOOSE edge \in ORDER_TRANSITIONS : edge[1] = s /\ edge[2] = ev

---------------------------------------------------------------------------
(* create_payment.                                                         *)

(* The trace is recorded in memory and the provider called; p is the       *)
(* payment the provider will create for this call.                         *)
StartCreate(w, o, p) ==
    /\ job[w].pc = "idle"
    /\ p \notin traced /\ remote[p] = "none" /\ payOf[p] = NoOrder
    /\ \A v \in Workers : job[v].p # p
    /\ traced' = traced \cup {p}
    /\ payOf' = [payOf EXCEPT ![p] = o]
    /\ Goto(w, [NoJob EXCEPT !.pc = "http", !.o = o, !.p = p])
    /\ UNCHANGED <<remote, row, keys, handed, unsent, steered>>

(* pay_order: the order must be CONFIRMED, read in a session of its own.   *)
PayOrder(w, o, p) ==
    /\ order[o] = "CONFIRMED"
    /\ StartCreate(w, o, p)
    /\ UNCHANGED <<order, checked>>

(* checkout, card branch: REQUEST_PAYMENT (whether it fails is not looked  *)
(* at), then create_payment, once for an order.                            *)
CheckoutPay(w, o, p) ==
    /\ o \notin checked
    /\ RowFree(w, o)
    /\ checked' = checked \cup {o}
    /\ \/ order[o] = "CONFIRMED" /\ order' = [order EXCEPT ![o] = "PAYMENT_PENDING"]
       \/ UNCHANGED order
    /\ StartCreate(w, o, p)

(* YooKassaClient.create_payment returns.                                  *)
ProviderCreates(w) ==
    /\ job[w].pc = "http"
    /\ remote' = [remote EXCEPT ![job[w].p] = "pending"]
    /\ Goto(w, [job[w] EXCEPT !.pc = "insert"])
    /\ UNCHANGED <<order, payOf, row, keys, traced, handed, unsent, checked, steered>>

(* It raises: rejected, or the answer was lost after the provider created  *)
(* the payment.  Nothing is recorded.                                      *)
ProviderErrs(w) ==
    /\ job[w].pc = "http"
    /\ \/ UNCHANGED remote
       \/ remote' = [remote EXCEPT ![job[w].p] = "pending"]
    /\ Goto(w, NoJob)
    /\ UNCHANGED <<order, payOf, row, keys, traced, handed, unsent, checked, steered>>

(* repo.create inserts the PENDING row and the order's state is read; if   *)
(* REQUEST_PAYMENT is not allowed in it, nothing more is written.          *)
InsertPayment(w) ==
    /\ job[w].pc = "insert"
    /\ \A v \in Workers \ {w} : ~HoldsRow(v, job[w].o)
    /\ Goto(w, [job[w] EXCEPT
                  !.pc = IF "REQUEST_PAYMENT" \in Allowed(ORDER_TRANSITIONS, order[job[w].o])
                         THEN "upgrade" ELSE "pcommit",
                  !.from = order[job[w].o]])
    /\ UNCHANGED <<order, remote, payOf, row, keys, traced, handed, unsent, checked, steered>>

(* The program locks the order and checks that it is still in that state.  *)
RequestPayment(w) ==
    /\ job[w].pc = "upgrade" /\ RowFree(w, job[w].o)
    /\ Goto(w, [job[w] EXCEPT !.pc = "pcommit", !.moved = (order[job[w].o] = job[w].from)])
    /\ UNCHANGED <<order, remote, payOf, row, keys, traced, handed, unsent, checked, steered>>

(* The commit, whether the order moved or not; the link is handed out.     *)
CommitPayment(w) ==
    /\ job[w].pc = "pcommit"
    /\ row' = [row EXCEPT ![job[w].p] = "PENDING"]
    /\ order' = [order EXCEPT ![job[w].o] = IF job[w].moved THEN "PAYMENT_PENDING" ELSE @]
    /\ handed' = handed \cup {job[w].p}
    /\ Goto(w, NoJob)
    /\ UNCHANGED <<remote, payOf, keys, traced, unsent, checked, steered>>

(* PostgreSQL aborts a transaction of the lock cycle.  The program fails,  *)
(* which create_payment only logs; committing an aborted transaction rolls *)
(* it back without an error, and the link is handed out all the same.      *)
AbortPayment(w) ==
    /\ Deadlocked(w)
    /\ handed' = handed \cup {job[w].p}
    /\ Goto(w, NoJob)
    /\ UNCHANGED <<order, remote, payOf, row, keys, traced, unsent, checked, steered>>

---------------------------------------------------------------------------
(* The provider.                                                           *)

(* A payment the customer can reach is captured, canceled or expires, and  *)
(* one the customer cannot reach may be canceled; a notification is then   *)
(* due.                                                                    *)
ProviderSettles(p, out) ==
    /\ remote[p] = "pending"
    /\ p \in handed \/ (EarlyCancel /\ out = "canceled")
    /\ remote' = [remote EXCEPT ![p] = out]
    /\ unsent' = unsent \cup {p}
    /\ UNCHANGED <<order, payOf, row, keys, traced, handed, checked, steered, job>>

(* What the provider need not repeat once its notification of p was        *)
(* answered 200.                                                           *)
Acked(p) == IF AckStops THEN {p} ELSE {}

(* The webhook receives a body with trace q, payment p and an outcome: any *)
(* of them, any number of times.  One whose trace is not in memory is      *)
(* answered 200 and dropped.                                               *)
Webhook(w, q, p, out) ==
    /\ <<q, p>> \in Bodies
    /\ job[w].pc = "idle"
    /\ remote[p] # "none"
    /\ IF q \in traced
       THEN /\ Goto(w, [NoJob EXCEPT !.pc = "verify", !.o = payOf[q], !.p = p, !.tr = q, !.out = out])
            /\ UNCHANGED unsent
       ELSE /\ q = p /\ out = remote[p] /\ unsent' = unsent \ Acked(p)
            /\ UNCHANGED job
    /\ UNCHANGED <<order, remote, payOf, row, keys, traced, handed, checked, steered>>

(* The request is answered 200: if the body was the provider's own, it     *)
(* will not be repeated.                                                   *)
Answer(w) ==
    /\ Goto(w, NoJob)
    /\ unsent' = IF job[w].tr = job[w].p /\ job[w].out = remote[job[w].p]
                 THEN unsent \ Acked(job[w].p) ELSE unsent

(* A slip of verify_provider_payment: the notification is believed.        *)
BelievingVerified(w) == row[job[w].p] # "ABSENT"

(* verify_provider_payment: a local row, and the provider's own status.    *)
(* Whose payment it is, is not compared with the trace's order.            *)
Verified(w) == row[job[w].p] # "ABSENT" /\ remote[job[w].p] = job[w].out

VerifyProviderPayment(w) ==
    /\ job[w].pc = "verify"
    /\ IF Verified(w)
       THEN Goto(w, [job[w] EXCEPT !.pc = "key"]) /\ UNCHANGED unsent
       ELSE Answer(w)
    /\ UNCHANGED <<order, remote, payOf, row, keys, traced, handed, checked, steered>>

(* A slip of the webhook: 200 although the provider could not be asked.    *)
SilentVerifyErrs(w) ==
    /\ job[w].pc = "verify"
    /\ Answer(w)
    /\ UNCHANGED <<order, remote, payOf, row, keys, traced, handed, checked, steered>>

(* The provider cannot be asked: 502, and it will repeat the notification. *)
VerifyErrs(w) ==
    /\ job[w].pc = "verify"
    /\ Goto(w, NoJob)
    /\ UNCHANGED <<order, remote, payOf, row, keys, traced, handed, unsent, checked, steered>>

---------------------------------------------------------------------------
(* confirm_payment (succeeded) and fail_payment (canceled).                *)

(* The idempotency key, of the trace and the outcome, is recorded and      *)
(* committed before anything is done; the payment is only in its payload.  *)
RecordKey(w) ==
    /\ job[w].pc = "key"
    /\ IF \E k \in keys : k[1] = job[w].tr /\ k[2] = job[w].out
       THEN Answer(w) /\ UNCHANGED keys
       ELSE /\ keys' = keys \cup {<<job[w].tr, job[w].out, job[w].p>>}
            /\ Goto(w, [job[w] EXCEPT !.pc = "find"]) /\ UNCHANGED unsent
    /\ UNCHANGED <<order, remote, payOf, row, traced, handed, checked, steered>>

(* The payment is looked up; one already settled ends the request.         *)
FindPayment(w) ==
    /\ job[w].pc = "find"
    /\ IF \/ row[job[w].p] \in {"ABSENT", "SUCCESS"}
          \/ row[job[w].p] = "FAILED" /\ job[w].out = "canceled"
       THEN Answer(w)
       ELSE Goto(w, [job[w] EXCEPT !.pc = "settle"]) /\ UNCHANGED unsent
    /\ UNCHANGED <<order, remote, payOf, row, keys, traced, handed, checked, steered>>

(* A slip of fail_payment: it sends the event of confirm_payment.          *)
SameSettleEvent(w) == "PAYMENT_CONFIRMED"

(* The order event of each outcome.                                        *)
SettleEvent(w) == IF job[w].out = "succeeded" THEN "PAYMENT_CONFIRMED" ELSE "PAYMENT_FAILED"

(* A slip of both: only the payment's row is written.                      *)
LonelyWritePayment(w) ==
    /\ job[w].pc = "settle"
    /\ \A v \in Workers \ {w} : ~HoldsPay(v, job[w].p)
    /\ Goto(w, [job[w] EXCEPT !.pc = "wcommit"])
    /\ UNCHANGED <<order, remote, payOf, row, keys, traced, handed, unsent, checked, steered>>

(* The row is updated, then the order's state read; if it does not allow   *)
(* the event there is only the row to commit.                              *)
WritePayment(w) ==
    /\ job[w].pc = "settle"
    /\ \A v \in Workers \ {w} : ~HoldsPay(v, job[w].p)
    /\ Goto(w, [job[w] EXCEPT
                  !.pc = IF SettleEvent(w) \in Allowed(ORDER_TRANSITIONS, order[job[w].o])
                         THEN "lock" ELSE "wcommit",
                  !.from = order[job[w].o]])
    /\ UNCHANGED <<order, remote, payOf, row, keys, traced, handed, unsent, checked, steered>>

(* A slip of transition_order_state: no re-check under the lock.           *)
StaleLockOrder(w) ==
    /\ job[w].pc = "lock" /\ RowFree(w, job[w].o)
    /\ Goto(w, [job[w] EXCEPT !.pc = "wcommit", !.moved = TRUE])
    /\ UNCHANGED <<order, remote, payOf, row, keys, traced, handed, unsent, checked, steered>>

(* The program locks the order and checks that it is still in that state.  *)
LockOrder(w) ==
    /\ job[w].pc = "lock" /\ RowFree(w, job[w].o)
    /\ Goto(w, [job[w] EXCEPT !.pc = "wcommit", !.moved = (order[job[w].o] = job[w].from)])
    /\ UNCHANGED <<order, remote, payOf, row, keys, traced, handed, unsent, checked, steered>>

(* A slip of write_state: the provider's status is stored as it came.      *)
RawCommitSettlement(w) ==
    /\ job[w].pc = "wcommit"
    /\ row' = [row EXCEPT ![job[w].p] = job[w].out]
    /\ Answer(w)
    /\ UNCHANGED <<order, remote, payOf, keys, traced, handed, checked, steered>>

(* The commit, whether the order moved or not.  A confirmed order goes on  *)
(* to the kitchen in the same request.                                     *)
CommitSettlement(w) ==
    /\ job[w].pc = "wcommit"
    /\ row' = [row EXCEPT ![job[w].p] = IF job[w].out = "succeeded" THEN "SUCCESS" ELSE "FAILED"]
    /\ order' = [order EXCEPT ![job[w].o] =
                   IF job[w].moved THEN Edge(job[w].from, SettleEvent(w))[3] ELSE @]
    /\ IF job[w].moved /\ job[w].out = "succeeded"
       THEN Goto(w, [job[w] EXCEPT !.pc = "cook"]) /\ UNCHANGED unsent
       ELSE Answer(w)
    /\ UNCHANGED <<remote, payOf, keys, traced, handed, checked, steered>>

(* START_COOKING on the paid order; a failure (the order is cancelled, or  *)
(* a deadlock with another order's reservation) is only logged.            *)
StartCooking(w) ==
    /\ job[w].pc = "cook"
    /\ RowFree(w, job[w].o)
    /\ \/ /\ order[job[w].o] \in {"PAID", "CONFIRMED"}
          /\ order' = [order EXCEPT ![job[w].o] = "COOKING"]
       \/ UNCHANGED order
    /\ Answer(w)
    /\ UNCHANGED <<remote, payOf, row, keys, traced, handed, checked, steered>>

---------------------------------------------------------------------------
(* The events route and staff send any event the order's state allows.     *)
(* These take an order where otherwise its checkout (CONFIRM) or a payment *)
(* takes it.                                                               *)
Steers(edge) ==
    \/ edge[2] \in {"CONFIRM", "PAYMENT_CONFIRMED", "PAYMENT_FAILED"}
    \/ edge[2] = "START_COOKING" /\ edge[1] = "CONFIRMED"

(* An order event from the events route or from staff.                     *)
ApiEvent(o, edge) ==
    /\ edge[2] \in ApiEvents
    /\ order[o] = edge[1]
    /\ \A v \in Workers : ~HoldsRow(v, o) /\ ~HoldsKey(v, o)
    /\ order' = [order EXCEPT ![o] = edge[3]]
    /\ steered' = IF Steers(edge) THEN steered \cup {o} ELSE steered
    /\ UNCHANGED <<remote, payOf, row, keys, traced, handed, unsent, checked, job>>

(* The server process restarts: open transactions are rolled back and the  *)
(* traces in memory are gone; rows and keys stay.                          *)
Crash ==
    /\ MayCrash
    /\ traced' = {}
    /\ job' = [w \in Workers |-> NoJob]
    /\ UNCHANGED <<order, remote, payOf, row, keys, handed, unsent, checked, steered>>

(* The steps a request takes by itself.                                    *)
Step(w) ==
    \/ ProviderCreates(w) \/ ProviderErrs(w) \/ InsertPayment(w) \/ RequestPayment(w)
    \/ CommitPayment(w) \/ AbortPayment(w)
    \/ VerifyProviderPayment(w) \/ VerifyErrs(w) \/ RecordKey(w) \/ FindPayment(w)
    \/ WritePayment(w) \/ LockOrder(w) \/ CommitSettlement(w) \/ StartCooking(w)

Next ==
    \/ \E w \in Workers, o \in Orders, p \in Pays : PayOrder(w, o, p) \/ CheckoutPay(w, o, p)
    \/ \E w \in Workers, q, p \in Pays, out \in Outcome : Webhook(w, q, p, out)
    \/ \E p \in Pays, out \in Outcome : ProviderSettles(p, out)
    \/ \E o \in Orders, edge \in ORDER_TRANSITIONS : ApiEvent(o, edge)
    \/ \E w \in Workers : Step(w)
    \/ Crash

Spec == Init /\ [][Next]_vars

(* Requests go on and get the row locks they queue for; the provider       *)
(* repeats its own notification until it is answered 200, and its API,     *)
(* asked about it again and again, eventually answers.                     *)
FairSpec ==
    /\ Spec
    /\ \A w \in Workers : SF_vars(Step(w))
    /\ \A p \in Pays :
          /\ SF_vars(p \in unsent /\ \E w \in Workers : Webhook(w, p, p, remote[p]))
          /\ SF_vars(\E w \in Workers :
                        /\ job[w].p = p /\ job[w].tr = p
                        /\ Verified(w) /\ VerifyProviderPayment(w))

---------------------------------------------------------------------------
(* Whatever notifications arrive, a payment is recorded SUCCESS only if    *)
(* the provider captured it and FAILED only if the provider canceled it.   *)
OutcomeMatchesProvider ==
    \A p \in Pays :
        /\ row[p] = "SUCCESS" => remote[p] = "succeeded"
        /\ row[p] = "FAILED" => remote[p] = "canceled"

(* The keys show no body that named p together with another's trace, or    *)
(* p's trace together with another payment.                                *)
Matched(p) == \A k \in keys : k[1] = p <=> k[3] = p

(* A card order that is PAID or further, and that no event from outside    *)
(* steered there, was confirmed under the trace of a payment of its own,   *)
(* by a body whose payment was captured and is recorded SUCCESS: the same  *)
(* payment, unless the body named another.                                 *)
PaidOnlyIfCharged ==
    \A o \in Orders \ steered :
        order[o] \in {"PAID"} \cup CookedStates =>
            \E k \in keys :
                /\ payOf[k[1]] = o /\ k[2] = "succeeded"
                /\ row[k[3]] = "SUCCESS"

(* A settled payment stays as it is, whatever requests race on it.         *)
SettledIsFinal ==
    [][\A p \in Pays : row[p] \in {"SUCCESS", "FAILED"} => row'[p] = row[p]]_vars

(* Recording the capture of an order's only payment takes the order out of *)
(* PAYMENT_PENDING and CONFIRMED for good, whatever restarts and cancels   *)
(* intervene: the row and the order's move are committed together.  (A     *)
(* body that names another's trace moves the order of that trace.)         *)
CaptureMovesOrder ==
    \A p \in Pays :
        (/\ row[p] = "SUCCESS" /\ Matched(p)
         /\ payOf[p] \notin steered
         /\ \A q \in Pays \ {p} : payOf[q] # payOf[p])
            => order[payOf[p]] \notin {"CONFIRMED", "PAYMENT_PENDING"}

(* When no restart intervenes and notifications are the provider's own     *)
(* (Bodies pairs each trace with its payment), a recorded payment the      *)
(* provider captured is eventually recorded SUCCESS, notifications lost,   *)
(* repeated or untrue.                                                     *)
CaptureIsRecorded ==
    \A p \in Pays : (remote[p] = "succeeded" /\ row[p] # "ABSENT") ~> (row[p] = "SUCCESS")

(* Under the same conditions an order leaves PAYMENT_PENDING once every    *)
(* payment that was made for it is recorded and settled.                   *)
PendingEnds ==
    \A o \in Orders :
        (/\ order[o] = "PAYMENT_PENDING"
         /\ \E p \in Pays : payOf[p] = o
         /\ \A p \in Pays : payOf[p] = o => row[p] # "ABSENT" /\ remote[p] \in Outcome)
        ~> order[o] # "PAYMENT_PENDING"

(* A payment whose link a customer holds is recorded here.                 *)
HandedIsRecorded == \A p \in handed : row[p] # "ABSENT"

---------------------------------------------------------------------------
(* The tables implement the contract in which a notification is claimed    *)
(* once and a payment and the order of its trace move together: a commit   *)
(* is the contract's step, everything else a stutter.                      *)
Promise == INSTANCE PaymentContract WITH
    Events <- ApiEvents, state <- order, payFor <- payOf, record <- row, claims <- keys

(* The promise of PaymentService, for any bodies, events and restarts.     *)
ImplementsPayments == Promise!PaymentPromise

===========================================================================
