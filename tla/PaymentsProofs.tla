--------------------------- MODULE PaymentsProofs ---------------------------
(***************************************************************************)
(* What PaymentService and the webhook keep, for any number of orders,     *)
(* payments and concurrent requests: whatever trace, payment and outcome   *)
(* the notifications name, however often and in whatever order they        *)
(* arrive, whichever events the orders get from elsewhere, and whenever    *)
(* the process restarts.                                                   *)
(***************************************************************************)
EXTENDS Payments, TLAPS

(* A request of create_payment whose payment is not committed yet.         *)
Creating(t) == t.pc \in {"http", "insert", "upgrade", "pcommit"}

(* A notification that the provider's own record has confirmed.            *)
Trusted(t) == t.pc \in {"key", "find", "settle", "lock", "wcommit", "cook"}

(* A request of the webhook: its order is the one of its trace, whichever  *)
(* payment it names.                                                       *)
Notified(t) == t.pc = "verify" \/ Trusted(t)

(* What is known of a request at each step.  An order locked with FOR      *)
(* UPDATE or KEY SHARE stays in the state that was read.                   *)
JobOK(t) ==
    /\ t.pc = "idle" => t = NoJob
    /\ t.pc # "idle" => t.p \in Pays /\ t.o \in Orders
    /\ Creating(t) => row[t.p] = "ABSENT" /\ payOf[t.p] = t.o
    /\ t.pc = "http" => remote[t.p] = "none"
    /\ Notified(t) => t.out \in Outcome /\ t.tr \in Pays /\ payOf[t.tr] = t.o
    /\ Trusted(t) => row[t.p] # "ABSENT" /\ remote[t.p] = t.out
    /\ t.moved => t.pc \in {"pcommit", "wcommit", "cook"}
    /\ t.pc = "upgrade" => t.from = "CONFIRMED"
    /\ t.pc = "pcommit" => (t.moved <=> t.from = "CONFIRMED")
    /\ t.pc \in {"upgrade", "pcommit"} => order[t.o] = t.from
    /\ t.pc = "lock" => t.from = "PAYMENT_PENDING"
    /\ (t.pc = "wcommit" /\ t.moved) => t.from = "PAYMENT_PENDING" /\ order[t.o] = t.from
    /\ t.pc = "cook" => row[t.p] = "SUCCESS"

(* FOR UPDATE excludes every other lock on the order.                      *)
LocksApart ==
    \A v, w \in Workers : \A o \in Orders :
        (v # w /\ HoldsRow(w, o)) => ~HoldsRow(v, o) /\ ~HoldsKey(v, o)

(* The provider creates another payment for every call.                    *)
CreatorsApart ==
    \A v, w \in Workers :
        (v # w /\ Creating(job[v]) /\ Creating(job[w])) => job[v].p # job[w].p

(* A payment the provider, the table or a trace knows was made for an      *)
(* order.                                                                  *)
PaysKnown ==
    \A p \in Pays :
        (remote[p] # "none" \/ row[p] # "ABSENT" \/ p \in traced) => payOf[p] \in Orders

PayInv ==
    /\ PayTypeOK
    /\ \A w \in Workers : JobOK(job[w])
    /\ LocksApart
    /\ CreatorsApart
    /\ PaysKnown
    /\ OutcomeMatchesProvider

(* A notification that has recorded its idempotency key and may settle.    *)
Settling(t) == t.pc \in {"find", "settle", "lock", "wcommit"}

(* The key admits one request per trace and outcome, ever.                 *)
KeysApart ==
    /\ \A k, l \in keys : (k[1] = l[1] /\ k[2] = l[2]) => k = l
    /\ \A v, w \in Workers :
          (v # w /\ Settling(job[v]) /\ Settling(job[w]))
              => job[v].tr # job[w].tr \/ job[v].out # job[w].out

(* A request past its key owns it, and a key has the outcome of a payment  *)
(* that is recorded.                                                       *)
KeysOwned ==
    /\ \A w \in Workers :
          (Settling(job[w]) \/ job[w].pc = "cook") => <<job[w].tr, job[w].out, job[w].p>> \in keys
    /\ \A k \in keys : row[k[3]] # "ABSENT" /\ remote[k[3]] = k[2]

(* A settled payment has a key, and a payment that was only ever named     *)
(* with its own trace (Matched) is PENDING for the one request that may    *)
(* settle it.                                                              *)
SettlersAlone ==
    /\ \A p \in Pays :
          row[p] \in {"SUCCESS", "FAILED"} => \E k \in keys : k[3] = p /\ k[2] = remote[p]
    /\ \A w \in Workers :
          (Settling(job[w]) /\ Matched(job[w].p)) => row[job[w].p] = "PENDING"
    /\ \A v, w \in Workers :
          (v # w /\ Settling(job[v]) /\ Settling(job[w]) /\ job[v].p = job[w].p)
              => ~Matched(job[v].p)

KeysOK == KeysApart /\ KeysOwned /\ SettlersAlone

(* An order that a request is about to send to the kitchen was paid for.   *)
CooksPaid == \A w \in Workers :
    job[w].pc = "cook" => order[job[w].o] \notin {"DRAFT", "CONFIRMED", "PAYMENT_PENDING"}

(* The only payment that was ever started for its order.                   *)
LonePay(p) == payOf[p] \in Orders /\ \A q \in Pays \ {p} : payOf[q] # payOf[p]

(* An order with one payment left CONFIRMED when the payment was recorded, *)
(* and is settled once an outcome is about to be recorded without a move.  *)
LonePayOK(p) ==
    /\ row[p] \in {"PENDING", "SUCCESS"} => order[payOf[p]] # "CONFIRMED"
    /\ row[p] = "SUCCESS" => order[payOf[p]] # "PAYMENT_PENDING"
    /\ \A w \in Workers :
          (job[w].p = p /\ job[w].pc = "wcommit" /\ ~job[w].moved)
              => order[payOf[p]] \notin {"CONFIRMED", "PAYMENT_PENDING"}

(* ... unless a body named it with another's trace, or an event from       *)
(* outside steered the order.                                              *)
LonePaysOK ==
    \A p \in Pays : (LonePay(p) /\ Matched(p) /\ payOf[p] \notin steered) => LonePayOK(p)

---------------------------------------------------------------------------
(* The only states that accept the events of PaymentService.               *)
LEMMA PaymentEdges ==
    /\ \A s : "REQUEST_PAYMENT" \in Allowed(ORDER_TRANSITIONS, s) <=> s = "CONFIRMED"
    /\ \A s : "PAYMENT_CONFIRMED" \in Allowed(ORDER_TRANSITIONS, s) <=> s = "PAYMENT_PENDING"
    /\ \A s : "PAYMENT_FAILED" \in Allowed(ORDER_TRANSITIONS, s) <=> s = "PAYMENT_PENDING"
    /\ Edge("PAYMENT_PENDING", "PAYMENT_CONFIRMED")[3] = "PAID"
    /\ Edge("PAYMENT_PENDING", "PAYMENT_FAILED")[3] = "CONFIRMED"
<1>1. \A s, ev : ev \in Allowed(ORDER_TRANSITIONS, s)
                   <=> \E edge \in ORDER_TRANSITIONS : edge[1] = s /\ edge[2] = ev
    BY DEF Allowed
<1>2. \A s : (\E edge \in ORDER_TRANSITIONS : edge[1] = s /\ edge[2] = "REQUEST_PAYMENT")
                <=> s = "CONFIRMED"
    BY DEF ORDER_TRANSITIONS
<1>3. \A s : (\E edge \in ORDER_TRANSITIONS : edge[1] = s /\ edge[2] = "PAYMENT_CONFIRMED")
                <=> s = "PAYMENT_PENDING"
    BY DEF ORDER_TRANSITIONS
<1>4. \A s : (\E edge \in ORDER_TRANSITIONS : edge[1] = s /\ edge[2] = "PAYMENT_FAILED")
                <=> s = "PAYMENT_PENDING"
    BY DEF ORDER_TRANSITIONS
<1>5. \A s, ev : (\E edge \in ORDER_TRANSITIONS : edge[1] = s /\ edge[2] = ev) =>
                /\ Edge(s, ev) \in ORDER_TRANSITIONS
                /\ Edge(s, ev)[1] = s /\ Edge(s, ev)[2] = ev
    BY DEF Edge
<1>6. Edge("PAYMENT_PENDING", "PAYMENT_CONFIRMED")[3] = "PAID"
    <2>1. PICK e \in ORDER_TRANSITIONS :
            /\ e = Edge("PAYMENT_PENDING", "PAYMENT_CONFIRMED")
            /\ e[1] = "PAYMENT_PENDING" /\ e[2] = "PAYMENT_CONFIRMED"
        BY <1>3, <1>5
    <2>2. e[3] = "PAID" BY <2>1 DEF ORDER_TRANSITIONS
    <2> QED BY <2>1, <2>2
<1>7. Edge("PAYMENT_PENDING", "PAYMENT_FAILED")[3] = "CONFIRMED"
    <2>1. PICK e \in ORDER_TRANSITIONS :
            /\ e = Edge("PAYMENT_PENDING", "PAYMENT_FAILED")
            /\ e[1] = "PAYMENT_PENDING" /\ e[2] = "PAYMENT_FAILED"
        BY <1>4, <1>5
    <2>2. e[3] = "CONFIRMED" BY <2>1 DEF ORDER_TRANSITIONS
    <2> QED BY <2>1, <2>2
<1> QED BY <1>1, <1>2, <1>3, <1>4, <1>6, <1>7

(* A step of others that leaves alone what request v relies on.            *)
Spares(v) ==
    /\ job'[v] = job[v]
    /\ Creating(job[v]) => payOf'[job[v].p] = payOf[job[v].p] /\ row'[job[v].p] = row[job[v].p]
    /\ Notified(job[v]) => payOf'[job[v].tr] = payOf[job[v].tr]
    /\ job[v].pc = "http" => remote'[job[v].p] = remote[job[v].p]
    /\ Trusted(job[v]) =>
          /\ remote'[job[v].p] = remote[job[v].p]
          /\ row'[job[v].p] # "ABSENT"
          /\ row[job[v].p] = "SUCCESS" => row'[job[v].p] = "SUCCESS"
    /\ (job[v].pc \in {"upgrade", "pcommit"} \/ (job[v].pc = "wcommit" /\ job[v].moved)) =>
          order'[job[v].o] = order[job[v].o]

LEMMA SparedOK ==
    ASSUME PayInv, NEW v \in Workers, Spares(v)
    PROVE  JobOK(job[v])'
<1>1. JobOK(job[v]) BY DEF PayInv
<1>2. job'[v] = job[v] BY DEF Spares
<1> QED BY <1>1, <1>2 DEF Spares, JobOK, Creating, Notified, Trusted

(* A step of request w that spares the others, takes a lock only when it   *)
(* is free and starts a creation only with a new payment.                  *)
LEMMA TableStepInv ==
    ASSUME PayInv, NEW w \in Workers, PayTypeOK',
           \A v \in Workers \ {w} : Spares(v),
           JobOK(job[w])',
           \/ Creating(job'[w]) => Creating(job[w]) /\ job'[w].p = job[w].p
           \/ \A v \in Workers \ {w} : job[v].p # job'[w].p,
           \A o \in Orders : HoldsRow(w, o)' => HoldsRow(w, o) \/ RowFree(w, o),
           \A o \in Orders : HoldsKey(w, o)' =>
                HoldsKey(w, o) \/ \A v \in Workers \ {w} : ~HoldsRow(v, o),
           PaysKnown', OutcomeMatchesProvider'
    PROVE  PayInv'
<1>1. \A v \in Workers \ {w} : job'[v] = job[v] BY DEF Spares
<1>2. \A v \in Workers : JobOK(job[v])'
    <2> TAKE v \in Workers
    <2>1. CASE v = w BY <2>1
    <2>2. CASE v # w BY <2>2, SparedOK
    <2> QED BY <2>1, <2>2
<1>3. LocksApart'
    <2>1. LocksApart BY DEF PayInv
    <2>2. \A v \in Workers \ {w}, o \in Orders :
            (HoldsRow(v, o)' <=> HoldsRow(v, o)) /\ (HoldsKey(v, o)' <=> HoldsKey(v, o))
        BY <1>1 DEF HoldsRow, HoldsKey
    <2> SUFFICES ASSUME NEW u \in Workers, NEW v \in Workers, NEW o \in Orders, u # v, HoldsRow(v, o)'
                 PROVE  ~HoldsRow(u, o)' /\ ~HoldsKey(u, o)'
        BY DEF LocksApart
    <2>3. CASE v = w BY <2>1, <2>2, <2>3 DEF LocksApart, RowFree
    <2>4. CASE u = w /\ v # w
        <3>1. HoldsRow(v, o) BY <2>2, <2>4
        <3>2. ~HoldsRow(w, o) /\ ~HoldsKey(w, o) BY <2>1, <2>4, <3>1 DEF LocksApart
        <3> QED BY <2>4, <3>1, <3>2 DEF RowFree
    <2>5. CASE u # w /\ v # w BY <2>1, <2>2, <2>5 DEF LocksApart
    <2> QED BY <2>3, <2>4, <2>5
<1>4. CreatorsApart'
    <2>1. \A v \in Workers \ {w} : Creating(job'[v]) <=> Creating(job[v]) BY <1>1
    <2> QED BY <1>1, <2>1 DEF PayInv, CreatorsApart
<1> QED BY <1>2, <1>3, <1>4 DEF PayInv

(* A step of the provider or of another request that spares all.           *)
LEMMA SparingInv ==
    ASSUME PayInv, PayTypeOK', \A v \in Workers : Spares(v),
           PaysKnown', OutcomeMatchesProvider'
    PROVE  PayInv'
<1>1. \A v \in Workers : job'[v] = job[v] BY DEF Spares
<1>2. \A v \in Workers : JobOK(job[v])' BY SparedOK
<1>3. LocksApart' BY <1>1 DEF PayInv, LocksApart, HoldsRow, HoldsKey
<1>4. CreatorsApart' BY <1>1 DEF PayInv, CreatorsApart, Creating
<1> QED BY <1>2, <1>3, <1>4 DEF PayInv

(* A step in which only request w goes on and the tables the requests rely *)
(* on stay as they are.                                                    *)
LEMMA JobStepInv ==
    ASSUME PayInv, NEW w \in Workers, PayTypeOK',
           UNCHANGED <<order, remote, payOf, row, traced>>,
           job' = [job EXCEPT ![w] = job'[w]],
           JobOK(job[w])',
           Creating(job'[w]) => Creating(job[w]) /\ job'[w].p = job[w].p,
           \A o \in Orders : HoldsRow(w, o)' => HoldsRow(w, o) \/ RowFree(w, o),
           \A o \in Orders : HoldsKey(w, o)' =>
                HoldsKey(w, o) \/ \A v \in Workers \ {w} : ~HoldsRow(v, o)
    PROVE  PayInv'
<1>1. \A v \in Workers \ {w} : job'[v] = job[v] BY DEF PayInv, PayTypeOK
<1>2. \A v \in Workers \ {w} : Spares(v) BY <1>1 DEF PayInv, Spares, JobOK
<1>3. PaysKnown' /\ OutcomeMatchesProvider'
    BY DEF PayInv, PaysKnown, OutcomeMatchesProvider
<1> QED BY <1>2, <1>3, TableStepInv

---------------------------------------------------------------------------
LEMMA NoJobFields ==
    /\ NoJob \in Job
    /\ NoJob.pc = "idle" /\ NoJob.o = NoOrder /\ NoJob.p = NoPay /\ ~NoJob.moved
BY DEF NoJob, Job, PC

LEMMA GotoFields ==
    ASSUME PayTypeOK, NEW w \in Workers, NEW t, Goto(w, t)
    PROVE  /\ job'[w] = t
           /\ \A v \in Workers \ {w} : job'[v] = job[v]
           /\ job' = [job EXCEPT ![w] = job'[w]]
           /\ t \in Job => job' \in [Workers -> Job]
BY DEF Goto, PayTypeOK

(* The request ends; a transaction it had open is rolled back.             *)
LEMMA EndInv ==
    ASSUME PayInv, NEW w \in Workers, Goto(w, NoJob),
           UNCHANGED <<order, remote, payOf, row, keys, traced, checked, steered>>,
           handed' \subseteq Pays, unsent' \subseteq Pays
    PROVE  PayInv'
<1>1. PayTypeOK BY DEF PayInv
<1>2. /\ job'[w] = NoJob /\ job' = [job EXCEPT ![w] = job'[w]]
      /\ job' \in [Workers -> Job]
    BY <1>1, GotoFields, NoJobFields
<1>3. PayTypeOK' BY <1>1, <1>2 DEF PayTypeOK
<1>4. JobOK(job[w])' BY <1>2, NoJobFields DEF JobOK, Creating, Notified, Trusted
<1>5. \A o : ~HoldsRow(w, o)' /\ ~HoldsKey(w, o)' BY <1>2, NoJobFields DEF HoldsRow, HoldsKey
<1>6. ~Creating(job'[w]) BY <1>2, NoJobFields DEF Creating
<1> QED BY <1>2, <1>3, <1>4, <1>5, <1>6, JobStepInv

LEMMA AnswerInv ==
    ASSUME PayInv, NEW w \in Workers, Answer(w),
           UNCHANGED <<order, remote, payOf, row, keys, traced, handed, checked, steered>>
    PROVE  PayInv'
<1>1. handed' \subseteq Pays /\ unsent' \subseteq Pays BY DEF PayInv, PayTypeOK, Answer
<1> QED BY <1>1, EndInv DEF Answer

(* A notification goes on to the next step, the tables as they were.       *)
LEMMA ServeInv ==
    ASSUME PayInv, NEW w \in Workers,
           job[w].pc \in {"verify", "key", "find"},
           Trusted(job[w]) \/ Verified(w),
           NEW pc \in {"key", "find", "settle"}, Goto(w, [job[w] EXCEPT !.pc = pc]),
           keys' \subseteq Pays \X Outcome \X Pays,
           UNCHANGED <<order, remote, payOf, row, traced, handed, unsent, checked, steered>>
    PROVE  PayInv'
<1>1. PayTypeOK /\ JobOK(job[w]) /\ job[w] \in Job BY DEF PayInv, PayTypeOK
<1> DEFINE t == [job[w] EXCEPT !.pc = pc]
<1>2. /\ t \in Job /\ t.pc = pc /\ t.o = job[w].o /\ t.p = job[w].p /\ t.tr = job[w].tr
      /\ t.out = job[w].out /\ t.moved = job[w].moved
    BY <1>1 DEF Job, PC
<1>3. Goto(w, t) OBVIOUS
<1> HIDE DEF t
<1>4. job'[w] = t /\ job' = [job EXCEPT ![w] = job'[w]] /\ job' \in [Workers -> Job]
    BY <1>1, <1>2, <1>3, GotoFields
<1>5. PayTypeOK' BY <1>1, <1>4 DEF PayTypeOK
<1>6. JobOK(job[w])' BY <1>1, <1>2, <1>4 DEF JobOK, Creating, Notified, Trusted, Verified
<1>7. ~Creating(job'[w]) /\ \A o : ~HoldsRow(w, o)' /\ ~HoldsKey(w, o)'
    BY <1>2, <1>4 DEF Creating, HoldsRow, HoldsKey
<1> QED BY <1>4, <1>5, <1>6, <1>7, JobStepInv

(* The webhook: the order is the one the trace was made for.               *)
LEMMA WebhookInv ==
    ASSUME PayInv, NEW w \in Workers, NEW q \in Pays, NEW p \in Pays, NEW out \in Outcome, Webhook(w, q, p, out)
    PROVE  PayInv'
<1>1. PayTypeOK /\ JobOK(job[w]) BY DEF PayInv
<1>2. CASE q \in traced
    <2> DEFINE t == [NoJob EXCEPT !.pc = "verify", !.o = payOf[q], !.p = p, !.tr = q, !.out = out]
    <2>1. payOf[q] \in Orders BY <1>2 DEF PayInv, PaysKnown
    <2>2. /\ t \in Job /\ t.pc = "verify" /\ t.o = payOf[q] /\ t.p = p /\ t.tr = q
          /\ t.out = out /\ ~t.moved
        BY <2>1 DEF NoJob, Job, PC
    <2>3. Goto(w, t) BY <1>2 DEF Webhook
    <2> HIDE DEF t
    <2>4. job'[w] = t /\ job' = [job EXCEPT ![w] = job'[w]] /\ job' \in [Workers -> Job]
        BY <1>1, <2>2, <2>3, GotoFields
    <2>5. UNCHANGED <<order, remote, payOf, row, keys, traced, handed, unsent, checked, steered>>
        BY <1>2 DEF Webhook
    <2>6. PayTypeOK' BY <1>1, <2>4, <2>5 DEF PayTypeOK
    <2>7. JobOK(job[w])' BY <2>1, <2>2, <2>4, <2>5 DEF JobOK, Creating, Notified, Trusted
    <2>8. ~Creating(job'[w]) /\ \A o : ~HoldsRow(w, o)' /\ ~HoldsKey(w, o)'
        BY <2>2, <2>4 DEF Creating, HoldsRow, HoldsKey
    <2> QED BY <2>4, <2>5, <2>6, <2>7, <2>8, JobStepInv
<1>3. CASE q \notin traced
    <2>1. UNCHANGED <<order, remote, payOf, row, keys, traced, handed, checked, steered, job>> /\ unsent' \subseteq Pays
        BY <1>1, <1>3 DEF Webhook, PayTypeOK
    <2>2. PayTypeOK' BY <1>1, <2>1 DEF PayTypeOK
    <2>3. JobOK(job[w])' BY <1>1, <2>1 DEF JobOK, Creating, Notified, Trusted
    <2>4. \A o : (HoldsRow(w, o)' <=> HoldsRow(w, o)) /\ (HoldsKey(w, o)' <=> HoldsKey(w, o))
        BY <2>1 DEF HoldsRow, HoldsKey
    <2>5. job' = [job EXCEPT ![w] = job'[w]] BY <1>1, <2>1 DEF PayTypeOK
    <2> QED BY <2>1, <2>2, <2>3, <2>4, <2>5, JobStepInv
<1> QED BY <1>2, <1>3

LEMMA VerifyInv ==
    ASSUME PayInv, NEW w \in Workers, VerifyProviderPayment(w)
    PROVE  PayInv'
<1>1. CASE ~Verified(w) BY <1>1, AnswerInv DEF VerifyProviderPayment
<1>2. CASE Verified(w)
    <2>1. Goto(w, [job[w] EXCEPT !.pc = "key"]) /\ UNCHANGED unsent /\ job[w].pc = "verify"
        BY <1>2 DEF VerifyProviderPayment
    <2>2. keys' \subseteq Pays \X Outcome \X Pays BY DEF PayInv, PayTypeOK, VerifyProviderPayment
    <2> QED BY <1>2, <2>1, <2>2, ServeInv DEF VerifyProviderPayment
<1> QED BY <1>1, <1>2

LEMMA RecordKeyInv ==
    ASSUME PayInv, NEW w \in Workers, RecordKey(w)
    PROVE  PayInv'
<1>1. CASE Answer(w) /\ UNCHANGED keys BY <1>1, AnswerInv DEF RecordKey
<1>2. CASE ~(Answer(w) /\ UNCHANGED keys)
    <2>1. /\ Goto(w, [job[w] EXCEPT !.pc = "find"]) /\ UNCHANGED unsent
          /\ job[w].pc = "key" /\ keys' = keys \cup {<<job[w].tr, job[w].out, job[w].p>>}
        BY <1>2 DEF RecordKey
    <2>2. job[w].p \in Pays /\ job[w].tr \in Pays /\ job[w].out \in Outcome
        BY <2>1 DEF PayInv, JobOK, Notified, Trusted
    <2>3. keys' \subseteq Pays \X Outcome \X Pays BY <2>1, <2>2 DEF PayInv, PayTypeOK
    <2>4. Trusted(job[w]) BY <2>1 DEF Trusted
    <2> QED BY <2>1, <2>3, <2>4, ServeInv DEF RecordKey
<1> QED BY <1>1, <1>2

LEMMA FindPaymentInv ==
    ASSUME PayInv, NEW w \in Workers, FindPayment(w)
    PROVE  PayInv'
<1>1. CASE Answer(w) BY <1>1, AnswerInv DEF FindPayment
<1>2. CASE Goto(w, [job[w] EXCEPT !.pc = "settle"]) /\ UNCHANGED unsent
    <2>1. keys' \subseteq Pays \X Outcome \X Pays BY DEF PayInv, PayTypeOK, FindPayment
    <2>2. Trusted(job[w]) /\ job[w].pc = "find" BY DEF Trusted, FindPayment
    <2> QED BY <1>2, <2>1, <2>2, ServeInv DEF FindPayment
<1> QED BY <1>1, <1>2 DEF FindPayment

(* The order's state is read: only PAYMENT_PENDING accepts the event.      *)
LEMMA WritePaymentInv ==
    ASSUME PayInv, NEW w \in Workers, WritePayment(w)
    PROVE  PayInv'
<1>1. PayTypeOK /\ JobOK(job[w]) /\ job[w] \in Job /\ job[w].pc = "settle"
    BY DEF PayInv, PayTypeOK, WritePayment
<1>2. job[w].o \in Orders /\ order[job[w].o] \in OrderState BY <1>1 DEF JobOK, PayTypeOK
<1> DEFINE pc == IF SettleEvent(w) \in Allowed(ORDER_TRANSITIONS, order[job[w].o])
                 THEN "lock" ELSE "wcommit"
           t == [job[w] EXCEPT !.pc = pc, !.from = order[job[w].o]]
<1>3. pc \in {"lock", "wcommit"} /\ (pc = "lock" => order[job[w].o] = "PAYMENT_PENDING")
    BY PaymentEdges DEF SettleEvent
<1>4. Goto(w, t) BY DEF WritePayment
<1> HIDE DEF pc
<1>5. /\ t \in Job /\ t.pc = pc /\ t.from = order[job[w].o] /\ t.o = job[w].o /\ t.p = job[w].p /\ t.tr = job[w].tr
      /\ t.out = job[w].out /\ t.moved = job[w].moved
    BY <1>1, <1>2, <1>3 DEF Job, PC
<1> HIDE DEF t
<1>6. job'[w] = t /\ job' = [job EXCEPT ![w] = job'[w]] /\ job' \in [Workers -> Job]
    BY <1>1, <1>4, <1>5, GotoFields
<1>7. UNCHANGED <<order, remote, payOf, row, keys, traced, handed, unsent, checked, steered>> BY DEF WritePayment
<1>8. PayTypeOK' BY <1>1, <1>6, <1>7 DEF PayTypeOK
<1>9. ~t.moved BY <1>1, <1>5 DEF JobOK
<1>10. JobOK(job[w])' BY <1>1, <1>3, <1>5, <1>6, <1>7, <1>9 DEF JobOK, Creating, Notified, Trusted
<1>11. ~Creating(job'[w]) /\ \A o : ~HoldsRow(w, o)' /\ ~HoldsKey(w, o)'
    BY <1>3, <1>5, <1>6, <1>9 DEF Creating, HoldsRow, HoldsKey
<1> QED BY <1>6, <1>7, <1>8, <1>10, <1>11, JobStepInv

LEMMA LockOrderInv ==
    ASSUME PayInv, NEW w \in Workers, LockOrder(w)
    PROVE  PayInv'
<1>1. PayTypeOK /\ JobOK(job[w]) /\ job[w] \in Job /\ job[w].pc = "lock" /\ RowFree(w, job[w].o)
    BY DEF PayInv, PayTypeOK, LockOrder
<1> DEFINE t == [job[w] EXCEPT !.pc = "wcommit", !.moved = (order[job[w].o] = job[w].from)]
<1>2. Goto(w, t) BY DEF LockOrder
<1>3. /\ t \in Job /\ t.pc = "wcommit" /\ t.from = job[w].from /\ t.o = job[w].o /\ t.p = job[w].p /\ t.tr = job[w].tr
      /\ t.out = job[w].out /\ t.moved = (order[job[w].o] = job[w].from)
    BY <1>1 DEF Job, PC
<1> HIDE DEF t
<1>4. job'[w] = t /\ job' = [job EXCEPT ![w] = job'[w]] /\ job' \in [Workers -> Job]
    BY <1>1, <1>2, <1>3, GotoFields
<1>5. UNCHANGED <<order, remote, payOf, row, keys, traced, handed, unsent, checked, steered>> BY DEF LockOrder
<1>6. PayTypeOK' BY <1>1, <1>4, <1>5 DEF PayTypeOK
<1>7. JobOK(job[w])' BY <1>1, <1>3, <1>4, <1>5 DEF JobOK, Creating, Notified, Trusted
<1>8. ~Creating(job'[w]) /\ \A o : ~HoldsKey(w, o)' BY <1>3, <1>4 DEF Creating, HoldsKey
<1>9. \A o \in Orders : HoldsRow(w, o)' => RowFree(w, o) BY <1>1, <1>3, <1>4 DEF HoldsRow
<1> QED BY <1>4, <1>5, <1>6, <1>7, <1>8, <1>9, JobStepInv

(* The insert takes KEY SHARE on the order and reads its state.            *)
LEMMA InsertPaymentInv ==
    ASSUME PayInv, NEW w \in Workers, InsertPayment(w)
    PROVE  PayInv'
<1>1. PayTypeOK /\ JobOK(job[w]) /\ job[w] \in Job /\ job[w].pc = "insert"
    BY DEF PayInv, PayTypeOK, InsertPayment
<1>2. job[w].o \in Orders /\ order[job[w].o] \in OrderState BY <1>1 DEF JobOK, PayTypeOK
<1> DEFINE pc == IF "REQUEST_PAYMENT" \in Allowed(ORDER_TRANSITIONS, order[job[w].o])
                 THEN "upgrade" ELSE "pcommit"
           t == [job[w] EXCEPT !.pc = pc, !.from = order[job[w].o]]
<1>3. /\ pc \in {"upgrade", "pcommit"}
      /\ pc = "upgrade" <=> order[job[w].o] = "CONFIRMED"
    BY PaymentEdges
<1>4. Goto(w, t) BY DEF InsertPayment
<1> HIDE DEF pc
<1>5. /\ t \in Job /\ t.pc = pc /\ t.from = order[job[w].o] /\ t.o = job[w].o /\ t.p = job[w].p /\ t.tr = job[w].tr
      /\ t.out = job[w].out /\ t.moved = job[w].moved
    BY <1>1, <1>2, <1>3 DEF Job, PC
<1> HIDE DEF t
<1>6. job'[w] = t /\ job' = [job EXCEPT ![w] = job'[w]] /\ job' \in [Workers -> Job]
    BY <1>1, <1>4, <1>5, GotoFields
<1>7. UNCHANGED <<order, remote, payOf, row, keys, traced, handed, unsent, checked, steered>> BY DEF InsertPayment
<1>8. PayTypeOK' BY <1>1, <1>6, <1>7 DEF PayTypeOK
<1>9. ~t.moved BY <1>1, <1>5 DEF JobOK
<1>10. JobOK(job[w])' BY <1>1, <1>3, <1>5, <1>6, <1>7, <1>9 DEF JobOK, Creating, Notified, Trusted
<1>11. Creating(job[w]) /\ job'[w].p = job[w].p BY <1>1, <1>5, <1>6 DEF Creating
<1>12. \A o : ~HoldsRow(w, o)' BY <1>5, <1>6, <1>9 DEF HoldsRow
<1>13. \A o \in Orders : HoldsKey(w, o)' => \A v \in Workers \ {w} : ~HoldsRow(v, o)
    BY <1>5, <1>6 DEF HoldsKey, InsertPayment
<1> QED BY <1>6, <1>7, <1>8, <1>10, <1>11, <1>12, <1>13, JobStepInv

(* The state read at the insert is still the order's: nobody could lock it *)
(* meanwhile.                                                              *)
LEMMA RequestPaymentInv ==
    ASSUME PayInv, NEW w \in Workers, RequestPayment(w)
    PROVE  PayInv'
<1>1. PayTypeOK /\ JobOK(job[w]) /\ job[w] \in Job /\ job[w].pc = "upgrade" /\ RowFree(w, job[w].o)
    BY DEF PayInv, PayTypeOK, RequestPayment
<1> DEFINE t == [job[w] EXCEPT !.pc = "pcommit", !.moved = (order[job[w].o] = job[w].from)]
<1>2. Goto(w, t) BY DEF RequestPayment
<1>3. /\ t \in Job /\ t.pc = "pcommit" /\ t.from = job[w].from /\ t.o = job[w].o /\ t.p = job[w].p /\ t.tr = job[w].tr
      /\ t.out = job[w].out /\ t.moved = (order[job[w].o] = job[w].from)
    BY <1>1 DEF Job, PC
<1> HIDE DEF t
<1>4. job'[w] = t /\ job' = [job EXCEPT ![w] = job'[w]] /\ job' \in [Workers -> Job]
    BY <1>1, <1>2, <1>3, GotoFields
<1>5. UNCHANGED <<order, remote, payOf, row, keys, traced, handed, unsent, checked, steered>> BY DEF RequestPayment
<1>6. PayTypeOK' BY <1>1, <1>4, <1>5 DEF PayTypeOK
<1>7. JobOK(job[w])' BY <1>1, <1>3, <1>4, <1>5 DEF JobOK, Creating, Notified, Trusted
<1>8. Creating(job[w]) /\ job'[w].p = job[w].p BY <1>1, <1>3, <1>4 DEF Creating
<1>9. \A o \in Orders : HoldsRow(w, o)' => RowFree(w, o) BY <1>1, <1>3, <1>4 DEF HoldsRow
<1>10. \A o \in Orders : HoldsKey(w, o)' => HoldsKey(w, o) BY <1>1, <1>3, <1>4 DEF HoldsKey
<1> QED BY <1>4, <1>5, <1>6, <1>7, <1>8, <1>9, <1>10, JobStepInv

---------------------------------------------------------------------------
(* create_payment starts with a payment nobody knows of.                   *)
LEMMA StartCreateInv ==
    ASSUME PayInv, NEW w \in Workers, NEW o \in Orders, NEW p \in Pays, StartCreate(w, o, p),
           order' \in [Orders -> OrderState], checked' \subseteq Orders,
           \A q \in Orders : order'[q] = order[q] \/ RowFree(w, q)
    PROVE  PayInv'
<1>1. PayTypeOK /\ PaysKnown BY DEF PayInv
<1> DEFINE t == [NoJob EXCEPT !.pc = "http", !.o = o, !.p = p]
<1>2. /\ t \in Job /\ t.pc = "http" /\ t.o = o /\ t.p = p /\ ~t.moved
    BY DEF NoJob, Job, PC
<1>3. Goto(w, t) BY DEF StartCreate
<1> HIDE DEF t
<1>4. /\ job'[w] = t /\ job' \in [Workers -> Job]
      /\ \A v \in Workers \ {w} : job'[v] = job[v]
    BY <1>1, <1>2, <1>3, GotoFields
<1>5. /\ payOf' = [payOf EXCEPT ![p] = o] /\ payOf[p] = NoOrder /\ remote[p] = "none"
      /\ \A v \in Workers : job[v].p # p
      /\ traced' = traced \cup {p}
      /\ UNCHANGED <<remote, row, keys, handed, unsent, steered>>
    BY DEF StartCreate
<1>6. row[p] = "ABSENT" BY <1>1, <1>5, PaymentsAssumption DEF PaysKnown
<1>7. payOf'[p] = o /\ \A q \in Pays : q # p => payOf'[q] = payOf[q] BY <1>1, <1>5 DEF PayTypeOK
<1>8. PayTypeOK' BY <1>1, <1>4, <1>5 DEF PayTypeOK
<1>9. \A v \in Workers \ {w} : Spares(v)
    <2> TAKE v \in Workers \ {w}
    <2>1. JobOK(job[v]) BY DEF PayInv
    <2>2. /\ Creating(job[v]) => payOf'[job[v].p] = payOf[job[v].p]
          /\ Notified(job[v]) => payOf'[job[v].tr] = payOf[job[v].tr]
        BY <1>5, <1>7, <2>1, PaymentsAssumption DEF JobOK, Creating, Notified, Trusted
    <2>3. (job[v].pc \in {"upgrade", "pcommit"} \/ (job[v].pc = "wcommit" /\ job[v].moved)) =>
            order'[job[v].o] = order[job[v].o]
        BY <2>1 DEF JobOK, RowFree, HoldsRow, HoldsKey
    <2> QED BY <1>4, <1>5, <2>1, <2>2, <2>3 DEF Spares, JobOK, Creating, Notified, Trusted
<1>10. JobOK(job[w])' BY <1>2, <1>4, <1>5, <1>6, <1>7 DEF JobOK, Creating, Notified, Trusted
<1>11. \A q : ~HoldsRow(w, q)' /\ ~HoldsKey(w, q)' BY <1>2, <1>4 DEF HoldsRow, HoldsKey
<1>12. PaysKnown' BY <1>1, <1>5, <1>7 DEF PaysKnown
<1>13. OutcomeMatchesProvider' BY <1>5 DEF PayInv, OutcomeMatchesProvider
<1> QED BY <1>2, <1>4, <1>5, <1>8, <1>9, <1>10, <1>11, <1>12, <1>13, TableStepInv

LEMMA PayOrderInv ==
    ASSUME PayInv, NEW w \in Workers, NEW o \in Orders, NEW p \in Pays, PayOrder(w, o, p)
    PROVE  PayInv'
<1>1. order' \in [Orders -> OrderState] /\ checked' \subseteq Orders
    BY DEF PayInv, PayTypeOK, PayOrder
<1> QED BY <1>1, StartCreateInv DEF PayOrder

LEMMA CheckoutPayInv ==
    ASSUME PayInv, NEW w \in Workers, NEW o \in Orders, NEW p \in Pays, CheckoutPay(w, o, p)
    PROVE  PayInv'
<1>1. order' \in [Orders -> OrderState] /\ checked' \subseteq Orders
    BY DEF PayInv, PayTypeOK, CheckoutPay, OrderState
<1>2. \A q \in Orders : order'[q] = order[q] \/ RowFree(w, q) BY DEF PayInv, PayTypeOK, CheckoutPay
<1> QED BY <1>1, <1>2, StartCreateInv DEF CheckoutPay

(* The provider creates the payment, whether its answer arrives or not.    *)
LEMMA ProviderAnswersInv ==
    ASSUME PayInv, NEW w \in Workers, ProviderCreates(w) \/ ProviderErrs(w)
    PROVE  PayInv'
<1>1. PayTypeOK /\ JobOK(job[w]) /\ job[w] \in Job /\ job[w].pc = "http"
    BY DEF PayInv, PayTypeOK, ProviderCreates, ProviderErrs
<1>2. /\ UNCHANGED <<order, payOf, row, keys, traced, handed, unsent, checked, steered>>
      /\ UNCHANGED remote \/ remote' = [remote EXCEPT ![job[w].p] = "pending"]
    BY DEF ProviderCreates, ProviderErrs
<1>3. job[w].p \in Pays /\ remote[job[w].p] = "none" /\ payOf[job[w].p] \in Orders
    BY <1>1 DEF JobOK, Creating
<1>4. \A q \in Pays : q # job[w].p => remote'[q] = remote[q] BY <1>1, <1>2 DEF PayTypeOK
<1>5. remote' \in [Pays -> {"none", "pending"} \cup Outcome] BY <1>1, <1>2 DEF PayTypeOK
<1>6. /\ job' \in [Workers -> Job]
      /\ \A v \in Workers \ {w} : job'[v] = job[v]
      /\ JobOK(job[w])'
      /\ Creating(job'[w]) => Creating(job[w]) /\ job'[w].p = job[w].p
      /\ \A o : ~HoldsRow(w, o)' /\ ~HoldsKey(w, o)'
    <2>1. CASE ProviderErrs(w)
        <3>1. Goto(w, NoJob) BY <2>1 DEF ProviderErrs
        <3>2. job'[w] = NoJob /\ job' \in [Workers -> Job] /\ \A v \in Workers \ {w} : job'[v] = job[v]
            BY <1>1, <3>1, GotoFields, NoJobFields
        <3> QED BY <3>2, NoJobFields DEF JobOK, Creating, Notified, Trusted, HoldsRow, HoldsKey
    <2>2. CASE ProviderCreates(w)
        <3> DEFINE t == [job[w] EXCEPT !.pc = "insert"]
        <3>1. Goto(w, t) BY <2>2 DEF ProviderCreates
        <3>2. /\ t \in Job /\ t.pc = "insert" /\ t.o = job[w].o /\ t.p = job[w].p /\ t.moved = job[w].moved
            BY <1>1 DEF Job, PC
        <3> HIDE DEF t
        <3>3. job'[w] = t /\ job' \in [Workers -> Job] /\ \A v \in Workers \ {w} : job'[v] = job[v]
            BY <1>1, <3>1, <3>2, GotoFields
        <3>4. JobOK(job[w])' BY <1>1, <1>2, <3>2, <3>3 DEF JobOK, Creating, Notified, Trusted
        <3> QED BY <1>1, <3>2, <3>3, <3>4 DEF Creating, HoldsRow, HoldsKey
    <2> QED BY <2>1, <2>2
<1>7. PayTypeOK' BY <1>1, <1>2, <1>5, <1>6 DEF PayTypeOK
<1>8. \A v \in Workers \ {w} : Spares(v)
    <2> TAKE v \in Workers \ {w}
    <2>1. JobOK(job[v]) BY DEF PayInv
    <2>2. Creating(job[v]) => job[v].p # job[w].p BY <1>1 DEF PayInv, CreatorsApart, Creating
    <2>3. Trusted(job[v]) => job[v].p # job[w].p BY <1>3, <2>1 DEF JobOK, Outcome, Notified
    <2>4. job[v].pc # "idle" => job[v].p \in Pays BY <2>1 DEF JobOK
    <2>5. job[v].pc = "http" => Creating(job[v]) BY DEF Creating
    <2>6. Trusted(job[v]) => job[v].pc # "idle" BY DEF Trusted
    <2> QED BY <1>2, <1>4, <1>6, <2>1, <2>2, <2>3, <2>4, <2>5, <2>6 DEF Spares, JobOK, Creating, Notified, Trusted
<1>9. PaysKnown' BY <1>2, <1>3, <1>4 DEF PayInv, PaysKnown
<1>11. OutcomeMatchesProvider' BY <1>2, <1>3, <1>4 DEF PayInv, OutcomeMatchesProvider
<1> QED BY <1>6, <1>7, <1>8, <1>9, <1>11, TableStepInv

LEMMA ProviderSettlesInv ==
    ASSUME PayInv, NEW p \in Pays, NEW out \in Outcome, ProviderSettles(p, out)
    PROVE  PayInv'
<1>1. PayTypeOK /\ remote[p] = "pending" BY DEF PayInv, ProviderSettles
<1>2. /\ UNCHANGED <<order, payOf, row, keys, traced, handed, checked, steered, job>>
      /\ remote' = [remote EXCEPT ![p] = out] /\ unsent' = unsent \cup {p}
    BY DEF ProviderSettles
<1>3. PayTypeOK' BY <1>1, <1>2 DEF PayTypeOK
<1>4. remote'[p] = out /\ \A q \in Pays : q # p => remote'[q] = remote[q] BY <1>1, <1>2 DEF PayTypeOK
<1>5. \A v \in Workers : Spares(v)
    <2> TAKE v \in Workers
    <2>1. JobOK(job[v]) BY DEF PayInv
    <2>2. job[v].pc = "http" => job[v].p # p BY <1>1, <2>1 DEF JobOK
    <2>3. Trusted(job[v]) => job[v].p # p /\ job[v].pc # "idle" BY <1>1, <2>1 DEF JobOK, Outcome, Notified, Trusted
    <2>4. job[v].pc # "idle" => job[v].p \in Pays BY <2>1 DEF JobOK
    <2> QED BY <1>2, <1>4, <2>1, <2>2, <2>3, <2>4 DEF Spares, JobOK, Creating, Notified, Trusted
<1>6. PaysKnown' BY <1>1, <1>2, <1>4 DEF PayInv, PaysKnown
<1>8. OutcomeMatchesProvider' BY <1>1, <1>2, <1>4 DEF PayInv, OutcomeMatchesProvider
<1> QED BY <1>3, <1>5, <1>6, <1>8, SparingInv

(* The payment's row appears together with the order's move.               *)
LEMMA CommitPaymentInv ==
    ASSUME PayInv, NEW w \in Workers, CommitPayment(w)
    PROVE  PayInv'
<1>1. PayTypeOK /\ JobOK(job[w]) /\ job[w].pc = "pcommit" BY DEF PayInv, CommitPayment
<1>2. /\ row' = [row EXCEPT ![job[w].p] = "PENDING"]
      /\ order' = [order EXCEPT ![job[w].o] = IF job[w].moved THEN "PAYMENT_PENDING" ELSE @]
      /\ handed' = handed \cup {job[w].p}
      /\ Goto(w, NoJob)
      /\ UNCHANGED <<remote, payOf, keys, traced, unsent, checked, steered>>
    BY DEF CommitPayment
<1>3. /\ job[w].p \in Pays /\ job[w].o \in Orders /\ payOf[job[w].p] = job[w].o
      /\ row[job[w].p] = "ABSENT"
    BY <1>1 DEF JobOK, Creating
<1>4. job'[w] = NoJob /\ job' \in [Workers -> Job] /\ \A v \in Workers \ {w} : job'[v] = job[v]
    BY <1>1, <1>2, GotoFields, NoJobFields
<1>5. row'[job[w].p] = "PENDING" /\ \A q \in Pays : q # job[w].p => row'[q] = row[q]
    BY <1>1, <1>2, <1>3 DEF PayTypeOK
<1>6. \A o \in Orders : order'[o] = order[o] \/ (o = job[w].o /\ job[w].moved /\ order'[o] = "PAYMENT_PENDING")
    BY <1>1, <1>2, <1>3 DEF PayTypeOK
<1>7. PayTypeOK' BY <1>1, <1>2, <1>3, <1>4 DEF PayTypeOK, OrderState
<1>8. \A v \in Workers \ {w} : Spares(v)
    <2> TAKE v \in Workers \ {w}
    <2>1. JobOK(job[v]) BY DEF PayInv
    <2>2. Creating(job[v]) => job[v].p # job[w].p /\ job[v].pc # "idle"
        BY <1>1 DEF PayInv, CreatorsApart, Creating
    <2>3. Trusted(job[v]) => job[v].p # job[w].p /\ job[v].pc # "idle" BY <1>3, <2>1 DEF JobOK, Trusted
    <2>4. job[v].pc # "idle" => job[v].p \in Pays /\ job[v].o \in Orders BY <2>1 DEF JobOK
    <2>5. (job[v].pc \in {"upgrade", "pcommit"} \/ (job[v].pc = "wcommit" /\ job[v].moved)) =>
            order'[job[v].o] = order[job[v].o]
        <3>1. job[w].moved => HoldsRow(w, job[w].o) BY <1>1 DEF HoldsRow
        <3>2. job[w].moved => ~HoldsRow(v, job[w].o) /\ ~HoldsKey(v, job[w].o)
            BY <1>3, <3>1 DEF PayInv, LocksApart
        <3> QED BY <1>6, <2>4, <3>2 DEF HoldsRow, HoldsKey
    <2> QED BY <1>2, <1>4, <1>5, <2>1, <2>2, <2>3, <2>4, <2>5 DEF Spares, JobOK, Creating, Notified, Trusted
<1>9. JobOK(job[w])' BY <1>4, NoJobFields DEF JobOK, Creating, Notified, Trusted
<1>10. ~Creating(job'[w]) /\ \A o : ~HoldsRow(w, o)' /\ ~HoldsKey(w, o)'
    BY <1>4, NoJobFields DEF Creating, HoldsRow, HoldsKey
<1>11. PaysKnown' BY <1>2, <1>3, <1>5 DEF PayInv, PaysKnown
<1>13. OutcomeMatchesProvider' BY <1>2, <1>5 DEF PayInv, OutcomeMatchesProvider
<1> QED BY <1>7, <1>8, <1>9, <1>10, <1>11, <1>13, TableStepInv

(* What the commit of a settlement writes: the provider's outcome into the *)
(* row, and PAID or CONFIRMED into an order that was locked.               *)
LEMMA SettlementWrites ==
    ASSUME PayInv, NEW w \in Workers, CommitSettlement(w)
    PROVE  /\ job[w].p \in Pays /\ job[w].o \in Orders
           /\ job[w].tr \in Pays /\ payOf[job[w].tr] = job[w].o
           /\ job[w].out \in Outcome /\ remote[job[w].p] = job[w].out /\ row[job[w].p] # "ABSENT"
           /\ row'[job[w].p] = IF job[w].out = "succeeded" THEN "SUCCESS" ELSE "FAILED"
           /\ \A q \in Pays : q # job[w].p => row'[q] = row[q]
           /\ row' \in [Pays -> {"ABSENT", "PENDING", "SUCCESS", "FAILED"}]
           /\ order'[job[w].o] = IF ~job[w].moved THEN order[job[w].o]
                                 ELSE IF job[w].out = "succeeded" THEN "PAID" ELSE "CONFIRMED"
           /\ \A o \in Orders : o # job[w].o => order'[o] = order[o]
           /\ order' \in [Orders -> OrderState]
           /\ job[w].moved => HoldsRow(w, job[w].o)
<1>1. PayTypeOK /\ JobOK(job[w]) /\ job[w].pc = "wcommit" BY DEF PayInv, CommitSettlement
<1>2. /\ row' = [row EXCEPT ![job[w].p] = IF job[w].out = "succeeded" THEN "SUCCESS" ELSE "FAILED"]
      /\ order' = [order EXCEPT ![job[w].o] =
                     IF job[w].moved THEN Edge(job[w].from, SettleEvent(w))[3] ELSE @]
    BY DEF CommitSettlement
<1>3. /\ job[w].p \in Pays /\ job[w].o \in Orders
      /\ job[w].tr \in Pays /\ payOf[job[w].tr] = job[w].o
      /\ job[w].out \in Outcome /\ remote[job[w].p] = job[w].out /\ row[job[w].p] # "ABSENT"
      /\ job[w].moved => job[w].from = "PAYMENT_PENDING"
    BY <1>1 DEF JobOK, Notified, Trusted
<1>4. job[w].moved => Edge(job[w].from, SettleEvent(w))[3] = IF job[w].out = "succeeded" THEN "PAID" ELSE "CONFIRMED"
    BY <1>3, PaymentEdges DEF SettleEvent
<1>5. /\ row'[job[w].p] = IF job[w].out = "succeeded" THEN "SUCCESS" ELSE "FAILED"
      /\ \A q \in Pays : q # job[w].p => row'[q] = row[q]
      /\ row' \in [Pays -> {"ABSENT", "PENDING", "SUCCESS", "FAILED"}]
    BY <1>1, <1>2, <1>3 DEF PayTypeOK
<1>6. /\ order'[job[w].o] = IF ~job[w].moved THEN order[job[w].o]
                            ELSE IF job[w].out = "succeeded" THEN "PAID" ELSE "CONFIRMED"
      /\ \A o \in Orders : o # job[w].o => order'[o] = order[o]
      /\ order' \in [Orders -> OrderState]
    BY <1>1, <1>2, <1>3, <1>4 DEF PayTypeOK, OrderState
<1>7. job[w].moved => HoldsRow(w, job[w].o) BY <1>1 DEF HoldsRow
<1> QED BY <1>3, <1>5, <1>6, <1>7

LEMMA CommitSettlementInv ==
    ASSUME PayInv, NEW w \in Workers, CommitSettlement(w)
    PROVE  PayInv'
<1> DEFINE p == job[w].p
           o == job[w].o
<1>1. /\ p \in Pays /\ o \in Orders /\ job[w].tr \in Pays /\ payOf[job[w].tr] = o
      /\ job[w].out \in Outcome /\ remote[p] = job[w].out /\ row[p] # "ABSENT"
      /\ row'[p] = IF job[w].out = "succeeded" THEN "SUCCESS" ELSE "FAILED"
      /\ \A q \in Pays : q # p => row'[q] = row[q]
      /\ row' \in [Pays -> {"ABSENT", "PENDING", "SUCCESS", "FAILED"}]
      /\ order'[o] = IF ~job[w].moved THEN order[o]
                      ELSE IF job[w].out = "succeeded" THEN "PAID" ELSE "CONFIRMED"
      /\ \A q \in Orders : q # o => order'[q] = order[q]
      /\ order' \in [Orders -> OrderState]
      /\ job[w].moved => HoldsRow(w, o)
    BY SettlementWrites
<1>2. UNCHANGED <<remote, payOf, keys, traced, handed, checked, steered>> BY DEF CommitSettlement
<1>3. PayTypeOK /\ JobOK(job[w]) /\ job[w] \in Job /\ job[w].pc = "wcommit"
    BY DEF PayInv, PayTypeOK, CommitSettlement
<1>4. /\ job' \in [Workers -> Job] /\ unsent' \subseteq Pays
      /\ \A v \in Workers \ {w} : job'[v] = job[v]
      /\ JobOK(job[w])'
      /\ ~Creating(job'[w]) /\ \A q : ~HoldsRow(w, q)' /\ ~HoldsKey(w, q)'
    <2>1. CASE job[w].moved /\ job[w].out = "succeeded"
        <3> DEFINE t == [job[w] EXCEPT !.pc = "cook"]
        <3>1. Goto(w, t) /\ UNCHANGED unsent BY <2>1 DEF CommitSettlement
        <3>2. /\ t \in Job /\ t.pc = "cook" /\ t.o = o /\ t.p = p /\ t.tr = job[w].tr /\ t.out = job[w].out
            BY <1>3 DEF Job, PC
        <3> HIDE DEF t
        <3>3. job'[w] = t /\ job' \in [Workers -> Job] /\ \A v \in Workers \ {w} : job'[v] = job[v]
            BY <1>3, <3>1, <3>2, GotoFields
        <3>4. JobOK(job[w])' BY <1>1, <1>2, <2>1, <3>2, <3>3 DEF JobOK, Creating, Notified, Trusted
        <3> QED BY <1>3, <3>1, <3>2, <3>3, <3>4 DEF Creating, HoldsRow, HoldsKey, PayTypeOK
    <2>2. CASE ~(job[w].moved /\ job[w].out = "succeeded")
        <3>1. Answer(w) BY <2>2 DEF CommitSettlement
        <3>2. job'[w] = NoJob /\ job' \in [Workers -> Job] /\ \A v \in Workers \ {w} : job'[v] = job[v]
            BY <1>3, <3>1, GotoFields, NoJobFields DEF Answer
        <3>3. unsent' \subseteq Pays BY <1>3, <3>1 DEF Answer, PayTypeOK
        <3> QED BY <3>2, <3>3, NoJobFields DEF JobOK, Creating, Notified, Trusted, HoldsRow, HoldsKey
    <2> QED BY <2>1, <2>2
<1>5. PayTypeOK' BY <1>1, <1>2, <1>3, <1>4 DEF PayTypeOK
<1>6. \A v \in Workers \ {w} : Spares(v)
    <2> TAKE v \in Workers \ {w}
    <2>1. JobOK(job[v]) BY DEF PayInv
    <2>2. Creating(job[v]) => job[v].p # p /\ job[v].pc # "idle" BY <1>1, <2>1 DEF JobOK, Creating
    <2>3. job[v].pc # "idle" => job[v].p \in Pays /\ job[v].o \in Orders BY <2>1 DEF JobOK
    <2>4. row[p] = "SUCCESS" => row'[p] = "SUCCESS" BY <1>1 DEF PayInv, OutcomeMatchesProvider
    <2>5. Trusted(job[v]) => /\ job[v].pc # "idle" /\ row'[job[v].p] # "ABSENT"
                             /\ row[job[v].p] = "SUCCESS" => row'[job[v].p] = "SUCCESS"
        <3>1. Trusted(job[v]) => job[v].pc # "idle" /\ row[job[v].p] # "ABSENT" BY <2>1 DEF JobOK, Trusted
        <3> QED BY <1>1, <2>3, <2>4, <3>1
    <2>6. (job[v].pc \in {"upgrade", "pcommit"} \/ (job[v].pc = "wcommit" /\ job[v].moved)) =>
            order'[job[v].o] = order[job[v].o]
        <3>1. job[w].moved => ~HoldsRow(v, o) /\ ~HoldsKey(v, o) BY <1>1 DEF PayInv, LocksApart
        <3> QED BY <1>1, <2>3, <3>1 DEF HoldsRow, HoldsKey
    <2> QED BY <1>1, <1>2, <1>4, <2>1, <2>2, <2>3, <2>5, <2>6 DEF Spares, JobOK, Creating, Notified, Trusted
<1>7. PaysKnown' BY <1>1, <1>2 DEF PayInv, PaysKnown
<1>9. OutcomeMatchesProvider' BY <1>1, <1>2 DEF PayInv, OutcomeMatchesProvider, Outcome
<1> QED BY <1>4, <1>5, <1>6, <1>7, <1>9, TableStepInv

LEMMA StartCookingInv ==
    ASSUME PayInv, NEW w \in Workers, StartCooking(w)
    PROVE  PayInv'
<1>1. PayTypeOK /\ JobOK(job[w]) /\ job[w].pc = "cook" /\ RowFree(w, job[w].o)
    BY DEF PayInv, StartCooking
<1>2. /\ UNCHANGED order \/ order' = [order EXCEPT ![job[w].o] = "COOKING"]
      /\ Answer(w)
      /\ UNCHANGED <<remote, payOf, row, keys, traced, handed, checked, steered>>
    BY DEF StartCooking
<1>3. \A o \in Orders : order'[o] = order[o] \/ (o = job[w].o /\ order'[o] = "COOKING")
    BY <1>1, <1>2 DEF PayTypeOK
<1>4. job'[w] = NoJob /\ job' \in [Workers -> Job] /\ \A v \in Workers \ {w} : job'[v] = job[v]
    BY <1>1, <1>2, GotoFields, NoJobFields DEF Answer
<1>5. PayTypeOK'
    <2>1. order' \in [Orders -> OrderState] BY <1>1, <1>2 DEF PayTypeOK, OrderState
    <2>2. unsent' \subseteq Pays BY <1>1, <1>2 DEF PayTypeOK, Answer
    <2> QED BY <1>1, <1>2, <1>4, <2>1, <2>2 DEF PayTypeOK
<1>6. \A v \in Workers \ {w} : Spares(v)
    <2> TAKE v \in Workers \ {w}
    <2>1. JobOK(job[v]) BY DEF PayInv
    <2>2. (job[v].pc \in {"upgrade", "pcommit"} \/ (job[v].pc = "wcommit" /\ job[v].moved)) =>
            order'[job[v].o] = order[job[v].o]
        BY <1>1, <1>3, <2>1 DEF JobOK, RowFree, HoldsRow, HoldsKey
    <2> QED BY <1>2, <1>4, <2>1, <2>2 DEF Spares, JobOK, Creating, Notified, Trusted
<1>7. JobOK(job[w])' BY <1>4, NoJobFields DEF JobOK, Creating, Notified, Trusted
<1>8. ~Creating(job'[w]) /\ \A o : ~HoldsRow(w, o)' /\ ~HoldsKey(w, o)'
    BY <1>4, NoJobFields DEF Creating, HoldsRow, HoldsKey
<1>9. PaysKnown' /\ OutcomeMatchesProvider' BY <1>2 DEF PayInv, PaysKnown, OutcomeMatchesProvider
<1> QED BY <1>5, <1>6, <1>7, <1>8, <1>9, TableStepInv

LEMMA ApiEventInv ==
    ASSUME PayInv, NEW o \in Orders, NEW edge \in ORDER_TRANSITIONS, ApiEvent(o, edge)
    PROVE  PayInv'
<1>1. PayTypeOK BY DEF PayInv
<1>2. /\ order' = [order EXCEPT ![o] = edge[3]]
      /\ \A v \in Workers : ~HoldsRow(v, o) /\ ~HoldsKey(v, o)
      /\ steered' \subseteq Orders
      /\ UNCHANGED <<remote, payOf, row, keys, traced, handed, unsent, checked, job>>
    BY DEF ApiEvent, PayInv, PayTypeOK
<1>3. edge[3] \in OrderState BY DEF ORDER_TRANSITIONS, OrderState
<1>4. order'[o] = edge[3] /\ \A q \in Orders : q # o => order'[q] = order[q] BY <1>1, <1>2 DEF PayTypeOK
<1>5. PayTypeOK' BY <1>1, <1>2, <1>3 DEF PayTypeOK
<1>6. \A v \in Workers : Spares(v)
    <2> TAKE v \in Workers
    <2>1. JobOK(job[v]) BY DEF PayInv
    <2>2. (job[v].pc \in {"upgrade", "pcommit"} \/ (job[v].pc = "wcommit" /\ job[v].moved)) =>
            order'[job[v].o] = order[job[v].o]
        BY <1>2, <1>4, <2>1 DEF JobOK, HoldsRow, HoldsKey
    <2> QED BY <1>2, <2>1, <2>2 DEF Spares, JobOK, Creating, Notified, Trusted
<1>7. PaysKnown' /\ OutcomeMatchesProvider' BY <1>2 DEF PayInv, PaysKnown, OutcomeMatchesProvider
<1> QED BY <1>5, <1>6, <1>7, SparingInv

LEMMA CrashInv ==
    ASSUME PayInv, Crash
    PROVE  PayInv'
<1>1. \A v \in Workers : job'[v] = NoJob BY DEF Crash
<1>2. UNCHANGED <<order, remote, payOf, row, keys, handed, unsent, checked, steered>> BY DEF Crash
<1>3. PayTypeOK' BY <1>2, NoJobFields DEF PayInv, PayTypeOK, Crash
<1>4. \A v \in Workers : JobOK(job[v])' BY <1>1, NoJobFields DEF JobOK, Creating, Notified, Trusted
<1>5. LocksApart' /\ CreatorsApart'
    BY <1>1, NoJobFields DEF LocksApart, CreatorsApart, HoldsRow, Creating
<1>6. PaysKnown' /\ OutcomeMatchesProvider'
    BY <1>2 DEF Crash, PayInv, PaysKnown, OutcomeMatchesProvider
<1> QED BY <1>3, <1>4, <1>5, <1>6 DEF PayInv

LEMMA StepInv ==
    ASSUME PayInv, NEW w \in Workers, Step(w)
    PROVE  PayInv'
<1>1. PayTypeOK BY DEF PayInv
<1>2. CASE ProviderCreates(w) \/ ProviderErrs(w) BY <1>2, ProviderAnswersInv
<1>3. CASE InsertPayment(w) BY <1>3, InsertPaymentInv
<1>4. CASE RequestPayment(w) BY <1>4, RequestPaymentInv
<1>5. CASE CommitPayment(w) BY <1>5, CommitPaymentInv
<1>6. CASE AbortPayment(w)
    <2>1. job[w].p \in Pays BY <1>6 DEF PayInv, JobOK, AbortPayment, Deadlocked
    <2>2. handed' \subseteq Pays /\ unsent' \subseteq Pays BY <1>1, <1>6, <2>1 DEF AbortPayment, PayTypeOK
    <2> QED BY <1>6, <2>2, EndInv DEF AbortPayment
<1>7. CASE VerifyProviderPayment(w) BY <1>7, VerifyInv
<1>8. CASE VerifyErrs(w)
    <2>1. handed' \subseteq Pays /\ unsent' \subseteq Pays BY <1>1, <1>8 DEF VerifyErrs, PayTypeOK
    <2> QED BY <1>8, <2>1, EndInv DEF VerifyErrs
<1>9. CASE RecordKey(w) BY <1>9, RecordKeyInv
<1>10. CASE FindPayment(w) BY <1>10, FindPaymentInv
<1>11. CASE WritePayment(w) BY <1>11, WritePaymentInv
<1>12. CASE LockOrder(w) BY <1>12, LockOrderInv
<1>13. CASE CommitSettlement(w) BY <1>13, CommitSettlementInv
<1>14. CASE StartCooking(w) BY <1>14, StartCookingInv
<1> QED BY <1>2, <1>3, <1>4, <1>5, <1>6, <1>7, <1>8, <1>9, <1>10, <1>11, <1>12, <1>13, <1>14 DEF Step

LEMMA StutterInv ==
    ASSUME PayInv, UNCHANGED vars
    PROVE  PayInv'
BY DEF vars, PayInv, PayTypeOK, JobOK, Creating, Notified, Trusted, LocksApart, HoldsRow, HoldsKey, CreatorsApart,
       PaysKnown, OutcomeMatchesProvider

LEMMA NextInv ==
    ASSUME PayInv, [Next]_vars
    PROVE  PayInv'
<1>1. ASSUME NEW w \in Workers, NEW o \in Orders, NEW p \in Pays, PayOrder(w, o, p) \/ CheckoutPay(w, o, p)
      PROVE  PayInv'
    BY <1>1, PayOrderInv, CheckoutPayInv
<1>2. ASSUME NEW w \in Workers, NEW q \in Pays, NEW p \in Pays, NEW out \in Outcome, Webhook(w, q, p, out)
      PROVE  PayInv'
    BY <1>2, WebhookInv
<1>3. ASSUME NEW p \in Pays, NEW out \in Outcome, ProviderSettles(p, out) PROVE PayInv'
    BY <1>3, ProviderSettlesInv
<1>4. ASSUME NEW o \in Orders, NEW edge \in ORDER_TRANSITIONS, ApiEvent(o, edge) PROVE PayInv'
    BY <1>4, ApiEventInv
<1>5. ASSUME NEW w \in Workers, Step(w) PROVE PayInv' BY <1>5, StepInv
<1>6. CASE Crash BY <1>6, CrashInv
<1>7. CASE UNCHANGED vars BY <1>7, StutterInv
<1> QED BY <1>1, <1>2, <1>3, <1>4, <1>5, <1>6, <1>7 DEF Next

(* The inductive invariant: a request relies only on rows nobody else may  *)
(* write, because of a lock or because the payment is its own.             *)
THEOREM PaymentsInvariant == Spec => []PayInv
<1>1. Init => PayInv
    <2> SUFFICES ASSUME Init PROVE PayInv OBVIOUS
    <2>1. PayTypeOK BY NoJobFields DEF Init, PayTypeOK, OrderState
    <2>2. \A w \in Workers : JobOK(job[w]) BY NoJobFields DEF Init, JobOK, Creating, Notified, Trusted
    <2>3. LocksApart /\ CreatorsApart BY NoJobFields DEF Init, LocksApart, CreatorsApart, HoldsRow, Creating
    <2>4. PaysKnown /\ OutcomeMatchesProvider BY DEF Init, PaysKnown, OutcomeMatchesProvider
    <2> QED BY <2>1, <2>2, <2>3, <2>4 DEF PayInv
<1>2. PayInv /\ [Next]_vars => PayInv' BY NextInv
<1> QED BY <1>1, <1>2, PTL DEF Spec

(* Every state of the payment service is of its type.                      *)
THEOREM PayTypeCorrect == Spec => []PayTypeOK
<1>1. PayInv => PayTypeOK BY DEF PayInv
<1> QED BY <1>1, PaymentsInvariant, PTL

(* confirm_payment and fail_payment record what the provider says of the   *)
(* payment, whatever the notifications say.                                *)
THEOREM RowsMatchProvider == Spec => []OutcomeMatchesProvider
<1>1. PayInv => OutcomeMatchesProvider BY DEF PayInv
<1> QED BY <1>1, PaymentsInvariant, PTL

---------------------------------------------------------------------------
(* A step that leaves the rows alone, or commits a request's.              *)
LEMMA RowSteps ==
    ASSUME PayInv, [Next]_vars
    PROVE  \/ UNCHANGED row
           \/ \E w \in Workers : CommitPayment(w) \/ CommitSettlement(w)
<1>1. ASSUME NEW w \in Workers, NEW o \in Orders, NEW p \in Pays,
             PayOrder(w, o, p) \/ CheckoutPay(w, o, p)
      PROVE  UNCHANGED row
  BY <1>1 DEF PayOrder, CheckoutPay, StartCreate
<1>2. ASSUME NEW w \in Workers, NEW q \in Pays, NEW p \in Pays, NEW out \in Outcome, Webhook(w, q, p, out)
      PROVE  UNCHANGED row
  BY <1>2 DEF Webhook
<1>3. ASSUME NEW p \in Pays, NEW out \in Outcome, ProviderSettles(p, out) PROVE UNCHANGED row
  BY <1>3 DEF ProviderSettles
<1>4. ASSUME NEW o \in Orders, NEW edge \in ORDER_TRANSITIONS, ApiEvent(o, edge)
      PROVE  UNCHANGED row
  BY <1>4 DEF ApiEvent
<1>5. ASSUME NEW w \in Workers, Step(w), ~CommitPayment(w), ~CommitSettlement(w)
      PROVE  UNCHANGED row
  BY <1>5 DEF Step, ProviderCreates, ProviderErrs, InsertPayment, RequestPayment, AbortPayment,
              VerifyProviderPayment, VerifyErrs, RecordKey, FindPayment, WritePayment, LockOrder,
              StartCooking
<1>6. ASSUME Crash \/ UNCHANGED vars PROVE UNCHANGED row
  BY <1>6 DEF Crash, vars
<1> QED BY <1>1, <1>2, <1>3, <1>4, <1>5, <1>6 DEF Next

(* A payment row once settled is settled for good; a row once inserted     *)
(* stays.                                                                  *)
LEMMA RowsFinal ==
    ASSUME PayInv, [Next]_vars, NEW p \in Pays
    PROVE  /\ row[p] \in {"SUCCESS", "FAILED"} => row'[p] = row[p]
           /\ row[p] # "ABSENT" => row'[p] # "ABSENT"
<1>1. CASE UNCHANGED row BY <1>1
<1>2. ASSUME NEW w \in Workers, CommitPayment(w)
      PROVE  /\ row[p] \in {"SUCCESS", "FAILED"} => row'[p] = row[p]
             /\ row[p] # "ABSENT" => row'[p] # "ABSENT"
    <2>1. JobOK(job[w]) /\ Creating(job[w]) BY <1>2 DEF PayInv, CommitPayment, Creating
    <2>2. row[job[w].p] = "ABSENT" BY <2>1 DEF JobOK
    <2>3. row' = [row EXCEPT ![job[w].p] = "PENDING"] BY <1>2 DEF CommitPayment
    <2> QED BY <2>2, <2>3 DEF PayInv, PayTypeOK
<1>3. ASSUME NEW w \in Workers, CommitSettlement(w)
      PROVE  /\ row[p] \in {"SUCCESS", "FAILED"} => row'[p] = row[p]
             /\ row[p] # "ABSENT" => row'[p] # "ABSENT"
    <2>1. /\ job[w].p \in Pays /\ job[w].out \in Outcome /\ remote[job[w].p] = job[w].out
          /\ row'[job[w].p] = IF job[w].out = "succeeded" THEN "SUCCESS" ELSE "FAILED"
          /\ \A q \in Pays : q # job[w].p => row'[q] = row[q]
        BY <1>3, SettlementWrites
    <2> QED BY <2>1 DEF PayInv, OutcomeMatchesProvider, Outcome
<1> QED BY <1>1, <1>2, <1>3, RowSteps

(* A payment recorded SUCCESS or FAILED stays so, whichever requests race  *)
(* on it: one that writes it again, under another's trace, writes the same *)
(* outcome.                                                                *)
THEOREM SettledStays == Spec => SettledIsFinal
<1>1. PayInv /\ [Next]_vars => [\A p \in Pays : row[p] \in {"SUCCESS", "FAILED"} => row'[p] = row[p]]_vars
    BY RowsFinal
<1> QED BY <1>1, PaymentsInvariant, PTL DEF Spec, SettledIsFinal

---------------------------------------------------------------------------
(* The order of a payment is never changed.                                *)
LEMMA PayOfStays ==
    ASSUME PayInv, [Next]_vars
    PROVE  \A p \in Pays : payOf[p] \in Orders => payOf'[p] = payOf[p]
<1>1. CASE UNCHANGED payOf BY <1>1
<1>2. ASSUME NEW w \in Workers, NEW o \in Orders, NEW p \in Pays, StartCreate(w, o, p)
      PROVE  \A q \in Pays : payOf[q] \in Orders => payOf'[q] = payOf[q]
    BY <1>2, PaymentsAssumption DEF StartCreate, PayInv, PayTypeOK
<1>3. \/ UNCHANGED payOf
      \/ \E w \in Workers, o \in Orders, p \in Pays : StartCreate(w, o, p)
    BY DEF Next, vars, PayOrder, CheckoutPay, Webhook, ProviderSettles, ApiEvent, Crash, Step,
           ProviderCreates, ProviderErrs, InsertPayment, RequestPayment, AbortPayment, VerifyProviderPayment,
           VerifyErrs, RecordKey, FindPayment, WritePayment, LockOrder, StartCooking, CommitPayment,
           CommitSettlement
<1> QED BY <1>1, <1>2, <1>3

(* Every way an order moves: requested by a checkout or a creation, paid   *)
(* or released by a settlement, cooked after one, or moved from elsewhere. *)
OrderMoves(o) ==
    \/ order'[o] = order[o]
    \/ order[o] = "CONFIRMED" /\ order'[o] = "PAYMENT_PENDING"
    \/ \E w \in Workers :
          /\ CommitSettlement(w) /\ job[w].o = o /\ order[o] = "PAYMENT_PENDING"
          /\ order'[o] = IF job[w].out = "succeeded" THEN "PAID" ELSE "CONFIRMED"
    \/ \E w \in Workers : StartCooking(w) /\ job[w].o = o /\ order'[o] = "COOKING"
    \/ \E edge \in ORDER_TRANSITIONS :
          /\ order[o] = edge[1] /\ order'[o] = edge[3]
          /\ Steers(edge) => o \in steered'

LEMMA OrdersMove ==
    ASSUME PayInv, [Next]_vars, NEW o \in Orders
    PROVE  OrderMoves(o)
<1>1. PayTypeOK BY DEF PayInv
<1>2. CASE UNCHANGED order BY <1>2 DEF OrderMoves
<1>3. ASSUME NEW w \in Workers, NEW q \in Orders, NEW p \in Pays, CheckoutPay(w, q, p)
      PROVE  OrderMoves(o)
    <2>1. \/ order[q] = "CONFIRMED" /\ order' = [order EXCEPT ![q] = "PAYMENT_PENDING"]
          \/ UNCHANGED order
        BY <1>3 DEF CheckoutPay
    <2> QED BY <1>1, <2>1 DEF OrderMoves, PayTypeOK
<1>4. ASSUME NEW w \in Workers, CommitPayment(w)
      PROVE  OrderMoves(o)
    <2>1. order' = [order EXCEPT ![job[w].o] = IF job[w].moved THEN "PAYMENT_PENDING" ELSE order[job[w].o]]
        BY <1>4 DEF CommitPayment
    <2>2. job[w].moved => order[job[w].o] = "CONFIRMED" BY <1>4 DEF PayInv, JobOK, CommitPayment
    <2> QED BY <1>1, <2>1, <2>2 DEF OrderMoves, PayTypeOK
<1>5. ASSUME NEW w \in Workers, CommitSettlement(w)
      PROVE  OrderMoves(o)
    <2>1. job[w].moved => order[job[w].o] = "PAYMENT_PENDING"
        BY <1>5 DEF PayInv, JobOK, CommitSettlement
    <2>2. /\ order'[job[w].o] = IF ~job[w].moved THEN order[job[w].o]
                                ELSE IF job[w].out = "succeeded" THEN "PAID" ELSE "CONFIRMED"
          /\ \A q \in Orders : q # job[w].o => order'[q] = order[q]
        BY <1>5, SettlementWrites
    <2> QED BY <1>5, <2>1, <2>2 DEF OrderMoves
<1>6. ASSUME NEW w \in Workers, StartCooking(w)
      PROVE  OrderMoves(o)
    <2>1. UNCHANGED order \/ order' = [order EXCEPT ![job[w].o] = "COOKING"] BY <1>6 DEF StartCooking
    <2> QED BY <1>1, <1>6, <2>1 DEF OrderMoves, PayTypeOK
<1>7. ASSUME NEW q \in Orders, NEW edge \in ORDER_TRANSITIONS, ApiEvent(q, edge)
      PROVE  OrderMoves(o)
    BY <1>1, <1>7 DEF OrderMoves, PayTypeOK, ApiEvent
<1>8. \/ UNCHANGED order
      \/ \E w \in Workers, q \in Orders, p \in Pays : CheckoutPay(w, q, p)
      \/ \E w \in Workers : CommitPayment(w) \/ CommitSettlement(w) \/ StartCooking(w)
      \/ \E q \in Orders, edge \in ORDER_TRANSITIONS : ApiEvent(q, edge)
    BY DEF Next, vars, PayOrder, Webhook, ProviderSettles, Crash, Step,
           ProviderCreates, ProviderErrs, InsertPayment, RequestPayment, AbortPayment, VerifyProviderPayment,
           VerifyErrs, RecordKey, FindPayment, WritePayment, LockOrder
<1> QED BY <1>2, <1>3, <1>4, <1>5, <1>6, <1>7, <1>8

(* An order once steered from outside is marked for good.                  *)
LEMMA SteeredGrows ==
    ASSUME [Next]_vars
    PROVE  steered \subseteq steered'
<1>1. ASSUME NEW w \in Workers, Step(w) PROVE UNCHANGED steered
    BY <1>1 DEF Step, ProviderCreates, ProviderErrs, InsertPayment, RequestPayment, CommitPayment, AbortPayment,
           VerifyProviderPayment, VerifyErrs, RecordKey, FindPayment, WritePayment, LockOrder, CommitSettlement,
           StartCooking
<1> QED BY <1>1 DEF Next, vars, PayOrder, CheckoutPay, StartCreate, Webhook, ProviderSettles, ApiEvent, Crash

---------------------------------------------------------------------------
(* A request that is at the commit of a settlement was there before, or    *)
(* has just read or locked the order.                                      *)
LEMMA EntersCommit ==
    ASSUME PayInv, [Next]_vars, NEW w \in Workers, job'[w].pc = "wcommit"
    PROVE  \/ job'[w] = job[w]
           \/ WritePayment(w)
           \/ LockOrder(w)
<1>1. PayTypeOK BY DEF PayInv
<1> DEFINE Goal == job'[w] = job[w] \/ WritePayment(w) \/ LockOrder(w)
<1>2. ASSUME NEW v \in Workers, NEW t, Goto(v, t), t.pc # "wcommit" PROVE Goal
    BY <1>1, <1>2, GotoFields
<1>3. ASSUME NEW v \in Workers, Goto(v, NoJob) PROVE Goal BY <1>2, <1>3, NoJobFields
<1>4. ASSUME NEW v \in Workers, NEW pc \in PC \ {"wcommit"}, Goto(v, [job[v] EXCEPT !.pc = pc]) PROVE Goal
    <2>1. job[v] \in Job BY <1>1 DEF PayTypeOK
    <2>2. [job[v] EXCEPT !.pc = pc].pc # "wcommit" BY <2>1 DEF Job
    <2> QED BY <1>2, <1>4, <2>2
<1>5. ASSUME NEW v \in Workers, NEW o \in Orders, NEW p \in Pays, StartCreate(v, o, p) PROVE Goal
    <2>1. [NoJob EXCEPT !.pc = "http", !.o = o, !.p = p].pc # "wcommit" BY DEF NoJob
    <2> QED BY <1>2, <1>5, <2>1 DEF StartCreate
<1>6. ASSUME NEW v \in Workers, NEW q \in Pays, NEW p \in Pays, NEW out \in Outcome, Webhook(v, q, p, out) PROVE Goal
    <2>1. [NoJob EXCEPT !.pc = "verify", !.o = payOf[q], !.p = p, !.tr = q, !.out = out].pc # "wcommit" BY DEF NoJob
    <2> QED BY <1>2, <1>6, <2>1 DEF Webhook
<1>7. ASSUME NEW v \in Workers, Step(v) PROVE Goal
    <2>1. CASE ProviderCreates(v) BY <1>4, <2>1 DEF ProviderCreates, PC
    <2>2. CASE InsertPayment(v)
        <3>1. PICK t \in {[job[v] EXCEPT !.pc = pc, !.from = order[job[v].o]] : pc \in {"upgrade", "pcommit"}} : Goto(v, t)
            BY <2>2 DEF InsertPayment
        <3>2. t.pc # "wcommit" BY <1>1, <3>1 DEF PayTypeOK, Job
        <3> QED BY <1>2, <3>1, <3>2
    <2>3. CASE RequestPayment(v)
        <3> DEFINE t == [job[v] EXCEPT !.pc = "pcommit", !.moved = (order[job[v].o] = job[v].from)]
        <3>1. t.pc # "wcommit" BY <1>1 DEF PayTypeOK, Job
        <3>2. Goto(v, t) BY <2>3 DEF RequestPayment
        <3> QED BY <1>2, <3>1, <3>2
    <2>4. CASE ProviderErrs(v) \/ CommitPayment(v) \/ AbortPayment(v) \/ VerifyErrs(v) \/ StartCooking(v)
        BY <1>3, <2>4 DEF ProviderErrs, CommitPayment, AbortPayment, VerifyErrs, StartCooking, Answer
    <2>5. CASE VerifyProviderPayment(v) \/ RecordKey(v) \/ FindPayment(v) \/ CommitSettlement(v)
        <3>1. "key" \in PC /\ "find" \in PC /\ "settle" \in PC /\ "cook" \in PC BY DEF PC
        <3> QED BY <1>3, <1>4, <2>5, <3>1
                DEF VerifyProviderPayment, RecordKey, FindPayment, CommitSettlement, Answer
    <2>6. CASE WritePayment(v) \/ LockOrder(v)
        BY <1>1, <2>6 DEF WritePayment, LockOrder, Goto, PayTypeOK
    <2> QED BY <1>7, <2>1, <2>2, <2>3, <2>4, <2>5, <2>6 DEF Step
<1>8. CASE Crash BY <1>8, NoJobFields DEF Crash
<1>9. CASE UNCHANGED job BY <1>9
<1> QED BY <1>5, <1>6, <1>7, <1>8, <1>9 DEF Next, vars, PayOrder, CheckoutPay, ProviderSettles, ApiEvent

---------------------------------------------------------------------------
(* A request that may settle a payment could before, or has just recorded  *)
(* a key that nobody had recorded.                                         *)
LEMMA EntersSettling ==
    ASSUME PayInv, [Next]_vars, NEW w \in Workers, Settling(job'[w])
    PROVE  \/ Settling(job[w]) /\ job'[w].p = job[w].p /\ job'[w].tr = job[w].tr /\ job'[w].out = job[w].out
           \/ /\ job[w].pc = "key" /\ job'[w].p = job[w].p /\ job'[w].tr = job[w].tr /\ job'[w].out = job[w].out
              /\ \A k \in keys : ~(k[1] = job[w].tr /\ k[2] = job[w].out)
              /\ keys' = keys \cup {<<job[w].tr, job[w].out, job[w].p>>}
              /\ \A v \in Workers \ {w} : job'[v] = job[v]
              /\ UNCHANGED <<row, remote, payOf>>
<1>1. PayTypeOK BY DEF PayInv
<1> DEFINE Goal == \/ Settling(job[w]) /\ job'[w].p = job[w].p /\ job'[w].tr = job[w].tr /\ job'[w].out = job[w].out
                   \/ /\ job[w].pc = "key" /\ job'[w].p = job[w].p /\ job'[w].tr = job[w].tr /\ job'[w].out = job[w].out
                      /\ \A k \in keys : ~(k[1] = job[w].tr /\ k[2] = job[w].out)
                      /\ keys' = keys \cup {<<job[w].tr, job[w].out, job[w].p>>}
                      /\ \A v \in Workers \ {w} : job'[v] = job[v]
                      /\ UNCHANGED <<row, remote, payOf>>
<1>2. CASE job'[w] = job[w] BY <1>2
<1>3. ASSUME NEW v \in Workers, NEW t, Goto(v, t),
             \/ ~Settling(t)
             \/ Settling(job[v]) /\ t.p = job[v].p /\ t.tr = job[v].tr /\ t.out = job[v].out
      PROVE  Goal
    <2>1. job'[v] = t /\ \A u \in Workers \ {v} : job'[u] = job[u] BY <1>1, <1>3, GotoFields
    <2>2. CASE v = w BY <1>3, <2>1, <2>2
    <2>3. CASE v # w
        <3>1. job'[w] = job[w] BY <2>1, <2>3
        <3> QED BY <1>2, <3>1
    <2> QED BY <2>2, <2>3
<1>4. ASSUME NEW v \in Workers, Goto(v, NoJob) PROVE Goal
    <2>1. ~Settling(NoJob) BY NoJobFields DEF Settling
    <2> QED BY <1>3, <1>4, <2>1
<1>5. ASSUME NEW v \in Workers, NEW pc \in PC, Goto(v, [job[v] EXCEPT !.pc = pc]),
             pc \notin {"find", "settle", "lock", "wcommit"} \/ Settling(job[v])
      PROVE  Goal
    <2>1. job[v] \in Job BY <1>1 DEF PayTypeOK
    <2> DEFINE t == [job[v] EXCEPT !.pc = pc]
    <2>2. t.pc = pc /\ t.p = job[v].p /\ t.tr = job[v].tr /\ t.out = job[v].out BY <2>1 DEF Job
    <2>3. Goto(v, t) BY <1>5
    <2> HIDE DEF t
    <2>4. ~Settling(t) \/ (Settling(job[v]) /\ t.p = job[v].p /\ t.tr = job[v].tr /\ t.out = job[v].out)
        BY <1>5, <2>2 DEF Settling
    <2> HIDE DEF Goal
    <2> QED BY <1>3, <2>3, <2>4
<1>6. ASSUME NEW v \in Workers, NEW o \in Orders, NEW p \in Pays, StartCreate(v, o, p) PROVE Goal
    <2>1. ~Settling([NoJob EXCEPT !.pc = "http", !.o = o, !.p = p]) BY DEF NoJob, Settling
    <2> QED BY <1>3, <1>6, <2>1 DEF StartCreate
<1>7. ASSUME NEW v \in Workers, NEW q \in Pays, NEW p \in Pays, NEW out \in Outcome, Webhook(v, q, p, out) PROVE Goal
    <2>1. ~Settling([NoJob EXCEPT !.pc = "verify", !.o = payOf[q], !.p = p, !.tr = q, !.out = out])
        BY DEF NoJob, Settling
    <2> QED BY <1>2, <1>3, <1>7, <2>1 DEF Webhook
<1>8. ASSUME NEW v \in Workers, Step(v) PROVE Goal
    <2>0. job[v] \in Job /\ \A pc \in {"insert", "key", "find", "settle", "cook"} : pc \in PC
        BY <1>1 DEF PayTypeOK, PC
    <2>1. CASE ProviderCreates(v) BY <1>5, <2>0, <2>1 DEF ProviderCreates
    <2>2. CASE InsertPayment(v)
        <3>1. PICK t \in {[job[v] EXCEPT !.pc = pc, !.from = order[job[v].o]] : pc \in {"upgrade", "pcommit"}} : Goto(v, t)
            BY <2>2 DEF InsertPayment
        <3>2. ~Settling(t) BY <2>0, <3>1 DEF Job, Settling
        <3> QED BY <1>3, <3>1, <3>2
    <2>3. CASE RequestPayment(v)
        <3> DEFINE t == [job[v] EXCEPT !.pc = "pcommit", !.moved = (order[job[v].o] = job[v].from)]
        <3>1. ~Settling(t) BY <2>0 DEF Job, Settling
        <3>2. Goto(v, t) BY <2>3 DEF RequestPayment
        <3> QED BY <1>3, <3>1, <3>2
    <2>4. CASE ProviderErrs(v) \/ CommitPayment(v) \/ AbortPayment(v) \/ VerifyErrs(v) \/ StartCooking(v)
        BY <1>4, <2>4 DEF ProviderErrs, CommitPayment, AbortPayment, VerifyErrs, StartCooking, Answer
    <2>5. CASE VerifyProviderPayment(v) \/ FindPayment(v) \/ CommitSettlement(v)
        BY <1>4, <1>5, <2>0, <2>5
           DEF VerifyProviderPayment, FindPayment, CommitSettlement, Answer, Settling
    <2>6. CASE RecordKey(v)
        <3>1. CASE Answer(v) BY <1>4, <3>1 DEF Answer
        <3>2. CASE ~Answer(v)
            <4>1. /\ job[v].pc = "key" /\ Goto(v, [job[v] EXCEPT !.pc = "find"])
                  /\ \A k \in keys : ~(k[1] = job[v].tr /\ k[2] = job[v].out)
                  /\ keys' = keys \cup {<<job[v].tr, job[v].out, job[v].p>>}
                  /\ UNCHANGED <<row, remote, payOf>>
                BY <2>6, <3>2 DEF RecordKey
            <4>2. job'[v] = [job[v] EXCEPT !.pc = "find"] /\ \A u \in Workers \ {v} : job'[u] = job[u]
                BY <1>1, <4>1, GotoFields
            <4>3. job'[v].p = job[v].p /\ job'[v].tr = job[v].tr /\ job'[v].out = job[v].out BY <2>0, <4>2 DEF Job
            <4> QED BY <1>2, <4>1, <4>2, <4>3
        <3> QED BY <3>1, <3>2
    <2>7. CASE WritePayment(v)
        <3>1. PICK t \in {[job[v] EXCEPT !.pc = pc, !.from = order[job[v].o]] : pc \in {"lock", "wcommit"}} : Goto(v, t)
            BY <2>7 DEF WritePayment
        <3>2. t.p = job[v].p /\ t.tr = job[v].tr /\ t.out = job[v].out /\ Settling(job[v])
            BY <2>0, <2>7, <3>1 DEF Job, Settling, WritePayment
        <3> QED BY <1>3, <3>1, <3>2
    <2>8. CASE LockOrder(v)
        <3> DEFINE t == [job[v] EXCEPT !.pc = "wcommit", !.moved = (order[job[v].o] = job[v].from)]
        <3>1. t.p = job[v].p /\ t.tr = job[v].tr /\ t.out = job[v].out /\ Settling(job[v])
            BY <2>0, <2>8 DEF Job, Settling, LockOrder
        <3>2. Goto(v, t) BY <2>8 DEF LockOrder
        <3> QED BY <1>3, <3>1, <3>2
    <2> QED BY <1>8, <2>1, <2>2, <2>3, <2>4, <2>5, <2>6, <2>7, <2>8 DEF Step
<1>9. CASE Crash
    <2>1. ~Settling(job'[w]) BY <1>9, NoJobFields DEF Crash, Settling
    <2> QED BY <2>1
<1>10. CASE UNCHANGED job BY <1>2, <1>10
<1> QED BY <1>6, <1>7, <1>8, <1>9, <1>10 DEF Next, vars, PayOrder, CheckoutPay, ProviderSettles, ApiEvent

(* A request reaches the kitchen through the commit of a capture.          *)
LEMMA EntersCook ==
    ASSUME PayInv, [Next]_vars, NEW w \in Workers, job'[w].pc = "cook"
    PROVE  \/ job'[w] = job[w]
           \/ /\ CommitSettlement(w) /\ job[w].moved /\ job[w].out = "succeeded"
              /\ job'[w].o = job[w].o /\ job'[w].p = job[w].p /\ job'[w].tr = job[w].tr
              /\ job'[w].out = job[w].out /\ UNCHANGED <<keys, remote, payOf>>
<1>1. PayTypeOK BY DEF PayInv
<1> DEFINE Goal == \/ job'[w] = job[w]
                   \/ /\ CommitSettlement(w) /\ job[w].moved /\ job[w].out = "succeeded"
                      /\ job'[w].o = job[w].o /\ job'[w].p = job[w].p /\ job'[w].tr = job[w].tr
                      /\ job'[w].out = job[w].out /\ UNCHANGED <<keys, remote, payOf>>
<1>2. ASSUME NEW v \in Workers, NEW t, Goto(v, t), t.pc # "cook" PROVE Goal
    BY <1>1, <1>2, GotoFields
<1>3. ASSUME NEW v \in Workers, Goto(v, NoJob) PROVE Goal BY <1>2, <1>3, NoJobFields
<1>4. ASSUME NEW v \in Workers, NEW pc \in PC \ {"cook"}, Goto(v, [job[v] EXCEPT !.pc = pc]) PROVE Goal
    <2>1. job[v] \in Job BY <1>1 DEF PayTypeOK
    <2>2. [job[v] EXCEPT !.pc = pc].pc # "cook" BY <2>1 DEF Job
    <2> QED BY <1>2, <1>4, <2>2
<1>5. ASSUME NEW v \in Workers, NEW o \in Orders, NEW p \in Pays, StartCreate(v, o, p) PROVE Goal
    <2>1. [NoJob EXCEPT !.pc = "http", !.o = o, !.p = p].pc # "cook" BY DEF NoJob
    <2> QED BY <1>2, <1>5, <2>1 DEF StartCreate
<1>6. ASSUME NEW v \in Workers, NEW q \in Pays, NEW p \in Pays, NEW out \in Outcome, Webhook(v, q, p, out) PROVE Goal
    <2>1. [NoJob EXCEPT !.pc = "verify", !.o = payOf[q], !.p = p, !.tr = q, !.out = out].pc # "cook" BY DEF NoJob
    <2> QED BY <1>2, <1>6, <2>1 DEF Webhook
<1>7. ASSUME NEW v \in Workers, Step(v) PROVE Goal
    <2>0. job[v] \in Job BY <1>1 DEF PayTypeOK
    <2>1. CASE InsertPayment(v) \/ WritePayment(v)
        <3>1. PICK t \in {[job[v] EXCEPT !.pc = pc, !.from = order[job[v].o]] :
                             pc \in {"upgrade", "pcommit", "lock", "wcommit"}} : Goto(v, t)
            BY <2>1 DEF InsertPayment, WritePayment
        <3>2. t.pc # "cook" BY <2>0, <3>1 DEF Job
        <3> QED BY <1>2, <3>1, <3>2
    <2>2. CASE RequestPayment(v) \/ LockOrder(v)
        <3>1. PICK t \in {[job[v] EXCEPT !.pc = pc, !.moved = (order[job[v].o] = job[v].from)] :
                             pc \in {"pcommit", "wcommit"}} : Goto(v, t)
            BY <2>2 DEF RequestPayment, LockOrder
        <3>2. t.pc # "cook" BY <2>0, <3>1 DEF Job
        <3> QED BY <1>2, <3>1, <3>2
    <2>3. CASE ProviderErrs(v) \/ CommitPayment(v) \/ AbortPayment(v) \/ VerifyErrs(v) \/ StartCooking(v)
        BY <1>3, <2>3 DEF ProviderErrs, CommitPayment, AbortPayment, VerifyErrs, StartCooking, Answer
    <2>4. CASE ProviderCreates(v) \/ VerifyProviderPayment(v) \/ RecordKey(v) \/ FindPayment(v)
        <3>1. \A pc \in {"insert", "key", "find", "settle"} : pc \in PC \ {"cook"} BY DEF PC
        <3> QED BY <1>3, <1>4, <2>4, <3>1
                DEF ProviderCreates, VerifyProviderPayment, RecordKey, FindPayment, Answer
    <2>5. CASE CommitSettlement(v)
        <3>1. CASE Goto(v, NoJob) BY <1>3, <3>1
        <3>2. CASE ~Goto(v, NoJob)
            <4>1. Goto(v, [job[v] EXCEPT !.pc = "cook"]) /\ job[v].moved /\ job[v].out = "succeeded"
                BY <2>5, <3>2 DEF CommitSettlement, Answer
            <4>2. job'[v] = [job[v] EXCEPT !.pc = "cook"] /\ \A u \in Workers \ {v} : job'[u] = job[u]
                BY <1>1, <4>1, GotoFields
            <4>3. /\ job'[v].o = job[v].o /\ job'[v].p = job[v].p /\ job'[v].tr = job[v].tr
                  /\ job'[v].out = job[v].out
                BY <2>0, <4>2 DEF Job
            <4>4. UNCHANGED <<keys, remote, payOf>> BY <2>5 DEF CommitSettlement
            <4> QED BY <2>5, <4>1, <4>2, <4>3, <4>4
        <3> QED BY <3>1, <3>2
    <2> QED BY <1>7, <2>1, <2>2, <2>3, <2>4, <2>5 DEF Step
<1>8. CASE Crash BY <1>8, NoJobFields DEF Crash
<1>9. CASE UNCHANGED job BY <1>9
<1> QED BY <1>5, <1>6, <1>7, <1>8, <1>9 DEF Next, vars, PayOrder, CheckoutPay, ProviderSettles, ApiEvent

(* What the steps of a request leave alone.                                *)
LEMMA StepFrame ==
    ASSUME NEW w \in Workers, Step(w)
    PROVE  /\ UNCHANGED <<payOf, traced, checked, steered>>
           /\ UNCHANGED keys \/ RecordKey(w)
           /\ UNCHANGED remote \/ ProviderCreates(w) \/ ProviderErrs(w)
           /\ UNCHANGED handed \/ CommitPayment(w) \/ AbortPayment(w)
<1>1. CASE ProviderCreates(w) \/ ProviderErrs(w) BY <1>1 DEF ProviderCreates, ProviderErrs
<1>2. CASE InsertPayment(w) \/ RequestPayment(w) BY <1>2 DEF InsertPayment, RequestPayment
<1>3. CASE CommitPayment(w) \/ AbortPayment(w) BY <1>3 DEF CommitPayment, AbortPayment
<1>4. CASE VerifyProviderPayment(w) \/ VerifyErrs(w) BY <1>4 DEF VerifyProviderPayment, VerifyErrs
<1>5. CASE RecordKey(w) BY <1>5 DEF RecordKey
<1>6. CASE FindPayment(w) \/ WritePayment(w) BY <1>6 DEF FindPayment, WritePayment
<1>7. CASE LockOrder(w) \/ CommitSettlement(w) BY <1>7 DEF LockOrder, CommitSettlement
<1>8. CASE StartCooking(w) BY <1>8 DEF StartCooking
<1> QED BY <1>1, <1>2, <1>3, <1>4, <1>5, <1>6, <1>7, <1>8 DEF Step

(* Who writes the keys, the provider's record, the links and the           *)
(* notifications that are due.                                             *)
LEMMA NextFrame ==
    ASSUME [Next]_vars
    PROVE  /\ UNCHANGED keys \/ \E w \in Workers : RecordKey(w)
           /\ \/ UNCHANGED remote
              \/ \E w \in Workers : ProviderCreates(w) \/ ProviderErrs(w)
              \/ \E p \in Pays, out \in Outcome : ProviderSettles(p, out)
           /\ UNCHANGED handed \/ \E w \in Workers : CommitPayment(w) \/ AbortPayment(w)
           /\ \/ UNCHANGED unsent
              \/ \E w \in Workers, q, p \in Pays, out \in Outcome : Webhook(w, q, p, out)
              \/ \E p \in Pays, out \in Outcome : ProviderSettles(p, out)
              \/ \E w \in Workers : Step(w)
<1> DEFINE Goal == /\ UNCHANGED keys \/ \E w \in Workers : RecordKey(w)
                   /\ \/ UNCHANGED remote
                      \/ \E w \in Workers : ProviderCreates(w) \/ ProviderErrs(w)
                      \/ \E p \in Pays, out \in Outcome : ProviderSettles(p, out)
                   /\ UNCHANGED handed \/ \E w \in Workers : CommitPayment(w) \/ AbortPayment(w)
                   /\ \/ UNCHANGED unsent
                      \/ \E w \in Workers, q, p \in Pays, out \in Outcome : Webhook(w, q, p, out)
                      \/ \E p \in Pays, out \in Outcome : ProviderSettles(p, out)
                      \/ \E w \in Workers : Step(w)
<1>1. ASSUME NEW w \in Workers, NEW o \in Orders, NEW p \in Pays, PayOrder(w, o, p) \/ CheckoutPay(w, o, p)
      PROVE  Goal
    <2>1. UNCHANGED <<keys, remote, handed, unsent>> BY <1>1 DEF PayOrder, CheckoutPay, StartCreate
    <2> QED BY <2>1
<1>2. ASSUME NEW w \in Workers, NEW q \in Pays, NEW p \in Pays, NEW out \in Outcome, Webhook(w, q, p, out) PROVE Goal
    <2>1. UNCHANGED <<keys, remote, handed>> BY <1>2 DEF Webhook
    <2> QED BY <1>2, <2>1
<1>3. ASSUME NEW p \in Pays, NEW out \in Outcome, ProviderSettles(p, out) PROVE Goal
    <2>1. UNCHANGED <<keys, handed>> BY <1>3 DEF ProviderSettles
    <2> QED BY <1>3, <2>1
<1>4. ASSUME NEW o \in Orders, NEW edge \in ORDER_TRANSITIONS, ApiEvent(o, edge) PROVE Goal
    BY <1>4 DEF ApiEvent
<1>5. ASSUME NEW w \in Workers, Step(w) PROVE Goal BY <1>5, StepFrame
<1>6. CASE Crash \/ UNCHANGED vars BY <1>6 DEF Crash, vars
<1> QED BY <1>1, <1>2, <1>3, <1>4, <1>5, <1>6 DEF Next

(* The provider writes its record of a payment that is not settled.        *)
LEMMA RemoteWrites ==
    ASSUME PayInv, [Next]_vars
    PROVE  \/ UNCHANGED remote
           \/ \E q \in Pays : remote[q] \in {"none", "pending"} /\ \E x : remote' = [remote EXCEPT ![q] = x]
<1>1. ASSUME NEW w \in Workers, ProviderCreates(w) \/ ProviderErrs(w)
      PROVE  \/ UNCHANGED remote
             \/ \E q \in Pays : remote[q] \in {"none", "pending"} /\ \E x : remote' = [remote EXCEPT ![q] = x]
    <2>1. job[w].pc = "http" /\ JobOK(job[w]) BY <1>1 DEF PayInv, ProviderCreates, ProviderErrs
    <2>2. job[w].p \in Pays /\ remote[job[w].p] = "none" BY <2>1 DEF JobOK
    <2> QED BY <1>1, <2>2 DEF ProviderCreates, ProviderErrs
<1>2. ASSUME NEW p \in Pays, NEW out \in Outcome, ProviderSettles(p, out)
      PROVE  \E q \in Pays : remote[q] \in {"none", "pending"} /\ \E x : remote' = [remote EXCEPT ![q] = x]
    BY <1>2 DEF ProviderSettles
<1> QED BY <1>1, <1>2, NextFrame

(* The keys only grow, and the provider's word on a settled payment stands. *)
LEMMA KeysGrow ==
    ASSUME PayInv, [Next]_vars
    PROVE  /\ keys \subseteq keys'
           /\ \A p \in Pays : row[p] \in {"SUCCESS", "FAILED"} => remote'[p] = remote[p]
<1>1. PayTypeOK BY DEF PayInv
<1>2. keys \subseteq keys' BY NextFrame DEF RecordKey
<1>3. \A p \in Pays : row[p] \in {"SUCCESS", "FAILED"} => remote[p] \notin {"none", "pending"}
    BY DEF PayInv, OutcomeMatchesProvider
<1>4. \A p \in Pays : row[p] \in {"SUCCESS", "FAILED"} => remote'[p] = remote[p]
    BY <1>1, <1>3, RemoteWrites DEF PayTypeOK
<1> QED BY <1>2, <1>4

(* The provider's word on a recorded key stands.                           *)
LEMMA KeyedStands ==
    ASSUME PayInv, KeysOwned, [Next]_vars, NEW k \in keys
    PROVE  /\ k[1] \in Pays /\ k[2] \in Outcome /\ k[3] \in Pays
           /\ remote'[k[3]] = remote[k[3]] /\ remote[k[3]] = k[2]
           /\ row[k[3]] # "ABSENT" /\ row'[k[3]] # "ABSENT"
<1>1. PayTypeOK BY DEF PayInv
<1>2. k[1] \in Pays /\ k[2] \in Outcome /\ k[3] \in Pays BY <1>1 DEF PayTypeOK
<1>3. row[k[3]] # "ABSENT" /\ remote[k[3]] = k[2] BY DEF KeysOwned
<1>4. row'[k[3]] # "ABSENT" BY <1>2, <1>3, RowsFinal
<1>5. \/ UNCHANGED remote
      \/ \E q \in Pays : remote[q] \in {"none", "pending"} /\ \E x : remote' = [remote EXCEPT ![q] = x]
    BY RemoteWrites
<1>6. remote[k[3]] \notin {"none", "pending"} BY <1>2, <1>3 DEF Outcome
<1>7. remote'[k[3]] = remote[k[3]] BY <1>1, <1>2, <1>5, <1>6 DEF PayTypeOK
<1> QED BY <1>2, <1>3, <1>4, <1>7

(* A payment that other bodies have not named before was not named so      *)
(* earlier either.                                                         *)
LEMMA MatchedBefore ==
    ASSUME PayInv, [Next]_vars, NEW p, \A k \in keys' : k[1] = p <=> k[3] = p
    PROVE  Matched(p)
BY KeysGrow DEF Matched

LEMMA NextKeysApart ==
    ASSUME PayInv, KeysOK, [Next]_vars
    PROVE  KeysApart'
<1>1. ASSUME NEW k \in keys', NEW l \in keys', k[1] = l[1], k[2] = l[2] PROVE k = l
    <2>1. CASE UNCHANGED keys BY <1>1, <2>1 DEF KeysOK, KeysApart
    <2>2. ASSUME NEW w \in Workers, RecordKey(w) PROVE k = l
        <3>1. CASE UNCHANGED keys BY <2>1, <3>1
        <3>2. CASE ~UNCHANGED keys
            <4> DEFINE c == <<job[w].tr, job[w].out, job[w].p>>
            <4>1. /\ \A d \in keys : ~(d[1] = job[w].tr /\ d[2] = job[w].out)
                  /\ keys' = keys \cup {c}
                BY <2>2, <3>2 DEF RecordKey
            <4>2. c[1] = job[w].tr /\ c[2] = job[w].out OBVIOUS
            <4> HIDE DEF c
            <4> QED BY <1>1, <4>1, <4>2 DEF KeysOK, KeysApart
        <3> QED BY <3>1, <3>2
    <2> QED BY <2>1, <2>2, NextFrame
<1>2. ASSUME NEW v \in Workers, NEW w \in Workers, v # w, Settling(job'[v]), Settling(job'[w])
      PROVE  job'[v].tr # job'[w].tr \/ job'[v].out # job'[w].out
    <2>1. ASSUME NEW x \in Workers, NEW y \in Workers, x # y, Settling(job'[y]),
                 job[x].pc = "key", job'[x].tr = job[x].tr, job'[x].out = job[x].out,
                 \A k \in keys : ~(k[1] = job[x].tr /\ k[2] = job[x].out), job'[y] = job[y]
          PROVE  job'[x].tr # job'[y].tr \/ job'[x].out # job'[y].out
        <3>1. <<job[y].tr, job[y].out, job[y].p>> \in keys BY <2>1 DEF KeysOK, KeysOwned
        <3> QED BY <2>1, <3>1
    <2>2. CASE /\ Settling(job[v]) /\ job'[v].tr = job[v].tr /\ job'[v].out = job[v].out
               /\ Settling(job[w]) /\ job'[w].tr = job[w].tr /\ job'[w].out = job[w].out
        BY <1>2, <2>2 DEF KeysOK, KeysApart
    <2> QED BY <1>2, <2>1, <2>2, EntersSettling
<1> QED BY <1>1, <1>2 DEF KeysApart

LEMMA NextKeysOwned ==
    ASSUME PayInv, KeysOK, [Next]_vars
    PROVE  KeysOwned'
<1>1. keys \subseteq keys' /\ PayTypeOK /\ PayTypeOK' /\ \A w \in Workers : JobOK(job[w])
    BY NextInv, KeysGrow DEF PayInv
<1>2. ASSUME NEW w \in Workers, Settling(job'[w])
      PROVE  <<job'[w].tr, job'[w].out, job'[w].p>> \in keys'
    <2>1. CASE Settling(job[w]) /\ job'[w].p = job[w].p /\ job'[w].tr = job[w].tr /\ job'[w].out = job[w].out
        BY <1>1, <2>1 DEF KeysOK, KeysOwned
    <2> QED BY <1>2, <2>1, EntersSettling
<1>3. ASSUME NEW w \in Workers, job'[w].pc = "cook"
      PROVE  <<job'[w].tr, job'[w].out, job'[w].p>> \in keys'
    <2>1. CASE job'[w] = job[w] BY <1>1, <1>3, <2>1 DEF KeysOK, KeysOwned
    <2>2. CASE CommitSettlement(w) /\ job'[w].p = job[w].p /\ job'[w].tr = job[w].tr /\ job'[w].out = job[w].out
        <3>1. Settling(job[w]) BY <2>2 DEF CommitSettlement, Settling
        <3> QED BY <1>1, <2>2, <3>1 DEF KeysOK, KeysOwned
    <2> QED BY <1>3, <2>1, <2>2, EntersCook
<1>4. ASSUME NEW k \in keys' PROVE row'[k[3]] # "ABSENT" /\ remote'[k[3]] = k[2]
    <2>1. CASE k \in keys BY <2>1, KeyedStands DEF KeysOK
    <2>2. CASE k \notin keys
        <3>1. PICK w \in Workers : RecordKey(w) BY <1>4, <2>2, NextFrame
        <3>2. /\ job[w].pc = "key" /\ k = <<job[w].tr, job[w].out, job[w].p>> /\ UNCHANGED <<row, remote>>
            BY <1>4, <2>2, <3>1 DEF RecordKey
        <3>3. row[job[w].p] # "ABSENT" /\ remote[job[w].p] = job[w].out
            BY <1>1, <3>2 DEF JobOK, Trusted
        <3> QED BY <3>2, <3>3
    <2> QED BY <2>1, <2>2
<1> QED BY <1>2, <1>3, <1>4 DEF KeysOwned

(* The trace of a key for a payment that was only named with its own.      *)
LEMMA OwnKey ==
    ASSUME NEW K, NEW t, <<t.tr, t.out, t.p>> \in K, \A k \in K : k[1] = t.p <=> k[3] = t.p
    PROVE  t.tr = t.p
<1> DEFINE c == <<t.tr, t.out, t.p>>
<1>1. c \in K /\ c[1] = t.tr /\ c[3] = t.p OBVIOUS
<1> HIDE DEF c
<1> QED BY <1>1

LEMMA OwnTrace ==
    ASSUME PayInv, KeysOwned, NEW w \in Workers, Settling(job[w]), Matched(job[w].p)
    PROVE  /\ job[w].p \in Pays /\ job[w].tr = job[w].p /\ job[w].out = remote[job[w].p]
           /\ job[w].o = payOf[job[w].p]
<1>1. JobOK(job[w]) BY DEF PayInv
<1>2. /\ job[w].p \in Pays /\ job[w].out = remote[job[w].p] /\ payOf[job[w].tr] = job[w].o
    BY <1>1 DEF JobOK, Notified, Trusted, Settling
<1>3. job[w].tr = job[w].p BY OwnKey DEF KeysOwned, Matched
<1> QED BY <1>2, <1>3

LEMMA NextSettlersAlone ==
    ASSUME PayInv, KeysOK, [Next]_vars
    PROVE  SettlersAlone'
<1>1. /\ PayTypeOK /\ PayInv' /\ keys \subseteq keys' /\ KeysOwned' /\ KeysApart'
      /\ \A w \in Workers : JobOK(job[w]) /\ JobOK(job[w])'
    BY NextInv, KeysGrow, NextKeysOwned, NextKeysApart DEF PayInv
<1>2. ASSUME NEW p \in Pays, row'[p] \in {"SUCCESS", "FAILED"}
      PROVE  \E k \in keys' : k[3] = p /\ k[2] = remote'[p]
    <2>1. CASE row[p] \in {"SUCCESS", "FAILED"}
        <3>1. PICK k \in keys : k[3] = p /\ k[2] = remote[p] BY <2>1 DEF KeysOK, SettlersAlone
        <3>2. remote'[p] = remote[p] BY <2>1, KeysGrow
        <3> QED BY <1>1, <3>1, <3>2
    <2>2. CASE row[p] \notin {"SUCCESS", "FAILED"}
        <3>1. ASSUME NEW w \in Workers, CommitPayment(w) PROVE FALSE
            BY <1>1, <1>2, <2>2, <3>1 DEF CommitPayment, PayTypeOK
        <3>2. PICK w \in Workers : CommitSettlement(w) BY <1>2, <2>2, <3>1, RowSteps
        <3>3. job[w].p = p /\ remote[p] = job[w].out /\ UNCHANGED <<remote, keys>>
            BY <1>2, <2>2, <3>2, SettlementWrites DEF CommitSettlement
        <3> DEFINE k == <<job[w].tr, job[w].out, job[w].p>>
        <3>4. k \in keys /\ k[2] = job[w].out /\ k[3] = job[w].p
            BY <3>2 DEF KeysOK, KeysOwned, CommitSettlement, Settling
        <3> HIDE DEF k
        <3> QED BY <3>3, <3>4
    <2> QED BY <2>1, <2>2
<1>3. ASSUME NEW v \in Workers, NEW w \in Workers, v # w, Settling(job'[v]), Settling(job'[w]),
             job'[v].p = job'[w].p, Matched(job[v].p)'
      PROVE  FALSE
    <2>1. job'[v].tr = job'[w].tr /\ job'[v].out = job'[w].out
        <3>1. \A u \in Workers : (Settling(job'[u]) /\ Matched(job[u].p)') =>
                 job'[u].tr = job'[u].p /\ job'[u].out = remote'[job'[u].p]
            <4> TAKE u \in Workers
            <4> HAVE Settling(job'[u]) /\ Matched(job[u].p)'
            <4>1. job'[u].tr = job'[u].p BY <1>1, OwnKey DEF KeysOwned, Matched
            <4> QED BY <1>1, <4>1 DEF JobOK, Trusted, Settling
        <3>2. Matched(job[w].p)' BY <1>3 DEF Matched
        <3> QED BY <1>3, <3>1, <3>2
    <2> QED BY <1>1, <1>3, <2>1 DEF KeysApart
<1>4. ASSUME NEW w \in Workers, Settling(job'[w]), Matched(job[w].p)'
      PROVE  row'[job'[w].p] = "PENDING"
    <2> DEFINE p == job'[w].p
    <2>1. /\ p \in Pays /\ row'[p] \in {"PENDING", "SUCCESS", "FAILED"} /\ remote'[p] = job'[w].out
        BY <1>1, <1>4 DEF JobOK, Trusted, Settling, PayInv, PayTypeOK
    <2>2. \A k \in keys' : k[1] = p <=> k[3] = p BY <1>4 DEF Matched
    <2> HIDE DEF p
    <2>3. Matched(p) BY <2>2, MatchedBefore
    <2>4. CASE Settling(job[w]) /\ job'[w].p = job[w].p
        <3>1. row[p] = "PENDING" BY <2>3, <2>4 DEF KeysOK, SettlersAlone, p
        <3>2. CASE UNCHANGED row BY <3>1, <3>2 DEF p
        <3>3. ASSUME NEW v \in Workers, CommitPayment(v) PROVE row'[p] = "PENDING"
            BY <1>1, <2>1, <3>1, <3>3 DEF CommitPayment, PayTypeOK
        <3>4. ASSUME NEW v \in Workers, CommitSettlement(v) PROVE row'[p] = "PENDING"
            <4>1. Settling(job[v]) BY <3>4 DEF CommitSettlement, Settling
            <4>2. v # w
                <5>1. job'[v].pc \in {"cook", "idle"}
                    <6>1. job[v] \in Job BY <1>1 DEF PayTypeOK
                    <6>2. \/ job'[v] = [job[v] EXCEPT !.pc = "cook"]
                          \/ job'[v] = NoJob
                        BY <1>1, <3>4 DEF CommitSettlement, Answer, Goto, PayTypeOK
                    <6> QED BY <6>1, <6>2, NoJobFields DEF Job
                <5> QED BY <1>4, <5>1 DEF Settling
            <4>3. job[v].p # p
                <5>1. job[w].p = p BY <2>4 DEF p
                <5> QED BY <2>3, <2>4, <4>1, <4>2, <5>1 DEF KeysOK, SettlersAlone
            <4> QED BY <2>1, <3>1, <3>4, <4>3, SettlementWrites
        <3> QED BY <3>2, <3>3, <3>4, RowSteps DEF p
    <2>5. CASE /\ job[w].pc = "key" /\ job'[w].p = job[w].p /\ job'[w].tr = job[w].tr
               /\ job'[w].out = job[w].out
               /\ \A k \in keys : ~(k[1] = job[w].tr /\ k[2] = job[w].out)
               /\ UNCHANGED <<row, remote>>
        <3>1. job'[w].tr = p BY <1>1, <1>4, OwnKey DEF KeysOwned, Matched, p
        <3>2. ASSUME row[p] \in {"SUCCESS", "FAILED"} PROVE FALSE
            <4>1. PICK k \in keys : k[3] = p /\ k[2] = remote[p] BY <2>1, <3>2 DEF KeysOK, SettlersAlone
            <4>2. k[1] = p BY <2>3, <4>1 DEF Matched
            <4> QED BY <2>1, <2>5, <3>1, <4>1, <4>2
        <3> QED BY <2>1, <2>5, <3>2 DEF p
    <2> QED BY <1>4, <2>4, <2>5, EntersSettling
<1> QED BY <1>2, <1>3, <1>4 DEF SettlersAlone

(* confirm_payment and fail_payment commit their idempotency key before    *)
(* they look at the payment: however often a notification is repeated and  *)
(* whatever else is in flight, one request ever goes on for a trace and an *)
(* outcome, and nobody settles a payment the provider has not settled so.  *)
(* The key does not name the payment: that one request at a time may       *)
(* settle a payment, and finds it PENDING, holds as long as no body named  *)
(* the payment with another's trace, or its trace with another payment.    *)
THEOREM SettledOnce == Spec => []KeysOK
<1>1. Init => KeysOK
    BY NoJobFields DEF Init, KeysOK, KeysApart, KeysOwned, SettlersAlone, Settling
<1>2. PayInv /\ KeysOK /\ [Next]_vars => KeysOK'
    BY NextKeysApart, NextKeysOwned, NextSettlersAlone DEF KeysOK
<1> QED BY <1>1, <1>2, PaymentsInvariant, PTL DEF Spec

---------------------------------------------------------------------------
(* An order is PAID or cooked only after a request confirmed it under the  *)
(* trace of a payment of its own, and recorded as SUCCESS the payment the  *)
(* body named; or somebody sent the event through the events route, which  *)
(* asks for no payment (the order is then in steered).                     *)
THEOREM PaidIsCharged == Spec => []PaidOnlyIfCharged
<1> DEFINE Paid == {"PAID"} \cup CookedStates
           Charged(o) == \E k \in keys : payOf[k[1]] = o /\ k[2] = "succeeded" /\ row[k[3]] = "SUCCESS"
<1>1. Init => PaidOnlyIfCharged BY DEF Init, PaidOnlyIfCharged, CookedStates
<1>2. PayInv /\ KeysOK /\ PaidOnlyIfCharged /\ [Next]_vars => PaidOnlyIfCharged'
    <2> SUFFICES ASSUME PayInv, KeysOK, PaidOnlyIfCharged, [Next]_vars,
                        NEW o \in Orders, o \notin steered', order'[o] \in Paid
                 PROVE  Charged(o)'
        BY DEF PaidOnlyIfCharged
    <2>0. o \notin steered /\ keys \subseteq keys' BY SteeredGrows, KeysGrow
    <2>1. ASSUME NEW k \in keys, payOf[k[1]] = o, k[2] = "succeeded", row'[k[3]] = "SUCCESS"
          PROVE  Charged(o)'
        <3>1. k[1] \in Pays BY KeyedStands DEF KeysOK
        <3>2. payOf'[k[1]] = o BY <2>1, <3>1, PayOfStays
        <3> QED BY <2>0, <2>1, <3>2
    <2>2. CASE order[o] \in Paid
        <3>1. PICK k \in keys : payOf[k[1]] = o /\ k[2] = "succeeded" /\ row[k[3]] = "SUCCESS"
            BY <2>0, <2>2 DEF PaidOnlyIfCharged
        <3>2. k[3] \in Pays BY KeyedStands DEF KeysOK
        <3>3. row'[k[3]] = "SUCCESS" BY <3>1, <3>2, RowsFinal
        <3> QED BY <2>1, <3>1, <3>3
    <2>3. ASSUME NEW w \in Workers, CommitSettlement(w), job[w].o = o, job[w].out = "succeeded"
          PROVE  Charged(o)'
        <3> DEFINE k == <<job[w].tr, job[w].out, job[w].p>>
        <3>1. k \in keys BY <2>3 DEF KeysOK, KeysOwned, CommitSettlement, Settling
        <3>2. k[1] = job[w].tr /\ k[2] = "succeeded" /\ k[3] = job[w].p BY <2>3
        <3>3. payOf[job[w].tr] = o /\ row'[job[w].p] = "SUCCESS" BY <2>3, SettlementWrites
        <3> HIDE DEF k
        <3> QED BY <2>1, <3>1, <3>2, <3>3
    <2>4. ASSUME NEW w \in Workers, StartCooking(w), job[w].o = o
          PROVE  Charged(o)'
        <3> DEFINE k == <<job[w].tr, job[w].out, job[w].p>>
        <3>1. job[w].pc = "cook" /\ JobOK(job[w]) BY <2>4 DEF PayInv, StartCooking
        <3>2. /\ job[w].p \in Pays /\ payOf[job[w].tr] = o /\ row[job[w].p] = "SUCCESS"
              /\ remote[job[w].p] = job[w].out
            BY <2>4, <3>1 DEF JobOK, Notified, Trusted
        <3>3. job[w].out = "succeeded" BY <3>2 DEF PayInv, OutcomeMatchesProvider
        <3>4. row'[job[w].p] = "SUCCESS" BY <3>2, RowsFinal
        <3>5. k \in keys BY <3>1 DEF KeysOK, KeysOwned
        <3>6. k[1] = job[w].tr /\ k[2] = "succeeded" /\ k[3] = job[w].p BY <3>3
        <3> HIDE DEF k
        <3> QED BY <2>1, <3>2, <3>4, <3>5, <3>6
    <2>5. ASSUME NEW edge \in ORDER_TRANSITIONS, order[o] = edge[1], order'[o] = edge[3], ~Steers(edge)
          PROVE  order[o] \in Paid
        BY <2>5 DEF ORDER_TRANSITIONS, CookedStates, Steers
    <2>6. \/ order[o] \in Paid
          \/ \E w \in Workers : CommitSettlement(w) /\ job[w].o = o /\ job[w].out = "succeeded"
          \/ \E w \in Workers : StartCooking(w) /\ job[w].o = o
        <3>1. OrderMoves(o) BY OrdersMove
        <3> QED BY <2>5, <3>1 DEF OrderMoves, CookedStates
    <2> QED BY <2>2, <2>3, <2>4, <2>6
<1> QED BY <1>1, <1>2, PaymentsInvariant, SettledOnce, PTL DEF Spec

---------------------------------------------------------------------------
(* An order never returns to CONFIRMED or PAYMENT_PENDING, unless an event *)
(* from outside steers it.                                                 *)
LEMMA LeavesForGood ==
    ASSUME PayInv, [Next]_vars, NEW o \in Orders, o \notin steered',
           order[o] \notin {"CONFIRMED", "PAYMENT_PENDING"}
    PROVE  order'[o] \notin {"CONFIRMED", "PAYMENT_PENDING"}
<1>1. OrderMoves(o) BY OrdersMove
<1>2. ASSUME NEW edge \in ORDER_TRANSITIONS, order[o] = edge[1], order'[o] = edge[3], ~Steers(edge)
      PROVE  order'[o] \notin {"CONFIRMED", "PAYMENT_PENDING"}
    BY <1>2 DEF ORDER_TRANSITIONS, Steers
<1> QED BY <1>1, <1>2 DEF OrderMoves

(* The part of the invariant about orders with one payment.                *)
LEMMA LonePayStep ==
    ASSUME PayInv, KeysOK, LonePaysOK, [Next]_vars, NEW p \in Pays, payOf[p] \in Orders,
           LonePay(p)', Matched(p)', payOf'[p] \notin steered'
    PROVE  LonePayOK(p)'
<1> DEFINE o == payOf[p]
<1>1. payOf'[p] = o /\ LonePay(p) BY PayOfStays DEF LonePay, PayInv
<1>0. Matched(p) /\ o \notin steered /\ o \notin steered'
    <2>1. Matched(p) BY MatchedBefore DEF Matched
    <2> QED BY <1>1, <2>1, SteeredGrows
<1>2. LonePayOK(p) BY <1>0, <1>1 DEF LonePaysOK
<1>3. ASSUME NEW w \in Workers, Settling(job[w]) PROVE job[w].o = o <=> job[w].p = p
    <2>1. CASE job[w].p = p BY <1>0, <1>3, <2>1, OwnTrace DEF KeysOK
    <2>2. CASE job[w].o = o
        <3>1. job[w].tr \in Pays /\ payOf[job[w].tr] = o
            BY <1>3, <2>2 DEF PayInv, JobOK, Notified, Trusted, Settling
        <3>2. job[w].tr = p BY <1>1, <3>1 DEF LonePay
        <3> DEFINE k == <<job[w].tr, job[w].out, job[w].p>>
        <3>3. k \in keys /\ k[1] = job[w].tr /\ k[3] = job[w].p BY <1>3 DEF KeysOK, KeysOwned
        <3> HIDE DEF k
        <3>4. job[w].p = p BY <1>0, <3>2, <3>3 DEF Matched
        <3> QED BY <2>2, <3>4
    <2> QED BY <2>1, <2>2
<1>4. (row[p] # "ABSENT" /\ row'[p] \in {"PENDING", "SUCCESS"}) => order'[o] # "CONFIRMED"
    <2> SUFFICES ASSUME row[p] # "ABSENT", row'[p] \in {"PENDING", "SUCCESS"}, order'[o] = "CONFIRMED"
                 PROVE  FALSE
        OBVIOUS
    <2>1. row[p] \in {"PENDING", "SUCCESS"} BY RowsFinal DEF PayInv, PayTypeOK
    <2>2. order[o] # "CONFIRMED" BY <1>2, <2>1 DEF LonePayOK
    <2>3. ASSUME NEW w \in Workers, CommitSettlement(w), job[w].o = o, job[w].out # "succeeded" PROVE FALSE
        <3>1. job[w].p = p BY <1>3, <2>3 DEF CommitSettlement, Settling
        <3>2. row'[p] = "FAILED" BY <2>3, <3>1, SettlementWrites
        <3> QED BY <3>2
    <2>4. ASSUME NEW edge \in ORDER_TRANSITIONS, order'[o] = edge[3] PROVE Steers(edge)
        BY <2>4 DEF ORDER_TRANSITIONS, Steers
    <2>5. OrderMoves(o) BY OrdersMove
    <2> QED BY <1>0, <2>2, <2>3, <2>4, <2>5 DEF OrderMoves
<1>5. (row[p] = "ABSENT" /\ row'[p] # "ABSENT") => row'[p] = "PENDING" /\ order'[o] # "CONFIRMED"
    <2> SUFFICES ASSUME row[p] = "ABSENT", row'[p] # "ABSENT"
                 PROVE  row'[p] = "PENDING" /\ order'[o] # "CONFIRMED"
        OBVIOUS
    <2>1. ASSUME NEW w \in Workers, CommitSettlement(w) PROVE FALSE BY <2>1, SettlementWrites
    <2>2. PICK w \in Workers : CommitPayment(w) BY <2>1, RowSteps
    <2>3. JobOK(job[w]) /\ job[w].pc = "pcommit" BY <2>2 DEF PayInv, CommitPayment
    <2>4. row' = [row EXCEPT ![job[w].p] = "PENDING"] BY <2>2 DEF CommitPayment
    <2>5. job[w].p = p /\ row'[p] = "PENDING" BY <2>4 DEF PayInv, PayTypeOK
    <2>6. job[w].o = o BY <2>3, <2>5 DEF JobOK, Creating
    <2>7. order'[o] = IF job[w].moved THEN "PAYMENT_PENDING" ELSE order[o]
        BY <2>2, <2>6 DEF CommitPayment, PayInv, PayTypeOK
    <2> QED BY <2>3, <2>5, <2>6, <2>7 DEF JobOK
<1>6. row'[p] = "SUCCESS" => order'[o] # "PAYMENT_PENDING"
    <2> SUFFICES ASSUME row'[p] = "SUCCESS" PROVE order'[o] # "PAYMENT_PENDING" OBVIOUS
    <2>1. CASE row[p] = "SUCCESS" BY <1>0, <1>2, <2>1, LeavesForGood DEF LonePayOK
    <2>2. CASE row[p] # "SUCCESS"
        <3>1. ASSUME NEW w \in Workers, CommitPayment(w) PROVE FALSE
            BY <2>2, <3>1 DEF CommitPayment, PayInv, PayTypeOK
        <3>2. PICK w \in Workers : CommitSettlement(w) BY <2>2, <3>1, RowSteps
        <3>3. /\ job[w].p = p /\ job[w].o = o /\ job[w].out = "succeeded" /\ job[w].pc = "wcommit"
              /\ order'[o] = IF ~job[w].moved THEN order[o] ELSE "PAID"
            <4>1. /\ job[w].p \in Pays
                  /\ row'[job[w].p] = IF job[w].out = "succeeded" THEN "SUCCESS" ELSE "FAILED"
                  /\ \A q \in Pays : q # job[w].p => row'[q] = row[q]
                  /\ order'[job[w].o] = IF ~job[w].moved THEN order[job[w].o]
                                        ELSE IF job[w].out = "succeeded" THEN "PAID" ELSE "CONFIRMED"
                BY <3>2, SettlementWrites
            <4>2. job[w].p = p BY <2>2, <4>1
            <4>3. job[w].pc = "wcommit" BY <3>2 DEF CommitSettlement
            <4>4. job[w].o = o BY <1>3, <4>2, <4>3 DEF Settling
            <4> QED BY <4>1, <4>2, <4>3, <4>4
        <3> QED BY <1>2, <3>3 DEF LonePayOK
    <2> QED BY <2>1, <2>2
<1>7. ASSUME NEW w \in Workers, job'[w].p = p, job'[w].pc = "wcommit", ~job'[w].moved
      PROVE  order'[o] \notin {"CONFIRMED", "PAYMENT_PENDING"}
    <2>1. CASE job'[w] = job[w] BY <1>0, <1>2, <1>7, <2>1, LeavesForGood DEF LonePayOK
    <2>2. ASSUME job[w].p = p, Settling(job[w]) PROVE order[o] # "CONFIRMED"
        <3>1. row[p] = "PENDING" BY <1>0, <2>2 DEF KeysOK, SettlersAlone
        <3> QED BY <1>2, <3>1 DEF LonePayOK
    <2>3. CASE WritePayment(w)
        <3>1. JobOK(job[w]) /\ job[w] \in Job /\ job[w].pc = "settle" /\ UNCHANGED order
            BY <2>3 DEF PayInv, PayTypeOK, WritePayment
        <3> DEFINE pc == IF SettleEvent(w) \in Allowed(ORDER_TRANSITIONS, order[job[w].o])
                         THEN "lock" ELSE "wcommit"
                   t == [job[w] EXCEPT !.pc = pc, !.from = order[job[w].o]]
        <3>2. job'[w] = t BY <2>3 DEF WritePayment, Goto, PayInv, PayTypeOK
        <3>3. t.pc = pc /\ t.p = job[w].p /\ t.out = job[w].out BY <3>1 DEF Job
        <3>4. pc = "wcommit" /\ job[w].p = p BY <1>7, <3>2, <3>3
        <3>5. job[w].o = o /\ Settling(job[w]) BY <1>3, <3>1, <3>4 DEF Settling
        <3>6. order[o] # "PAYMENT_PENDING" BY <3>4, <3>5, PaymentEdges DEF SettleEvent
        <3> QED BY <2>2, <3>1, <3>4, <3>5, <3>6
    <2>4. CASE LockOrder(w)
        <3>1. JobOK(job[w]) /\ job[w] \in Job /\ job[w].pc = "lock" /\ UNCHANGED order
            BY <2>4 DEF PayInv, PayTypeOK, LockOrder
        <3> DEFINE t == [job[w] EXCEPT !.pc = "wcommit", !.moved = (order[job[w].o] = job[w].from)]
        <3>2. job'[w] = t BY <2>4 DEF LockOrder, Goto, PayInv, PayTypeOK
        <3>3. t.p = job[w].p /\ t.out = job[w].out /\ t.moved = (order[job[w].o] = job[w].from)
            BY <3>1 DEF Job
        <3>4. job[w].p = p /\ order[job[w].o] # job[w].from BY <1>7, <3>2, <3>3
        <3>5. job[w].o = o /\ Settling(job[w]) /\ job[w].from = "PAYMENT_PENDING"
            BY <1>3, <3>1, <3>4 DEF JobOK, Settling
        <3> QED BY <2>2, <3>1, <3>4, <3>5
    <2> QED BY <1>7, <2>1, <2>3, <2>4, EntersCommit
<1>8. row'[p] \in {"PENDING", "SUCCESS"} => order'[o] # "CONFIRMED" BY <1>4, <1>5
<1> QED BY <1>1, <1>6, <1>7, <1>8 DEF LonePayOK

LEMMA LonePaysInvariant == Spec => []LonePaysOK
<1>1. Init => LonePaysOK
    BY PaymentsAssumption DEF Init, LonePaysOK, LonePay
<1>2. PayInv /\ KeysOK /\ LonePaysOK /\ [Next]_vars => LonePaysOK'
    <2> SUFFICES ASSUME PayInv, KeysOK, LonePaysOK, [Next]_vars, NEW p \in Pays,
                        LonePay(p)', Matched(p)', payOf'[p] \notin steered'
                 PROVE  LonePayOK(p)'
        BY DEF LonePaysOK
    <2>1. CASE payOf[p] \in Orders BY <2>1, LonePayStep
    <2>2. CASE payOf[p] \notin Orders
        <3>1. PayInv' BY NextInv
        <3>2. row[p] = "ABSENT" BY <2>2 DEF PayInv, PaysKnown
        <3>3. ASSUME NEW w \in Workers, CommitPayment(w) \/ CommitSettlement(w) PROVE job[w].p # p
            BY <2>2, <3>2, <3>3, SettlementWrites DEF PayInv, JobOK, Creating, CommitPayment
        <3>4. row'[p] = "ABSENT" BY <3>2, <3>3, RowSteps DEF CommitPayment, CommitSettlement, PayInv, PayTypeOK
        <3>5. \A w \in Workers : job'[w].pc = "wcommit" => job'[w].p # p
            BY <3>1, <3>4 DEF PayInv, JobOK, Trusted
        <3> QED BY <3>4, <3>5 DEF LonePayOK
    <2> QED BY <2>1, <2>2
<1> QED BY <1>1, <1>2, PaymentsInvariant, SettledOnce, PTL DEF Spec

(* An order whose only payment is recorded SUCCESS is not left waiting for *)
(* it, not even by a restart between any two commits; unless a body named  *)
(* the payment with another's trace, whose order is then moved, or an      *)
(* event from outside steered the order meanwhile.                         *)
THEOREM CaptureMoves == Spec => []CaptureMovesOrder
<1>1. PayInv /\ LonePaysOK => CaptureMovesOrder
    BY DEF PayInv, PaysKnown, LonePaysOK, LonePay, LonePayOK, CaptureMovesOrder
<1> QED BY <1>1, PaymentsInvariant, LonePaysInvariant, PTL

---------------------------------------------------------------------------
(* An order that was paid for does not go back.                            *)
LEMMA PaidStays ==
    ASSUME PayInv, [Next]_vars, NEW o \in Orders,
           order[o] \notin {"DRAFT", "CONFIRMED", "PAYMENT_PENDING"}
    PROVE  order'[o] \notin {"DRAFT", "CONFIRMED", "PAYMENT_PENDING"}
<1>1. OrderMoves(o) BY OrdersMove
<1>2. ASSUME NEW edge \in ORDER_TRANSITIONS, order[o] = edge[1], order'[o] = edge[3]
      PROVE  order'[o] \notin {"DRAFT", "CONFIRMED", "PAYMENT_PENDING"}
    BY <1>2 DEF ORDER_TRANSITIONS
<1> QED BY <1>1, <1>2 DEF OrderMoves

LEMMA CooksInvariant == Spec => []CooksPaid
<1>1. Init => CooksPaid BY NoJobFields DEF Init, CooksPaid
<1>2. PayInv /\ CooksPaid /\ [Next]_vars => CooksPaid'
    <2> SUFFICES ASSUME PayInv, CooksPaid, [Next]_vars, NEW w \in Workers, job'[w].pc = "cook"
                 PROVE  order'[job'[w].o] \notin {"DRAFT", "CONFIRMED", "PAYMENT_PENDING"}
        BY DEF CooksPaid
    <2>1. CASE job'[w] = job[w]
        <3>1. job[w].o \in Orders BY <2>1 DEF PayInv, JobOK
        <3>2. order[job[w].o] \notin {"DRAFT", "CONFIRMED", "PAYMENT_PENDING"} BY <2>1 DEF CooksPaid
        <3> QED BY <2>1, <3>1, <3>2, PaidStays
    <2>2. CASE CommitSettlement(w) /\ job[w].moved /\ job[w].out = "succeeded" /\ job'[w].o = job[w].o
        <3>1. order'[job[w].o] = "PAID" BY <2>2, SettlementWrites
        <3> QED BY <2>2, <3>1
    <2> QED BY <2>1, <2>2, EntersCook
<1> QED BY <1>1, <1>2, PaymentsInvariant, PTL DEF Spec

---------------------------------------------------------------------------
(* The refinement, commit by commit: each is a step of the contract, or    *)
(* leaves what the contract shows as it was.                               *)
PromiseKept == Promise!Proceed \/ UNCHANGED <<order, payOf, row, keys, steered>>

LEMMA CommitPaymentRecords ==
    ASSUME PayInv, NEW w \in Workers, CommitPayment(w)
    PROVE  PromiseKept
<1> DEFINE p == job[w].p
           o == job[w].o
<1>1. JobOK(job[w]) /\ job[w].pc = "pcommit" /\ PayTypeOK BY DEF PayInv, CommitPayment
<1>2. /\ p \in Pays /\ o \in Orders /\ payOf[p] = o /\ row[p] = "ABSENT"
      /\ order[o] = job[w].from /\ (job[w].moved <=> job[w].from = "CONFIRMED")
    BY <1>1 DEF JobOK, Creating
<1>3. order' = [order EXCEPT ![o] = IF order[o] = "CONFIRMED" THEN "PAYMENT_PENDING" ELSE order[o]]
    <2>1. order' = [order EXCEPT ![o] = IF job[w].moved THEN "PAYMENT_PENDING" ELSE order[o]]
        BY DEF CommitPayment
    <2>2. job[w].moved <=> order[o] = "CONFIRMED" BY <1>2
    <2> QED BY <2>1, <2>2
<1>4. row' = [row EXCEPT ![p] = "PENDING"] /\ UNCHANGED <<payOf, keys, steered>> BY DEF CommitPayment
<1>5. Promise!RecordPayment(p) BY <1>2, <1>3, <1>4 DEF Promise!RecordPayment, Promise!Awaiting
<1>6. \E q \in Pays : Promise!RecordPayment(q) BY <1>2, <1>5
<1> QED BY <1>6 DEF PromiseKept, Promise!Proceed, Promise!pvars

(* The key is the contract's claim.                                        *)
LEMMA RecordKeyClaims ==
    ASSUME PayInv, NEW w \in Workers, RecordKey(w)
    PROVE  PromiseKept
<1>1. UNCHANGED <<order, payOf, row, steered>> BY DEF RecordKey
<1>2. CASE UNCHANGED keys BY <1>1, <1>2 DEF PromiseKept
<1>3. CASE ~UNCHANGED keys
    <2> DEFINE c == <<job[w].tr, job[w].out, job[w].p>>
    <2>1. /\ job[w].pc = "key" /\ keys' = keys \cup {c}
          /\ \A k \in keys : ~(k[1] = job[w].tr /\ k[2] = job[w].out)
        BY <1>3 DEF RecordKey
    <2>2. payOf[job[w].tr] \in Orders /\ row[job[w].p] # "ABSENT"
        BY <2>1 DEF PayInv, JobOK, Notified, Trusted
    <2>3. c[1] = job[w].tr /\ c[2] = job[w].out /\ c[3] = job[w].p OBVIOUS
    <2> HIDE DEF c
    <2>4. Promise!Claim(c) BY <1>1, <2>1, <2>2, <2>3 DEF Promise!Claim
    <2>5. \E d \in keys' : Promise!Claim(d) BY <2>1, <2>4
    <2> QED BY <2>5 DEF PromiseKept, Promise!Proceed, Promise!pvars
<1> QED BY <1>2, <1>3

LEMMA CommitSettlementSettles ==
    ASSUME PayInv, KeysOK, LonePaysOK, NEW w \in Workers, CommitSettlement(w)
    PROVE  PromiseKept
<1> DEFINE p == job[w].p
           o == job[w].o
           q == job[w].tr
           out == job[w].out
           c == <<q, out, p>>
<1>1. JobOK(job[w]) /\ job[w].pc = "wcommit" /\ PayTypeOK /\ Settling(job[w])
    BY DEF PayInv, CommitSettlement, Settling
<1>2. /\ p \in Pays /\ o \in Orders /\ payOf[q] = o /\ out \in Outcome
      /\ remote[p] = out /\ row[p] # "ABSENT"
    BY SettlementWrites
<1>3. c \in keys /\ c[1] = q /\ c[2] = out /\ c[3] = p BY <1>1 DEF KeysOK, KeysOwned
<1>4. row' = [row EXCEPT ![p] = Promise!Recorded(out)] /\ UNCHANGED <<payOf, keys, steered>>
    BY DEF CommitSettlement, Promise!Recorded
<1>5. /\ order' \in [Orders -> OrderState] /\ order \in [Orders -> OrderState]
      /\ order'[o] = IF ~job[w].moved THEN order[o] ELSE IF out = "succeeded" THEN "PAID" ELSE "CONFIRMED"
      /\ \A r \in Orders : r # o => order'[r] = order[r]
    BY <1>1, SettlementWrites DEF PayTypeOK
<1>6. Promise!OwnClaims(p) <=> Matched(p) BY DEF Promise!OwnClaims, Matched
<1>7. row[p] = "PENDING" \/ (row[p] = Promise!Recorded(out) /\ ~Promise!OwnClaims(p))
    <2>1. CASE Matched(p) BY <1>1, <2>1 DEF KeysOK, SettlersAlone
    <2>2. CASE ~Matched(p)
        <3>1. row[p] \in {"PENDING", "SUCCESS", "FAILED"} BY <1>1, <1>2 DEF PayTypeOK
        <3> QED BY <1>2, <1>6, <2>2, <3>1 DEF PayInv, OutcomeMatchesProvider, Promise!Recorded
    <2> QED BY <2>1, <2>2
<1>8. CASE job[w].moved
    <2>1. order[o] = "PAYMENT_PENDING" BY <1>1, <1>8 DEF JobOK
    <2>2. order' = [order EXCEPT ![o] = IF out = "succeeded" THEN "PAID" ELSE "CONFIRMED"]
        BY <1>2, <1>5, <1>8
    <2>3. Promise!SettlePayment(q, out, p)
        BY <1>2, <1>4, <1>7, <2>1, <2>2 DEF Promise!SettlePayment
    <2> HIDE DEF c
    <2>4. \E d \in keys : Promise!SettlePayment(d[1], d[2], d[3]) BY <1>3, <2>3
    <2> QED BY <2>4 DEF PromiseKept, Promise!Proceed, Promise!pvars
<1>9. CASE ~job[w].moved
    <2>1. order' = order BY <1>5, <1>9
    <2>2. ASSUME Matched(p), Promise!OnlyPayment(p), order[o] = "PAYMENT_PENDING" PROVE payOf[p] \in steered
        <3>1. payOf[p] = o BY <1>1, <2>2, OwnTrace DEF KeysOK
        <3>2. LonePay(p) BY <1>2, <2>2, <3>1 DEF Promise!OnlyPayment, LonePay
        <3> QED BY <1>1, <1>2, <1>9, <2>2, <3>1, <3>2 DEF LonePaysOK, LonePayOK
    <2>3. (order[payOf[q]] = "PAYMENT_PENDING" /\ Promise!OwnClaims(p) /\ Promise!OnlyPayment(p))
             => payOf[p] \in steered
        BY <1>2, <1>6, <2>2
    <2>4. Promise!SettlePayment(q, out, p)
        BY <1>4, <1>7, <2>1, <2>3 DEF Promise!SettlePayment
    <2> HIDE DEF c
    <2>5. \E d \in keys : Promise!SettlePayment(d[1], d[2], d[3]) BY <1>3, <2>4
    <2> QED BY <2>5 DEF PromiseKept, Promise!Proceed, Promise!pvars
<1> QED BY <1>8, <1>9

LEMMA StartCookingCooks ==
    ASSUME PayInv, KeysOK, CooksPaid, NEW w \in Workers, StartCooking(w)
    PROVE  PromiseKept
<1> DEFINE o == job[w].o
           c == <<job[w].tr, job[w].out, job[w].p>>
<1>1. JobOK(job[w]) /\ job[w].pc = "cook" BY DEF PayInv, StartCooking
<1>2. /\ o \in Orders /\ job[w].p \in Pays /\ payOf[job[w].tr] = o /\ row[job[w].p] = "SUCCESS"
      /\ remote[job[w].p] = job[w].out
    BY <1>1 DEF JobOK, Notified, Trusted
<1>3. UNCHANGED <<payOf, row, keys, steered>> BY DEF StartCooking
<1>4. c \in keys /\ c[1] = job[w].tr /\ c[2] = "succeeded" /\ c[3] = job[w].p
    <2>1. job[w].out = "succeeded" BY <1>2 DEF PayInv, OutcomeMatchesProvider
    <2> QED BY <1>1, <2>1 DEF KeysOK, KeysOwned
<1> HIDE DEF c
<1>5. CASE order[o] \in {"PAID", "CONFIRMED"} /\ order' = [order EXCEPT ![o] = "COOKING"]
    <2>1. order[o] = "PAID" BY <1>1, <1>5 DEF CooksPaid
    <2>2. \E d \in keys : payOf[d[1]] = o /\ d[2] = "succeeded" /\ row[d[3]] = "SUCCESS" BY <1>2, <1>4
    <2>3. Promise!CookPaid(o) BY <1>3, <1>5, <2>1, <2>2 DEF Promise!CookPaid
    <2>4. \E r \in Orders : Promise!CookPaid(r) BY <1>2, <2>3
    <2> QED BY <2>4 DEF PromiseKept, Promise!Proceed, Promise!pvars
<1>6. CASE UNCHANGED order BY <1>3, <1>6 DEF PromiseKept
<1> QED BY <1>5, <1>6 DEF StartCooking

LEMMA StepImplements ==
    ASSUME PayInv, KeysOK, LonePaysOK, CooksPaid, [Next]_vars
    PROVE  PromiseKept
<1>1. ASSUME NEW w \in Workers, NEW o \in Orders, NEW p \in Pays, PayOrder(w, o, p) \/ CheckoutPay(w, o, p)
      PROVE  PromiseKept
    <2>1. StartCreate(w, o, p) BY <1>1 DEF PayOrder, CheckoutPay
    <2>2. order' \in {order, Promise!Awaiting(o)} BY <1>1 DEF PayOrder, CheckoutPay, Promise!Awaiting
    <2>3. Promise!StartPayment(o, p) BY <2>1, <2>2 DEF StartCreate, Promise!StartPayment
    <2>4. \E q \in Orders, r \in Pays : Promise!StartPayment(q, r) BY <2>3
    <2> QED BY <2>4 DEF PromiseKept, Promise!Proceed, Promise!pvars
<1>2. ASSUME NEW o \in Orders, NEW edge \in ORDER_TRANSITIONS, ApiEvent(o, edge) PROVE PromiseKept
    <2>1. Promise!OtherEvent(o, edge) BY <1>2 DEF ApiEvent, Promise!OtherEvent, Steers, Promise!Steers
    <2>2. \E q \in Orders, e \in ORDER_TRANSITIONS : Promise!OtherEvent(q, e) BY <2>1
    <2>3. \E q \in Orders, e \in Promise!ORDER_TRANSITIONS : Promise!OtherEvent(q, e)
        BY <2>2 DEF Promise!ORDER_TRANSITIONS, ORDER_TRANSITIONS
    <2> QED BY <2>3 DEF PromiseKept, Promise!Proceed, Promise!pvars
<1>3. ASSUME NEW w \in Workers, Step(w) PROVE PromiseKept
    <2>1. CASE CommitPayment(w) BY <2>1, CommitPaymentRecords
    <2>2. CASE CommitSettlement(w) BY <2>2, CommitSettlementSettles
    <2>3. CASE StartCooking(w) BY <2>3, StartCookingCooks
    <2>4. CASE RecordKey(w) BY <2>4, RecordKeyClaims
    <2>5. CASE ~CommitPayment(w) /\ ~CommitSettlement(w) /\ ~StartCooking(w) /\ ~RecordKey(w)
        BY <1>3, <2>5 DEF PromiseKept, Step, ProviderCreates, ProviderErrs, InsertPayment, RequestPayment,
           AbortPayment, VerifyProviderPayment, VerifyErrs, FindPayment, WritePayment, LockOrder
    <2> QED BY <2>1, <2>2, <2>3, <2>4, <2>5
<1>4. ASSUME NEW w \in Workers, NEW q \in Pays, NEW p \in Pays, NEW out \in Outcome, Webhook(w, q, p, out)
      PROVE  PromiseKept
    BY <1>4 DEF PromiseKept, Webhook
<1>5. ASSUME NEW p \in Pays, NEW out \in Outcome, ProviderSettles(p, out) PROVE PromiseKept
    BY <1>5 DEF PromiseKept, ProviderSettles
<1>6. CASE Crash \/ UNCHANGED vars BY <1>6 DEF PromiseKept, Crash, vars
<1>7. ASSUME Next, ~Crash PROVE PromiseKept
    BY <1>1, <1>2, <1>3, <1>4, <1>5, <1>7 DEF Next
<1> QED BY <1>6, <1>7

(* PaymentService and the webhook, with their locks, keys and restarts,    *)
(* implement the contract in which a notification is claimed once for its  *)
(* trace and outcome, and the payment it names is settled in one step with *)
(* the order of its trace: whichever trace and payment a body names, and   *)
(* whichever events the orders get from elsewhere.                         *)
THEOREM PaymentsImplementContract == Spec => ImplementsPayments
<1>1. Init => Promise!Begin BY DEF Init, Promise!Begin
<1>2. PayInv /\ KeysOK /\ LonePaysOK /\ CooksPaid /\ [Next]_vars
          => [Promise!Proceed]_(Promise!pvars)
    BY StepImplements DEF PromiseKept, Promise!pvars
<1> QED
  BY <1>1, <1>2, PaymentsInvariant, SettledOnce, LonePaysInvariant, CooksInvariant, PTL
     DEF Spec, ImplementsPayments, Promise!PaymentPromise

---------------------------------------------------------------------------
(* No outcome is forgotten while the process lives.                        *)

(* How a request goes on from one step to another, its payment and the     *)
(* outcome it was told unchanged.                                          *)
Hops == {<<"http", "insert">>, <<"insert", "upgrade">>, <<"insert", "pcommit">>,
         <<"upgrade", "pcommit">>, <<"verify", "key">>, <<"key", "find">>,
         <<"find", "settle">>, <<"settle", "lock">>, <<"settle", "wcommit">>,
         <<"lock", "wcommit">>, <<"wcommit", "cook">>}

Hop(w) ==
    /\ Step(w)
    /\ <<job[w].pc, job'[w].pc>> \in Hops
    /\ job'[w].p = job[w].p /\ job'[w].out = job[w].out

(* Everything that can happen to a request.                                *)
LEMMA JobMoves ==
    ASSUME PayInv, [Next]_vars, NEW w \in Workers
    PROVE  \/ job'[w] = job[w]
           \/ job'[w] = NoJob /\ (Step(w) \/ Crash)
           \/ \E o \in Orders, p \in Pays :
                 StartCreate(w, o, p) /\ job'[w].pc = "http" /\ job'[w].p = p
           \/ job[w].pc = "idle" /\ job'[w].pc = "verify"
           \/ Hop(w)
<1>1. PayTypeOK BY DEF PayInv
<1> DEFINE Goal == \/ job'[w] = job[w]
                   \/ job'[w] = NoJob /\ (Step(w) \/ Crash)
                   \/ \E o \in Orders, p \in Pays :
                         StartCreate(w, o, p) /\ job'[w].pc = "http" /\ job'[w].p = p
                   \/ job[w].pc = "idle" /\ job'[w].pc = "verify"
                   \/ Hop(w)
<1>2. ASSUME NEW v \in Workers, NEW t, Goto(v, t), v # w PROVE Goal
    BY <1>1, <1>2, GotoFields
<1>3. ASSUME NEW v \in Workers, NEW o \in Orders, NEW p \in Pays, StartCreate(v, o, p) PROVE Goal
    <2>1. CASE v = w
        <3> DEFINE t == [NoJob EXCEPT !.pc = "http", !.o = o, !.p = p]
        <3>1. job'[w] = t BY <1>1, <1>3, <2>1, GotoFields DEF StartCreate
        <3>2. t.pc = "http" /\ t.p = p BY DEF NoJob
        <3> QED BY <1>3, <2>1, <3>1, <3>2
    <2>2. CASE v # w BY <1>2, <1>3, <2>2 DEF StartCreate
    <2> QED BY <2>1, <2>2
<1>4. ASSUME NEW v \in Workers, NEW q \in Pays, NEW p \in Pays, NEW out \in Outcome, Webhook(v, q, p, out) PROVE Goal
    <2> DEFINE t == [NoJob EXCEPT !.pc = "verify", !.o = payOf[q], !.p = p, !.tr = q, !.out = out]
    <2>1. job[v].pc = "idle" /\ (Goto(v, t) \/ UNCHANGED job) BY <1>4 DEF Webhook
    <2>2. t.pc = "verify" BY DEF NoJob
    <2> HIDE DEF t
    <2>3. CASE v = w /\ Goto(v, t) BY <1>1, <2>1, <2>2, <2>3, GotoFields
    <2> QED BY <1>2, <2>1, <2>3
<1>5. ASSUME Step(w) PROVE Goal
    <2>0. job[w] \in Job BY <1>1 DEF PayTypeOK
    <2>1. ASSUME NEW t, Goto(w, t), t.p = job[w].p, t.out = job[w].out, <<job[w].pc, t.pc>> \in Hops
          PROVE  Goal
        BY <1>1, <1>5, <2>1, GotoFields DEF Hop
    <2>2. ASSUME Goto(w, NoJob) PROVE Goal BY <1>1, <1>5, <2>2, GotoFields
    <2>3. ASSUME NEW pc, Goto(w, [job[w] EXCEPT !.pc = pc]), <<job[w].pc, pc>> \in Hops PROVE Goal
        <3> DEFINE t == [job[w] EXCEPT !.pc = pc]
        <3>1. t.pc = pc /\ t.p = job[w].p /\ t.out = job[w].out BY <2>0 DEF Job
        <3>2. Goto(w, t) BY <2>3
        <3> HIDE DEF t, Goal
        <3> QED BY <2>1, <2>3, <3>1, <3>2
    <2>4. CASE InsertPayment(w) \/ WritePayment(w)
        <3>1. PICK pc : /\ Goto(w, [job[w] EXCEPT !.pc = pc, !.from = order[job[w].o]])
                        /\ <<job[w].pc, pc>> \in Hops
            BY <2>4 DEF InsertPayment, WritePayment, Hops
        <3> DEFINE t == [job[w] EXCEPT !.pc = pc, !.from = order[job[w].o]]
        <3>2. t.pc = pc /\ t.p = job[w].p /\ t.out = job[w].out BY <2>0 DEF Job
        <3>3. Goto(w, t) BY <3>1
        <3> HIDE DEF t, Goal
        <3> QED BY <2>1, <3>1, <3>2, <3>3
    <2>5. CASE RequestPayment(w) \/ LockOrder(w)
        <3>1. PICK pc : /\ Goto(w, [job[w] EXCEPT !.pc = pc, !.moved = (order[job[w].o] = job[w].from)])
                        /\ <<job[w].pc, pc>> \in Hops
            BY <2>5 DEF RequestPayment, LockOrder, Hops
        <3> DEFINE t == [job[w] EXCEPT !.pc = pc, !.moved = (order[job[w].o] = job[w].from)]
        <3>2. t.pc = pc /\ t.p = job[w].p /\ t.out = job[w].out BY <2>0 DEF Job
        <3>3. Goto(w, t) BY <3>1
        <3> HIDE DEF t, Goal
        <3> QED BY <2>1, <3>1, <3>2, <3>3
    <2>6. CASE ProviderErrs(w) \/ CommitPayment(w) \/ AbortPayment(w) \/ VerifyErrs(w) \/ StartCooking(w)
        BY <2>2, <2>6 DEF ProviderErrs, CommitPayment, AbortPayment, VerifyErrs, StartCooking, Answer
    <2>7. CASE ProviderCreates(w) BY <2>3, <2>7 DEF ProviderCreates, Hops
    <2>8. CASE VerifyProviderPayment(w) \/ RecordKey(w) \/ FindPayment(w) \/ CommitSettlement(w)
        <3>1. \/ Goto(w, NoJob)
              \/ \E pc : Goto(w, [job[w] EXCEPT !.pc = pc]) /\ <<job[w].pc, pc>> \in Hops
            BY <2>8 DEF VerifyProviderPayment, RecordKey, FindPayment, CommitSettlement, Answer, Hops
        <3> QED BY <2>2, <2>3, <3>1
    <2> QED BY <1>5, <2>4, <2>5, <2>6, <2>7, <2>8 DEF Step
<1>6. ASSUME NEW v \in Workers, Step(v), v # w PROVE Goal
    <2>1. \E t : Goto(v, t)
        BY <1>6 DEF Step, ProviderCreates, ProviderErrs, InsertPayment, RequestPayment, CommitPayment,
           AbortPayment, VerifyProviderPayment, VerifyErrs, RecordKey, FindPayment, WritePayment,
           LockOrder, CommitSettlement, StartCooking, Answer
    <2> QED BY <1>2, <1>6, <2>1
<1>7. CASE Crash BY <1>7 DEF Crash
<1>8. CASE UNCHANGED job BY <1>8
<1> QED BY <1>3, <1>4, <1>5, <1>6, <1>7, <1>8 DEF Next, vars, PayOrder, CheckoutPay, ProviderSettles, ApiEvent

(* An outcome the webhook has to act on.  A payment that is canceled before *)
(* its row is committed is the exception: that notification is dropped.    *)
Due(p) == remote[p] \in Outcome /\ (EarlyCancel => remote[p] = "succeeded")

(* Some request is about to settle the payment.                            *)
Held(p) == \E w \in Workers : Settling(job[w]) /\ job[w].p = p

(* The trace of every payment that was started is in memory.               *)
AllTraced == \A p \in Pays : payOf[p] \in Orders => p \in traced

(* The customer gets the link at the end of create_payment and not before, *)
(* so a payment is captured only after that.                               *)
HandedLast ==
    \A p \in Pays :
        /\ p \in handed => payOf[p] \in Orders /\ \A w \in Workers : Creating(job[w]) => job[w].p # p
        /\ Due(p) => p \in handed

(* A key that was recorded was acted on, or is being.                      *)
KeyIsUsed == \A k \in keys : row[k[3]] \in {"SUCCESS", "FAILED"} \/ Held(k[3])

(* A payment that is PENDING here and settled at the provider, and that no *)
(* body named with another's trace: either the provider still has to       *)
(* deliver its notification, or a request is about to settle the payment.  *)
OutcomeUnderWay ==
    \A p \in Pays : (row[p] = "PENDING" /\ Due(p) /\ Matched(p)) => p \in unsent \/ Held(p)

(* A request that may settle a payment does.                               *)
LEMMA HeldUntilSettled ==
    ASSUME ~MayCrash, PayInv, [Next]_vars, NEW p \in Pays, Held(p)
    PROVE  Held(p)' \/ row'[p] \in {"SUCCESS", "FAILED"}
<1>1. PICK w \in Workers : Settling(job[w]) /\ job[w].p = p BY DEF Held
<1>2. ~Crash /\ row[p] \in {"PENDING", "SUCCESS", "FAILED"}
    BY <1>1 DEF Crash, PayInv, PayTypeOK, JobOK, Trusted, Settling
<1>3. CASE job'[w] = job[w] BY <1>1, <1>3 DEF Held
<1>4. CASE job'[w] = NoJob /\ Step(w)
    <2>1. CASE CommitSettlement(w) BY <1>1, <2>1, SettlementWrites
    <2>2. CASE FindPayment(w) /\ row[p] \in {"SUCCESS", "FAILED"} BY <2>2, RowsFinal
    <2>3. CASE FindPayment(w) /\ row[p] = "PENDING"
        <3>1. job' = [job EXCEPT ![w] = [job[w] EXCEPT !.pc = "settle"]]
            BY <1>1, <2>3 DEF FindPayment, Goto
        <3>2. job'[w].pc = "settle" BY <3>1 DEF PayInv, PayTypeOK, Job
        <3> QED BY <1>4, <3>2, NoJobFields
    <2>4. CASE WritePayment(w)
        <3> DEFINE t == [job[w] EXCEPT
                           !.pc = IF SettleEvent(w) \in Allowed(ORDER_TRANSITIONS, order[job[w].o])
                                  THEN "lock" ELSE "wcommit",
                           !.from = order[job[w].o]]
        <3>1. job'[w] = t BY <2>4, GotoFields DEF WritePayment, PayInv
        <3>2. t.pc # "idle" BY DEF PayInv, PayTypeOK, Job
        <3> QED BY <1>4, <3>1, <3>2, NoJobFields
    <2>5. CASE LockOrder(w)
        <3> DEFINE t == [job[w] EXCEPT !.pc = "wcommit", !.moved = (order[job[w].o] = job[w].from)]
        <3>1. job'[w] = t BY <2>5, GotoFields DEF LockOrder, PayInv
        <3>2. t.pc # "idle" BY DEF PayInv, PayTypeOK, Job
        <3> QED BY <1>4, <3>1, <3>2, NoJobFields
    <2> QED BY <1>1, <1>2, <1>4, <2>1, <2>2, <2>3, <2>4, <2>5
            DEF Settling, Step, ProviderCreates, ProviderErrs, InsertPayment, RequestPayment, CommitPayment,
                AbortPayment, Deadlocked, VerifyProviderPayment, VerifyErrs, RecordKey, StartCooking
<1>5. ASSUME NEW o \in Orders, NEW q \in Pays, StartCreate(w, o, q) PROVE FALSE
    BY <1>1, <1>5 DEF StartCreate, Settling
<1>6. CASE Hop(w)
    <2>1. CASE Settling(job'[w]) BY <1>1, <1>6, <2>1 DEF Hop, Held
    <2>2. CASE ~Settling(job'[w])
        <3>1. job[w].pc = "wcommit" /\ Step(w) BY <1>1, <1>6, <2>2 DEF Hop, Hops, Settling
        <3>2. CommitSettlement(w)
            BY <3>1 DEF Step, ProviderCreates, ProviderErrs, InsertPayment, RequestPayment, CommitPayment,
               AbortPayment, Deadlocked, VerifyProviderPayment, VerifyErrs, RecordKey, FindPayment,
               WritePayment, LockOrder, StartCooking
        <3> QED BY <1>1, <3>2, SettlementWrites
    <2> QED BY <2>1, <2>2
<1>7. job[w].pc # "idle" BY <1>1 DEF Settling
<1> QED BY <1>2, <1>3, <1>4, <1>5, <1>6, <1>7, JobMoves

(* Only the provider's creation and its settlement change its own record.  *)
LEMMA RemoteSteps ==
    ASSUME PayInv, [Next]_vars, NEW p \in Pays
    PROVE  \/ remote'[p] = remote[p]
           \/ remote'[p] = "pending"
           \/ \E out \in Outcome : ProviderSettles(p, out) /\ remote'[p] = out
<1>1. PayTypeOK BY DEF PayInv
<1> DEFINE Goal == \/ remote'[p] = remote[p]
                   \/ remote'[p] = "pending"
                   \/ \E out \in Outcome : ProviderSettles(p, out) /\ remote'[p] = out
<1>2. ASSUME NEW w \in Workers, ProviderCreates(w) \/ ProviderErrs(w) PROVE Goal
    <2>1. UNCHANGED remote \/ remote' = [remote EXCEPT ![job[w].p] = "pending"]
        BY <1>2 DEF ProviderCreates, ProviderErrs
    <2> QED BY <1>1, <2>1 DEF PayTypeOK
<1>3. ASSUME NEW q \in Pays, NEW out \in Outcome, ProviderSettles(q, out) PROVE Goal
    BY <1>1, <1>3 DEF ProviderSettles, PayTypeOK
<1>4. CASE UNCHANGED remote BY <1>4
<1> QED BY <1>2, <1>3, <1>4, NextFrame

(* Who answers the provider's notification with 200.                       *)
LEMMA UnsentSteps ==
    ASSUME PayInv, [Next]_vars, NEW p \in unsent
    PROVE  \/ p \in unsent'
           \/ \E w \in Workers, out \in Outcome : Webhook(w, p, p, out) /\ p \notin traced
           \/ \E w \in Workers :
                 /\ job[w].p = p /\ job[w].tr = p /\ job[w].out = remote[p]
                 /\ \/ VerifyProviderPayment(w) /\ ~Verified(w)
                    \/ RecordKey(w) /\ \E k \in keys : k[1] = p /\ k[2] = remote[p]
                    \/ FindPayment(w) /\ row[p] # "PENDING"
                    \/ CommitSettlement(w) \/ StartCooking(w)
<1>1. PayTypeOK BY DEF PayInv
<1> DEFINE Ends(w) == /\ job[w].p = p /\ job[w].tr = p /\ job[w].out = remote[p]
                      /\ \/ VerifyProviderPayment(w) /\ ~Verified(w)
                         \/ RecordKey(w) /\ \E k \in keys : k[1] = p /\ k[2] = remote[p]
                         \/ FindPayment(w) /\ row[p] # "PENDING"
                         \/ CommitSettlement(w) \/ StartCooking(w)
           Goal == \/ p \in unsent'
                   \/ \E w \in Workers, out \in Outcome : Webhook(w, p, p, out) /\ p \notin traced
                   \/ \E w \in Workers : Ends(w)
<1>2. CASE UNCHANGED unsent BY <1>2
<1>3. ASSUME NEW w \in Workers, NEW q \in Pays, NEW r \in Pays, NEW out \in Outcome, Webhook(w, q, r, out)
      PROVE  Goal
    <2>1. CASE q \in traced BY <1>2, <1>3, <2>1 DEF Webhook
    <2>2. CASE q \notin traced
        <3>1. q = r /\ unsent' = unsent \ Acked(r) BY <1>3, <2>2 DEF Webhook
        <3>2. CASE r = p BY <1>3, <2>2, <3>1, <3>2
        <3>3. CASE r # p
            <4>1. p \in unsent' BY <3>1, <3>3 DEF Acked
            <4> QED BY <4>1
        <3> QED BY <3>2, <3>3
    <2> QED BY <2>1, <2>2
<1>4. ASSUME NEW w \in Workers, Answer(w),
             (job[w].p = p /\ job[w].tr = p) => job[w].out # remote[p] \/ Ends(w)
      PROVE  Goal
    <2>1. CASE job[w].p = p /\ job[w].tr = p /\ job[w].out = remote[p] BY <1>4, <2>1
    <2>2. CASE ~(job[w].p = p /\ job[w].tr = p /\ job[w].out = remote[p])
        <3>1. p \in unsent' BY <1>4, <2>2 DEF Answer, Acked
        <3> QED BY <3>1
    <2> QED BY <2>1, <2>2
<1>5. ASSUME NEW w \in Workers, VerifyProviderPayment(w) PROVE Goal
    <2>1. CASE Verified(w) BY <1>2, <1>5, <2>1 DEF VerifyProviderPayment
    <2>2. CASE ~Verified(w)
        <3>1. Answer(w) BY <1>5, <2>2 DEF VerifyProviderPayment
        <3> QED BY <1>4, <1>5, <2>2, <3>1
    <2> QED BY <2>1, <2>2
<1>6. ASSUME NEW w \in Workers, RecordKey(w) PROVE Goal
    <2>1. CASE ~\E k \in keys : k[1] = job[w].tr /\ k[2] = job[w].out BY <1>2, <1>6, <2>1 DEF RecordKey
    <2>2. CASE \E k \in keys : k[1] = job[w].tr /\ k[2] = job[w].out
        <3>1. Answer(w) BY <1>6, <2>2 DEF RecordKey
        <3> QED BY <1>4, <1>6, <2>2, <3>1
    <2> QED BY <2>1, <2>2
<1>7. ASSUME NEW w \in Workers, FindPayment(w) PROVE Goal
    <2>1. CASE row[job[w].p] = "PENDING" BY <1>2, <1>7, <2>1 DEF FindPayment
    <2>2. CASE row[job[w].p] # "PENDING"
        <3>1. Answer(w) \/ UNCHANGED unsent BY <1>7 DEF FindPayment
        <3> QED BY <1>2, <1>4, <1>7, <2>2, <3>1
    <2> QED BY <2>1, <2>2
<1>8. ASSUME NEW w \in Workers, CommitSettlement(w) \/ StartCooking(w) PROVE Goal
    <2>1. Answer(w) \/ UNCHANGED unsent BY <1>8 DEF CommitSettlement, StartCooking
    <2> QED BY <1>2, <1>4, <1>8, <2>1
<1>9. ASSUME NEW w \in Workers, Step(w) PROVE Goal
    <2>1. \/ VerifyProviderPayment(w) \/ RecordKey(w) \/ FindPayment(w)
          \/ CommitSettlement(w) \/ StartCooking(w)
          \/ UNCHANGED unsent
        BY <1>9 DEF Step, ProviderCreates, ProviderErrs, InsertPayment, RequestPayment, CommitPayment,
           AbortPayment, VerifyErrs, WritePayment, LockOrder
    <2> QED BY <1>2, <1>5, <1>6, <1>7, <1>8, <2>1
<1>10. ASSUME NEW q \in Pays, NEW out \in Outcome, ProviderSettles(q, out) PROVE p \in unsent'
    BY <1>10 DEF ProviderSettles
<1> HIDE DEF Goal
<1>11. Goal
    <2>1. CASE p \in unsent' BY <2>1 DEF Goal
    <2> QED BY <1>2, <1>3, <1>9, <1>10, <2>1, NextFrame
<1> QED BY <1>11 DEF Goal

(* The link is handed out by the step that ends create_payment.            *)
LEMMA HandedSteps ==
    ASSUME [Next]_vars
    PROVE  \/ UNCHANGED handed
           \/ \E w \in Workers :
                 /\ job[w].pc \in {"upgrade", "pcommit"} /\ Goto(w, NoJob)
                 /\ handed' = handed \cup {job[w].p}
                 /\ UNCHANGED <<remote, payOf>>
BY NextFrame DEF CommitPayment, AbortPayment, Deadlocked

LEMMA NextTraced ==
    ASSUME ~MayCrash, PayInv, AllTraced, [Next]_vars
    PROVE  AllTraced'
<1>1. ASSUME NEW w \in Workers, NEW o \in Orders, NEW p \in Pays, StartCreate(w, o, p) PROVE AllTraced'
    BY <1>1 DEF StartCreate, AllTraced, PayInv, PayTypeOK
<1>2. CASE UNCHANGED <<payOf, traced>> BY <1>2 DEF AllTraced
<1>3. ASSUME NEW w \in Workers, Step(w) PROVE UNCHANGED <<payOf, traced>>
    BY <1>3, StepFrame
<1> QED BY <1>1, <1>2, <1>3 DEF Next, vars, PayOrder, CheckoutPay, Webhook, ProviderSettles, ApiEvent, Crash

LEMMA NextHanded ==
    ASSUME PayInv, HandedLast, [Next]_vars
    PROVE  HandedLast'
<1>1. PayTypeOK /\ \A w \in Workers : JobOK(job[w]) BY DEF PayInv
<1>2. ASSUME NEW w \in Workers, Creating(job'[w])
      PROVE  \/ Creating(job[w]) /\ job'[w].p = job[w].p
             \/ \E o \in Orders, q \in Pays : StartCreate(w, o, q) /\ job'[w].p = q
    <2>1. job'[w] # NoJob /\ job'[w].pc # "verify" BY <1>2, NoJobFields DEF Creating
    <2>2. Hop(w) => Creating(job[w]) /\ job'[w].p = job[w].p BY <1>2 DEF Hop, Hops, Creating
    <2> QED BY <1>2, <2>1, <2>2, JobMoves
<1>3. ASSUME NEW p \in Pays, p \in handed
      PROVE  payOf'[p] \in Orders /\ \A w \in Workers : Creating(job'[w]) => job'[w].p # p
    <2>1. payOf[p] \in Orders BY <1>3 DEF HandedLast
    <2>2. ASSUME NEW w \in Workers, Creating(job'[w]), job'[w].p = p PROVE FALSE
        <3>1. CASE Creating(job[w]) /\ job'[w].p = job[w].p BY <1>3, <2>2, <3>1 DEF HandedLast
        <3>2. ASSUME NEW o \in Orders, NEW q \in Pays, StartCreate(w, o, q), job'[w].p = q PROVE FALSE
            BY <2>1, <2>2, <3>2, PaymentsAssumption DEF StartCreate
        <3> QED BY <1>2, <2>2, <3>1, <3>2
    <2> QED BY <2>1, <2>2, PayOfStays
<1>4. ASSUME NEW p \in Pays, p \in handed', p \notin handed
      PROVE  payOf'[p] \in Orders /\ \A w \in Workers : Creating(job'[w]) => job'[w].p # p
    <2>1. PICK v \in Workers : /\ job[v].pc \in {"upgrade", "pcommit"} /\ Goto(v, NoJob)
                               /\ job[v].p = p /\ UNCHANGED <<remote, payOf>>
        BY <1>4, HandedSteps
    <2>2. payOf[p] \in Orders /\ Creating(job[v]) BY <1>1, <2>1 DEF JobOK, Creating
    <2>3. job'[v] = NoJob /\ \A w \in Workers \ {v} : job'[w] = job[w] BY <1>1, <2>1, GotoFields
    <2>4. ~Creating(NoJob) BY NoJobFields DEF Creating
    <2>5. CreatorsApart BY DEF PayInv
    <2>6. ASSUME NEW w \in Workers, Creating(job'[w]) PROVE job'[w].p # p
        <3>1. w # v /\ job'[w] = job[w] BY <2>3, <2>4, <2>6
        <3> QED BY <2>1, <2>2, <2>5, <2>6, <3>1 DEF CreatorsApart
    <2> QED BY <2>1, <2>2, <2>6
<1>5. handed \subseteq handed' BY HandedSteps
<1>6. ASSUME NEW p \in Pays, Due(p)' PROVE p \in handed'
    <2>1. CASE remote'[p] = remote[p] BY <1>5, <1>6, <2>1 DEF Due, HandedLast
    <2>2. CASE remote'[p] = "pending" BY <1>6, <2>2 DEF Due, Outcome
    <2>3. ASSUME NEW out \in Outcome, ProviderSettles(p, out), remote'[p] = out PROVE p \in handed'
        BY <1>5, <1>6, <2>3 DEF ProviderSettles, Due
    <2> QED BY <2>1, <2>2, <2>3, RemoteSteps
<1> QED BY <1>3, <1>4, <1>6 DEF HandedLast

LEMMA NextKeyUsed ==
    ASSUME ~MayCrash, PayInv, KeysOK, KeyIsUsed, [Next]_vars
    PROVE  KeyIsUsed'
<1>1. PayTypeOK BY DEF PayInv
<1>2. ASSUME NEW k \in keys PROVE row'[k[3]] \in {"SUCCESS", "FAILED"} \/ Held(k[3])'
    <2> DEFINE p == k[3]
    <2>1. p \in Pays BY KeyedStands DEF KeysOK
    <2>2. row[p] \in {"SUCCESS", "FAILED"} \/ Held(p) BY <1>2 DEF KeyIsUsed
    <2> HIDE DEF p
    <2>3. row'[p] \in {"SUCCESS", "FAILED"} \/ Held(p)' BY <2>1, <2>2, RowsFinal, HeldUntilSettled
    <2> QED BY <2>3 DEF p
<1>3. ASSUME NEW k \in keys', k \notin keys PROVE Held(k[3])'
    <2>1. PICK w \in Workers : RecordKey(w) BY <1>3, NextFrame
    <2>2. /\ k = <<job[w].tr, job[w].out, job[w].p>> /\ Goto(w, [job[w] EXCEPT !.pc = "find"])
        BY <1>3, <2>1 DEF RecordKey
    <2>3. k[3] = job[w].p BY <2>2
    <2>4. job'[w] = [job[w] EXCEPT !.pc = "find"] BY <1>1, <2>2, GotoFields
    <2>5. job'[w].pc = "find" /\ job'[w].p = job[w].p BY <1>1, <2>4 DEF PayTypeOK, Job
    <2> QED BY <2>3, <2>5 DEF Held, Settling
<1> QED BY <1>2, <1>3 DEF KeyIsUsed

LEMMA NextUnderWay ==
    ASSUME ~MayCrash, PayInv, KeysOK, AllTraced, HandedLast, KeyIsUsed, OutcomeUnderWay, [Next]_vars
    PROVE  OutcomeUnderWay'
<1>1. PayTypeOK /\ \A w \in Workers : JobOK(job[w]) BY DEF PayInv
<1> SUFFICES ASSUME NEW p \in Pays, row'[p] = "PENDING", Due(p)', Matched(p)'
             PROVE  p \in unsent' \/ Held(p)'
    BY DEF OutcomeUnderWay
<1>0. Matched(p) BY MatchedBefore DEF Matched
<1>2. Held(p) => Held(p)' BY HeldUntilSettled
<1>3. CASE row[p] = "PENDING" /\ Due(p)
    <2>1. CASE Held(p) BY <1>2, <2>1
    <2>2. CASE p \in unsent
        <3>1. ASSUME NEW w \in Workers, NEW out \in Outcome, Webhook(w, p, p, out), p \notin traced PROVE FALSE
            BY <3>1 DEF Webhook, AllTraced, PayInv, PaysKnown
        <3>2. ASSUME NEW w \in Workers, job[w].p = p, job[w].tr = p, job[w].out = remote[p],
                     \/ VerifyProviderPayment(w) /\ ~Verified(w)
                     \/ RecordKey(w) /\ \E k \in keys : k[1] = p /\ k[2] = remote[p]
                     \/ FindPayment(w) /\ row[p] # "PENDING"
                     \/ CommitSettlement(w) \/ StartCooking(w)
              PROVE  Held(p)'
            <4>1. ~(VerifyProviderPayment(w) /\ ~Verified(w)) BY <1>3, <3>2 DEF Verified
            <4>2. CASE RecordKey(w) /\ \E k \in keys : k[1] = p /\ k[2] = remote[p]
                <5>1. PICK k \in keys : k[1] = p BY <4>2
                <5>2. k[3] = p BY <1>0, <5>1 DEF Matched
                <5>3. Held(p) BY <1>3, <5>2 DEF KeyIsUsed
                <5> QED BY <1>2, <5>3
            <4>3. ~CommitSettlement(w) BY <3>2, SettlementWrites
            <4>4. ~StartCooking(w) BY <1>1, <1>3, <3>2 DEF StartCooking, JobOK
            <4> QED BY <1>3, <3>2, <4>1, <4>2, <4>3, <4>4
        <3> QED BY <2>2, <3>1, <3>2, UnsentSteps
    <2> QED BY <1>0, <1>3, <2>1, <2>2 DEF OutcomeUnderWay
<1>4. CASE ~Due(p)
    <2>1. ~(remote'[p] = remote[p]) BY <1>4 DEF Due
    <2>2. remote'[p] # "pending" BY DEF Due, Outcome
    <2>3. PICK out \in Outcome : ProviderSettles(p, out) BY <2>1, <2>2, RemoteSteps
    <2> QED BY <2>3 DEF ProviderSettles
<1>5. CASE row[p] # "PENDING" /\ Due(p)
    <2>1. ASSUME NEW w \in Workers, CommitSettlement(w) PROVE FALSE
        BY <1>5, <2>1, SettlementWrites
    <2>2. PICK w \in Workers : CommitPayment(w) BY <1>5, <2>1, RowSteps
    <2>3. job[w].pc = "pcommit" /\ row' = [row EXCEPT ![job[w].p] = "PENDING"] BY <2>2 DEF CommitPayment
    <2>4. job[w].p = p BY <1>1, <1>5, <2>3 DEF PayTypeOK
    <2> QED BY <1>5, <2>3, <2>4 DEF HandedLast, Creating
<1> QED BY <1>3, <1>4, <1>5

(* While the process lives, no outcome of the provider is forgotten: a     *)
(* payment that is settled there and PENDING here has a notification that  *)
(* will be repeated, since nothing answered it 200, or a request that      *)
(* holds its key and is about to settle it.  This is the safety half of    *)
(* CaptureIsRecorded and PendingEnds.  It is about payments that only      *)
(* bodies with their own trace have named: a body with this trace and      *)
(* another captured payment uses up the key.                               *)
THEOREM OutcomeNotForgotten ==
    ASSUME ~MayCrash
    PROVE  Spec => []OutcomeUnderWay
<1> DEFINE Inv == AllTraced /\ HandedLast /\ KeyIsUsed /\ OutcomeUnderWay
<1>1. Init => Inv
    <2> SUFFICES ASSUME Init PROVE Inv OBVIOUS
    <2>1. AllTraced BY PaymentsAssumption DEF Init, AllTraced
    <2>2. HandedLast BY DEF Init, HandedLast, Due, Outcome
    <2>3. KeyIsUsed /\ OutcomeUnderWay BY DEF Init, KeyIsUsed, OutcomeUnderWay
    <2> QED BY <2>1, <2>2, <2>3
<1>2. PayInv /\ KeysOK /\ Inv /\ [Next]_vars => Inv'
    BY NextTraced, NextHanded, NextKeyUsed, NextUnderWay
<1>3. Inv => OutcomeUnderWay OBVIOUS
<1> HIDE DEF Inv
<1> QED BY <1>1, <1>2, <1>3, PaymentsInvariant, SettledOnce, PTL DEF Spec

=============================================================================
