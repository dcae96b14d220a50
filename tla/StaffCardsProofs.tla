-------------------------- MODULE StaffCardsProofs --------------------------
(***************************************************************************)
(* The card of the first cook is never left with the button of a stage     *)
(* that has passed, for any staff, any lists of recipients and any number  *)
(* of concurrent requests.                                                 *)
(***************************************************************************)
EXTENDS StaffCards, Naturals, TLAPS

Request == [pc : {"idle", "announce", "cook", "pack", "close", "notify"},
            calls : Seq(Call), left : Seq(Members)]

(* The kitchen's buttons for a ticket's state.                             *)
Buttons(k) == Allowed(KITCHEN_TRANSITIONS, k)

(* The states a ticket has had, or has while START_COOKING is uncommitted. *)
Passed(t) ==
    CASE t \in {"ABSENT", "NEW"} -> {"NEW"}
      [] t = "QUEUED" -> {"NEW", "QUEUED"}
      [] t = "PREPARING" -> {"NEW", "QUEUED", "PREPARING"}
      [] t = "READY" -> {"NEW", "QUEUED", "PREPARING", "READY"}
      [] OTHER -> KitchenState

CookIn(s) == \E i \in DOMAIN s : s[i] = FirstCook

(* The request has yet to show the first cook its call.                    *)
Owes(r) ==
    /\ r.calls # <<>> /\ r.calls[1].role = "kitchen"
    /\ r.left = <<>> \/ r.left = Recipients["kitchen"]

(* Before HAND_OFF, the cooks are told first, and the first cook is the    *)
(* first of them.                                                          *)
Orderly(r) ==
    /\ \A i \in DOMAIN r.calls : r.calls[i].role = "kitchen" => i = 1
    /\ CookIn(r.left) => Owes(r)

(* A request in flight before HAND_OFF: the states it tells are those the  *)
(* ticket has had, and the first cook is told none but the last.           *)
Pending(r) ==
    /\ Orderly(r)
    /\ r.pc \in {"idle", "announce", "cook", "notify"}
    /\ r.pc = "idle" => r.calls = <<>>
    /\ order \in {"CONFIRMED", "PAID"} => r.pc # "notify"
    /\ r.pc = "cook" =>
          /\ order \in {"CONFIRMED", "PAID"}
          /\ \A i \in DOMAIN r.calls : r.calls[i].k = "NEW"
          /\ Owes(r) \/ Buttons("NEW") \subseteq card[FirstCook]
    /\ \A i \in DOMAIN r.calls :
          r.calls[i].k \in Passed(ticket) \cup (IF ticket = "ABSENT" THEN {"?", "none"} ELSE {})
    /\ (ticket # "ABSENT" /\ Owes(r)) => r.calls[1].k = ticket

(* Two requests tell of different states.                                  *)
Apart(r, q) ==
    \A i \in DOMAIN r.calls, j \in DOMAIN q.calls : r.calls[i].k # q.calls[j].k

(* No card shows a stage to come, and a card shows the stage that is due   *)
(* only when the first cook's does and nothing can overwrite it.           *)
CardsInStep ==
    /\ \A m \in Members : \A e \in card[m] \cap KitchenEvent :
          \E k \in Passed(ticket) : e \in Buttons(k)
    /\ ticket # "ABSENT" =>
          Buttons(ticket) \subseteq card[FirstCook] \/ \E w \in Workers : Owes(req[w])
    /\ \A m \in Members : Buttons(ticket) \cap card[m] # {} =>
          Buttons(ticket) \subseteq card[FirstCook] /\ \A w \in Workers : ~Owes(req[w])

(* The order is cooked by one request, before which it has no ticket.      *)
Placing ==
    /\ (ticket # "ABSENT" \/ ~placed) => \A w \in Workers : req[w].pc \notin {"announce", "cook"}
    /\ ticket # "ABSENT" => placed
    /\ \A w, v \in Workers : (w # v /\ req[w].pc \in {"announce", "cook"}) =>
          req[v].pc \notin {"announce", "cook"}

KitchenInv ==
    /\ IF ticket = "ABSENT" THEN order \in {"CONFIRMED", "PAID", "CANCELLED"}
       ELSE order = "COOKING"
    /\ \A w \in Workers : Pending(req[w])
    /\ ticket # "ABSENT" => \A w, v \in Workers : w # v => Apart(req[w], req[v])
    /\ CardsInStep

StaffTypes ==
    /\ CardTypeOK
    /\ req \in [Workers -> Request]
    /\ \A w \in Workers : req[w].calls = <<>> => req[w].left = <<>>

StaffInv ==
    /\ StaffTypes
    /\ ~disturbed => Placing
    /\ (~disturbed /\ ticket # "HANDED_OFF") => KitchenInv

---------------------------------------------------------------------------
(* Sequences: what is left, and a head replaced.                           *)
LEMMA TailFacts ==
    ASSUME NEW S, NEW s \in Seq(S), s # <<>>
    PROVE  /\ Tail(s) \in Seq(S) /\ Len(Tail(s)) = Len(s) - 1 /\ Len(s) \in Nat \ {0}
           /\ \A i \in DOMAIN Tail(s) : i + 1 \in DOMAIN s /\ Tail(s)[i] = s[i + 1]
           /\ 1 \in DOMAIN s /\ Head(s) = s[1] /\ s[1] \in S
  OBVIOUS

LEMMA Prefixed ==
    ASSUME NEW S, NEW x \in S, NEW t \in Seq(S)
    PROVE  /\ <<x>> \o t \in Seq(S) /\ DOMAIN (<<x>> \o t) = 1 .. (1 + Len(t))
           /\ Len(t) \in Nat /\ DOMAIN t = 1 .. Len(t)
           /\ (<<x>> \o t)[1] = x
           /\ \A i \in 1 .. (1 + Len(t)) : i # 1 => (<<x>> \o t)[i] = t[i - 1] /\ i - 1 \in DOMAIN t
  OBVIOUS

LEMMA NewHead ==
    ASSUME NEW S, NEW s \in Seq(S), s # <<>>, NEW x \in S
    PROVE  /\ <<x>> \o Tail(s) \in Seq(S) /\ <<x>> \o Tail(s) # <<>>
           /\ DOMAIN (<<x>> \o Tail(s)) = DOMAIN s
           /\ (<<x>> \o Tail(s))[1] = x
           /\ \A i \in DOMAIN s : i # 1 => (<<x>> \o Tail(s))[i] = s[i]
<1>1. /\ Tail(s) \in Seq(S) /\ Len(Tail(s)) = Len(s) - 1 /\ Len(s) \in Nat \ {0}
      /\ \A i \in DOMAIN Tail(s) : i + 1 \in DOMAIN s /\ Tail(s)[i] = s[i + 1]
  BY TailFacts
<1>2. <<x>> \in Seq(S) /\ Len(<<x>>) = 1
  OBVIOUS
<1>3. <<x>> \o Tail(s) \in Seq(S) /\ Len(<<x>> \o Tail(s)) = Len(s)
  BY <1>1, <1>2
<1>4. DOMAIN (<<x>> \o Tail(s)) = 1 .. Len(s) /\ DOMAIN s = 1 .. Len(s)
  BY <1>3
<1>5. (<<x>> \o Tail(s))[1] = x
  BY <1>1
<1>6. ASSUME NEW i \in DOMAIN s, i # 1 PROVE (<<x>> \o Tail(s))[i] = s[i]
  <2>1. i \in 2 .. Len(s) /\ i - 1 \in 1 .. Len(Tail(s)) /\ i - 1 \in DOMAIN Tail(s)
    BY <1>1, <1>4, <1>6
  <2>2. (<<x>> \o Tail(s))[i] = Tail(s)[i - 1]
    BY <1>1, <1>2, <2>1
  <2> QED BY <1>1, <2>1, <2>2
<1>7. <<x>> \o Tail(s) # <<>>
  BY <1>1, <1>3
<1> QED BY <1>3, <1>4, <1>5, <1>6, <1>7

(* The first cook is the first of the kitchen's list, and on no other.     *)
LEMMA Cooks ==
    /\ Recipients["kitchen"] \in Seq(Members) /\ Recipients["kitchen"] # <<>>
    /\ FirstCook \in Members
    /\ CookIn(Recipients["kitchen"])
    /\ Head(Recipients["kitchen"]) = FirstCook
    /\ ~CookIn(Tail(Recipients["kitchen"]))
    /\ \A r \in Role : r # "kitchen" => ~CookIn(Recipients[r])
    /\ \A r \in Role : Recipients[r] \in Seq(Members)
<1> DEFINE K == Recipients["kitchen"]
<1>0. "kitchen" \in Role
  BY DEF Role
<1>1. K \in Seq(Members) /\ K # <<>> /\ \A r \in Role : Recipients[r] \in Seq(Members)
  BY <1>0, StaffCardsAssumption
<1>2. /\ 1 \in DOMAIN K /\ FirstCook = K[1] /\ K[1] \in Members
      /\ \A i \in DOMAIN Tail(K) : i + 1 \in DOMAIN K /\ Tail(K)[i] = K[i + 1] /\ i \in Nat /\ i # 0
  BY <1>1, TailFacts DEF FirstCook
<1>3. \A r \in Role : \A i \in DOMAIN Recipients[r], j \in DOMAIN K :
         Recipients[r][i] = K[j] => r = "kitchen" /\ i = j
  BY <1>0, StaffCardsAssumption
<1>4. ~CookIn(Tail(K))
  <2> SUFFICES ASSUME NEW i \in DOMAIN Tail(K), Tail(K)[i] = FirstCook PROVE FALSE
    BY DEF CookIn
  <2>1. K[i + 1] = K[1] /\ i + 1 \in DOMAIN K /\ i + 1 # 1
    BY <1>2
  <2> QED BY <1>0, <1>2, <1>3, <2>1
<1>5. \A r \in Role : r # "kitchen" => ~CookIn(Recipients[r])
  BY <1>2, <1>3 DEF CookIn
<1>6. CookIn(K)
  BY <1>2 DEF CookIn
<1> QED BY <1>1, <1>2, <1>4, <1>5, <1>6 DEF FirstCook

(* The graph of the ticket: one button for every state but the last, and   *)
(* no button for two.                                                      *)
LEMMA ButtonFacts ==
    /\ Buttons("NEW") = {"QUEUE"} /\ Buttons("QUEUED") = {"START_PREP"}
    /\ Buttons("PREPARING") = {"MARK_READY"} /\ Buttons("READY") = {"HAND_OFF"}
    /\ \A k : k \notin {"NEW", "QUEUED", "PREPARING", "READY"} => Buttons(k) = {}
<1>1. \A k, e : e \in Buttons(k) <=> \E g \in KITCHEN_TRANSITIONS : g[1] = k /\ g[2] = e
  BY DEF Buttons, Allowed
<1>2. \A k, e : e \in Buttons(k) <=>
         \/ k = "NEW" /\ e = "QUEUE"
         \/ k = "QUEUED" /\ e = "START_PREP"
         \/ k = "PREPARING" /\ e = "MARK_READY"
         \/ k = "READY" /\ e = "HAND_OFF"
  BY <1>1 DEF KITCHEN_TRANSITIONS
<1> QED BY <1>2

LEMMA PassedFacts ==
    /\ \A t \in KitchenState \cup {"ABSENT"} : Passed(t) \subseteq KitchenState /\ "NEW" \in Passed(t)
    /\ \A t \in KitchenState : t \in Passed(t)
    /\ Passed("ABSENT") = {"NEW"} /\ Passed("NEW") = {"NEW"}
BY DEF Passed, KitchenState

LEMMA KitchenEdges ==
    ASSUME NEW edge \in KITCHEN_TRANSITIONS
    PROVE  /\ edge[1] \in KitchenState /\ edge[3] \in KitchenState
           /\ edge[2] \in KitchenEvent /\ edge[2] \in Buttons(edge[1])
           /\ edge[3] \notin Passed(edge[1]) /\ edge[1] # "HANDED_OFF"
           /\ Passed(edge[1]) \subseteq Passed(edge[3])
           /\ \A k \in Passed(edge[1]) : Buttons(k) \cap Buttons(edge[3]) = {}
           /\ edge[2] = "HAND_OFF" => edge[3] = "HANDED_OFF"
<1>1. \/ edge = <<"NEW", "QUEUE", "QUEUED">> \/ edge = <<"QUEUED", "START_PREP", "PREPARING">>
      \/ edge = <<"PREPARING", "MARK_READY", "READY">> \/ edge = <<"READY", "HAND_OFF", "HANDED_OFF">>
  BY DEF KITCHEN_TRANSITIONS
<1> QED BY <1>1, ButtonFacts DEF Passed, KitchenState, KitchenEvent

(* What the buttons of a card say of the ticket.                           *)
LEMMA KeyboardFacts ==
    ASSUME NEW r \in Role, NEW o, NEW k
    PROVE  /\ Keyboard(r, o, k) \subseteq OrderEvent \cup KitchenEvent
           /\ Keyboard(r, o, k) \cap KitchenEvent \subseteq Buttons(k)
           /\ Keyboard("kitchen", o, k) = Buttons(k)
<1>1. ORDER_ROLE_EVENTS[r] \subseteq OrderEvent /\ ORDER_ROLE_EVENTS[r] \cap KitchenEvent = {}
  BY DEF ORDER_ROLE_EVENTS, Role, OrderEvent, KitchenEvent
<1>2. KITCHEN_ROLE_EVENTS[r] \subseteq KitchenEvent
  BY DEF KITCHEN_ROLE_EVENTS
<1>3. ORDER_ROLE_EVENTS["kitchen"] = {} /\ KITCHEN_ROLE_EVENTS["kitchen"] = KitchenEvent
  BY DEF ORDER_ROLE_EVENTS, KITCHEN_ROLE_EVENTS, Role
<1>4. Buttons(k) \subseteq KitchenEvent
  BY ButtonFacts DEF KitchenEvent
<1> QED BY <1>1, <1>2, <1>3, <1>4 DEF Keyboard, Buttons

(* The calls of the webhook and of START_COOKING.                          *)
LEMMA KitchenCallsFacts ==
    ASSUME NEW k \in KitchenState
    PROVE  /\ KitchenCalls(k) \in Seq(Call) /\ KitchenCalls(k) # <<>>
           /\ KitchenCalls(k)[1].role = "kitchen"
           /\ \A i \in DOMAIN KitchenCalls(k) :
                 KitchenCalls(k)[i].k = k /\ (KitchenCalls(k)[i].role = "kitchen" => i = 1)
<1> DEFINE a == [role |-> "kitchen", o |-> "none", k |-> k]
           b == [role |-> "admin", o |-> "?", k |-> k]
           c == [role |-> "staff", o |-> "?", k |-> k]
<1>1. a \in Call /\ b \in Call /\ c \in Call
  BY DEF Call, Role
<1>2. a.role = "kitchen" /\ b.role = "admin" /\ c.role = "staff" /\ a.k = k /\ b.k = k /\ c.k = k
  OBVIOUS
<1>3. KitchenCalls(k) = <<a, b, c>>
  BY DEF KitchenCalls
<1> HIDE DEF a, b, c
<1> QED BY <1>1, <1>2, <1>3

LEMMA AnnounceFacts ==
    ASSUME NEW o \in OrderState
    PROVE  /\ AnnounceCalls(o) \in Seq(Call)
           /\ \A i \in DOMAIN AnnounceCalls(o) :
                 AnnounceCalls(o)[i].k = "?" /\ AnnounceCalls(o)[i].role # "kitchen"
<1> DEFINE a == [role |-> "admin", o |-> o, k |-> "?"]
           b == [role |-> "staff", o |-> o, k |-> "?"]
<1>1. a \in Call /\ b \in Call
  BY DEF Call, Role
<1>2. a.role = "admin" /\ b.role = "staff" /\ a.k = "?" /\ b.k = "?"
  OBVIOUS
<1>3. AnnounceCalls(o) = <<a, b>>
  BY DEF AnnounceCalls
<1> HIDE DEF a, b
<1> QED BY <1>1, <1>2, <1>3

LEMMA OrderCallsFacts ==
    ASSUME NEW o \in OrderState, NEW role
    PROVE  /\ OrderCalls(role, o) \in Seq(Call)
           /\ \A i \in DOMAIN OrderCalls(role, o) :
                 /\ OrderCalls(role, o)[i].k \in {"?", "none"}
                 /\ OrderCalls(role, o)[i].role # "kitchen"
<1> DEFINE A == AnnounceCalls(o)
           c == [role |-> "courier", o |-> o, k |-> "none"]
<1>1. /\ A \in Seq(Call) /\ \A i \in DOMAIN A : A[i].k = "?" /\ A[i].role # "kitchen"
  BY AnnounceFacts
<1>2. c \in Call /\ c.role = "courier" /\ c.k = "none"
  BY DEF Call, Role
<1>3. OrderCalls(role, o) = (IF role = "courier" THEN <<c>> ELSE <<>>) \o A
  BY DEF OrderCalls, CourierCall
<1> HIDE DEF A, c
<1>4. <<>> \o A = A
  BY <1>1
<1>5. <<c>> \o A \in Seq(Call) /\ \A i \in DOMAIN (<<c>> \o A) :
         (<<c>> \o A)[i].k \in {"?", "none"} /\ (<<c>> \o A)[i].role # "kitchen"
  BY <1>1, <1>2, Prefixed
<1> QED BY <1>1, <1>3, <1>4, <1>5

---------------------------------------------------------------------------
(* The request after Build, and after Told.                                *)
Built(r) ==
    [r EXCEPT !.calls = IF Recipients[Head(r.calls).role] = <<>> THEN Tail(r.calls)
                        ELSE <<Known(Head(r.calls))>> \o Tail(r.calls),
              !.left = Recipients[Head(r.calls).role]]

Informed(r) ==
    [r EXCEPT !.left = Tail(r.left),
              !.calls = IF Len(r.left) = 1 THEN Tail(r.calls) ELSE r.calls]

LEMMA BuildIs ==
    ASSUME StaffTypes, NEW w \in Workers, Build(w)
    PROVE  req' = [req EXCEPT ![w] = Built(req[w])]
<1> DEFINE c == IF Recipients[Head(req[w].calls).role] = <<>> THEN Tail(req[w].calls)
                ELSE <<Known(Head(req[w].calls))>> \o Tail(req[w].calls)
           l == Recipients[Head(req[w].calls).role]
<1>1. req' = [req EXCEPT ![w].calls = c, ![w].left = l]
  BY DEF Build
<1>2. req[w] \in Request /\ req \in [Workers -> Request]
  BY DEF StaffTypes
<1> HIDE DEF c, l
<1>3. req' = [req EXCEPT ![w] = [req[w] EXCEPT !.calls = c, !.left = l]]
  BY <1>1, <1>2
<1> QED BY <1>3 DEF Built, c, l

LEMMA ToldIs ==
    ASSUME StaffTypes, NEW w \in Workers, Told(w)
    PROVE  req' = [req EXCEPT ![w] = Informed(req[w])]
<1> DEFINE c == IF Len(req[w].left) = 1 THEN Tail(req[w].calls) ELSE req[w].calls
           l == Tail(req[w].left)
<1>1. req' = [req EXCEPT ![w].left = l, ![w].calls = c]
  BY DEF Told
<1>2. req[w] \in Request /\ req \in [Workers -> Request]
  BY DEF StaffTypes
<1> HIDE DEF c, l
<1>3. req' = [req EXCEPT ![w] = [req[w] EXCEPT !.left = l, !.calls = c]]
  BY <1>1, <1>2
<1> QED BY <1>3 DEF Informed, c, l

(* A call with the states looked up is a call of the same role, and of the *)
(* same ticket state unless that was looked up.                            *)
LEMMA KnownFacts ==
    ASSUME StaffTypes, NEW c \in Call
    PROVE  /\ Known(c) \in Call /\ Known(c).role = c.role
           /\ c.k # "?" => Known(c).k = c.k
           /\ c.k = "?" => Known(c).k = IF ticket = "ABSENT" THEN "none" ELSE ticket
<1>1. order \in OrderState /\ ticket \in KitchenState \cup {"ABSENT"}
  BY DEF StaffTypes, CardTypeOK
<1>2. c.o \in OrderState \cup {"none", "?"} /\ c.k \in KitchenState \cup {"none", "?"}
  BY DEF Call
<1> DEFINE o == IF c.o = "?" THEN order ELSE c.o
           k == IF c.k # "?" THEN c.k ELSE IF ticket = "ABSENT" THEN "none" ELSE ticket
<1>3. Known(c) = [c EXCEPT !.o = o, !.k = k]
  BY DEF Known, Call
<1>4. o \in OrderState \cup {"none", "?"} /\ k \in KitchenState \cup {"none", "?"}
  BY <1>1, <1>2
<1> HIDE DEF o, k
<1>5. Known(c) \in Call /\ Known(c).role = c.role /\ Known(c).k = k
  BY <1>3, <1>4 DEF Call
<1> QED BY <1>5 DEF k

(* Build keeps what the request owes, and tells of no other state.         *)
LEMMA BuiltFacts ==
    ASSUME StaffTypes, NEW r \in Request, r.calls # <<>>, r.left = <<>>
    PROVE  /\ Built(r) \in Request /\ Built(r).pc = r.pc
           /\ Built(r).calls = <<>> => Built(r).left = <<>>
           /\ \A i \in DOMAIN Built(r).calls : \E j \in DOMAIN r.calls :
                 \/ Built(r).calls[i].k = r.calls[j].k
                 \/ /\ r.calls[j].k = "?"
                    /\ Built(r).calls[i].k = IF ticket = "ABSENT" THEN "none" ELSE ticket
           /\ Orderly(r) => Orderly(Built(r)) /\ (Owes(Built(r)) <=> Owes(r))
           /\ (Orderly(r) /\ Owes(Built(r)) /\ r.calls[1].k # "?") =>
                 Built(r).calls[1].k = r.calls[1].k
<1> DEFINE c == r.calls
           h == r.calls[1]
           l == Recipients[r.calls[1].role]
<1>1. /\ c \in Seq(Call) /\ 1 \in DOMAIN c /\ Head(c) = h /\ h \in Call /\ h.role \in Role
      /\ Tail(c) \in Seq(Call) /\ r.pc \in {"idle", "announce", "cook", "pack", "close", "notify"}
      /\ \A i \in DOMAIN Tail(c) : i + 1 \in DOMAIN c /\ Tail(c)[i] = c[i + 1] /\ i \in Nat /\ i > 0
  <2>1. c \in Seq(Call) /\ r.pc \in {"idle", "announce", "cook", "pack", "close", "notify"}
    BY DEF Request
  <2>2. /\ 1 \in DOMAIN c /\ Head(c) = h /\ h \in Call /\ Tail(c) \in Seq(Call)
        /\ \A i \in DOMAIN Tail(c) : i + 1 \in DOMAIN c /\ Tail(c)[i] = c[i + 1] /\ i \in Nat /\ i > 0
    BY <2>1, TailFacts
  <2>3. h.role \in Role
    BY <2>2 DEF Call
  <2> QED BY <2>1, <2>2, <2>3
<1>2. l \in Seq(Members) /\ (h.role # "kitchen" => ~CookIn(l)) /\ Recipients["kitchen"] # <<>>
  BY <1>1, Cooks
<1>3. CASE l = <<>>
  <2>1. Built(r).pc = r.pc /\ Built(r).calls = Tail(c) /\ Built(r).left = <<>>
    BY <1>1, <1>3 DEF Built, Request
  <2>2. Built(r) \in Request
    BY <1>1, <1>2, <1>3 DEF Built, Request
  <2>3. h.role # "kitchen" /\ ~Owes(r)
    BY <1>2, <1>3 DEF Owes
  <2>4. Orderly(r) => \A i \in DOMAIN Tail(c) : Tail(c)[i].role # "kitchen"
    BY <1>1 DEF Orderly
  <2>5. Orderly(r) => ~Owes(Built(r))
    <3> SUFFICES ASSUME Orderly(r), Owes(Built(r)) PROVE FALSE
      OBVIOUS
    <3>1. Tail(c) # <<>> /\ Tail(c)[1].role = "kitchen"
      BY <2>1 DEF Owes
    <3>2. 1 \in DOMAIN Tail(c)
      BY <1>1, <3>1
    <3> QED BY <2>4, <3>1, <3>2
  <2>6. ~CookIn(Built(r).left)
    BY <2>1 DEF CookIn
  <2>7. Orderly(r) => Orderly(Built(r))
    BY <2>1, <2>4, <2>6 DEF Orderly
  <2>8. \A i \in DOMAIN Built(r).calls : \E j \in DOMAIN r.calls :
           Built(r).calls[i].k = r.calls[j].k
    BY <1>1, <2>1
  <2> QED BY <2>1, <2>2, <2>3, <2>5, <2>7, <2>8
<1>4. CASE l # <<>>
  <2> DEFINE n == <<Known(h)>> \o Tail(c)
  <2>1. Built(r).pc = r.pc /\ Built(r).calls = n /\ Built(r).left = l
    BY <1>1, <1>4 DEF Built, Request
  <2>2. /\ Known(h) \in Call /\ Known(h).role = h.role /\ (h.k # "?" => Known(h).k = h.k)
        /\ h.k = "?" => Known(h).k = IF ticket = "ABSENT" THEN "none" ELSE ticket
    BY <1>1, KnownFacts
  <2>3. /\ n \in Seq(Call) /\ n # <<>> /\ DOMAIN n = DOMAIN c /\ n[1] = Known(h)
        /\ \A i \in DOMAIN c : i # 1 => n[i] = c[i]
    BY <1>1, <2>2, NewHead
  <2> HIDE DEF n
  <2>4. Built(r) \in Request
    BY <1>1, <1>2, <1>4, <2>3 DEF Built, Request, n
  <2>5. \A i \in DOMAIN n : n[i].role = c[i].role
    BY <2>2, <2>3
  <2>6. Owes(Built(r)) <=> Owes(r)
    BY <1>1, <1>4, <2>1, <2>3, <2>5 DEF Owes
  <2>7. Orderly(r) => Orderly(Built(r))
    BY <1>1, <1>2, <2>1, <2>3, <2>5, <2>6 DEF Orderly, Owes
  <2>8. \A i \in DOMAIN n :
           \/ n[i].k = c[i].k
           \/ c[i].k = "?" /\ n[i].k = IF ticket = "ABSENT" THEN "none" ELSE ticket
    BY <2>2, <2>3
  <2> QED BY <2>1, <2>2, <2>3, <2>4, <2>6, <2>7, <2>8
<1> QED BY <1>3, <1>4

(* After a recipient is told nothing is owed to the first cook: he was the *)
(* one, or had been told before.                                           *)
LEMMA InformedFacts ==
    ASSUME NEW r \in Request, r.calls # <<>>, r.left # <<>>
    PROVE  /\ Informed(r) \in Request /\ Informed(r).pc = r.pc
           /\ Informed(r).calls = <<>> => Informed(r).left = <<>>
           /\ Head(r.left) \in Members /\ Head(r.calls) \in Call /\ Head(r.calls) = r.calls[1]
           /\ 1 \in DOMAIN r.calls
           /\ \A i \in DOMAIN Informed(r).calls : \E j \in DOMAIN r.calls :
                 Informed(r).calls[i].k = r.calls[j].k
           /\ Orderly(r) => /\ Orderly(Informed(r)) /\ ~Owes(Informed(r))
                            /\ Head(r.left) = FirstCook <=> Owes(r)
<1> DEFINE c == r.calls
           l == r.left
           n == IF Len(l) = 1 THEN Tail(c) ELSE c
<1>1. /\ c \in Seq(Call) /\ 1 \in DOMAIN c /\ Head(c) = c[1] /\ c[1] \in Call /\ Tail(c) \in Seq(Call)
      /\ r.pc \in {"idle", "announce", "cook", "pack", "close", "notify"}
      /\ \A i \in DOMAIN Tail(c) : i + 1 \in DOMAIN c /\ Tail(c)[i] = c[i + 1] /\ i \in Nat /\ i > 0
  BY TailFacts DEF Request
<1>2. /\ l \in Seq(Members) /\ Tail(l) \in Seq(Members) /\ Len(Tail(l)) = Len(l) - 1
      /\ Len(l) \in Nat \ {0} /\ 1 \in DOMAIN l /\ Head(l) = l[1] /\ l[1] \in Members
      /\ \A i \in DOMAIN Tail(l) : i + 1 \in DOMAIN l /\ Tail(l)[i] = l[i + 1]
  BY TailFacts DEF Request
<1>3. Informed(r).pc = r.pc /\ Informed(r).calls = n /\ Informed(r).left = Tail(l)
  BY DEF Informed, Request
<1>4. Informed(r) \in Request
  BY <1>1, <1>2 DEF Informed, Request
<1>5. n = <<>> => Tail(l) = <<>>
  <2>1. CASE Len(l) = 1
    BY <1>2, <2>1
  <2>2. CASE Len(l) # 1
    BY <2>2
  <2> QED BY <2>1, <2>2
<1>6. \A i \in DOMAIN n : \E j \in DOMAIN c : n[i].k = c[j].k
  BY <1>1
<1>7. ASSUME Orderly(r)
      PROVE  /\ Orderly(Informed(r)) /\ ~Owes(Informed(r))
             /\ Head(r.left) = FirstCook <=> Owes(r)
  <2>1. CookIn(Tail(l)) => CookIn(l)
    BY <1>2 DEF CookIn
  <2>2. CookIn(l) => Owes(r) /\ l = Recipients["kitchen"]
    BY <1>7 DEF Orderly, Owes
  <2>3. ~CookIn(Tail(l))
    BY <2>1, <2>2, Cooks
  <2>4. Tail(l) # Recipients["kitchen"]
    BY <2>3, Cooks
  <2>5. Len(l) = 1 => \A i \in DOMAIN n : n[i].role # "kitchen"
    BY <1>1, <1>7 DEF Orderly
  <2>6. ~Owes(Informed(r))
    <3>1. CASE Len(l) = 1
      <4> SUFFICES ASSUME n # <<>>, n[1].role = "kitchen" PROVE FALSE
        BY <1>3 DEF Owes
      <4>1. 1 \in DOMAIN n
        BY <1>1, <3>1
      <4> QED BY <2>5, <3>1, <4>1
    <3>2. CASE Len(l) # 1
      <4>1. Len(Tail(l)) # 0
        BY <1>2, <3>2
      <4>2. Tail(l) # <<>>
        <5>1. Len(<<>>) = 0
          OBVIOUS
        <5> QED BY <4>1, <5>1, Zenon
      <4> QED BY <1>3, <2>4, <4>2 DEF Owes
    <3> QED BY <3>1, <3>2
  <2>7. Orderly(Informed(r))
    <3>1. \A i \in DOMAIN n : n[i].role = "kitchen" => i = 1
      BY <1>7, <2>5 DEF Orderly
    <3> QED BY <1>3, <2>3, <3>1 DEF Orderly
  <2>8. Head(l) = FirstCook => Owes(r)
    BY <1>2, <2>2 DEF CookIn
  <2>9. Owes(r) => Head(l) = FirstCook
    BY Cooks DEF Owes
  <2> QED BY <2>6, <2>7, <2>8, <2>9
<1> QED BY <1>1, <1>2, <1>3, <1>4, <1>5, <1>6, <1>7

---------------------------------------------------------------------------
LEMMA StaffInitInv == Init => StaffInv
<1> SUFFICES ASSUME Init PROVE StaffInv
  OBVIOUS
<1>1. /\ order \in {"CONFIRMED", "PAID"} /\ mode \in {"pickup", "delivery"} /\ ticket = "ABSENT"
      /\ card = [m \in Members |-> {}] /\ req = [w \in Workers |-> NoReq]
      /\ placed = FALSE /\ disturbed = FALSE
  BY DEF Init
<1>2. NoReq \in Request /\ NoReq.pc = "idle" /\ NoReq.calls = <<>> /\ NoReq.left = <<>>
  BY DEF NoReq, Request
<1>3. \A w \in Workers : req[w] = NoReq
  BY <1>1
<1>4. StaffTypes
  <2>1. req \in [Workers -> Request] /\ card \in [Members -> SUBSET (OrderEvent \cup KitchenEvent)]
    BY <1>1, <1>2
  <2>2. order \in OrderState
    BY <1>1 DEF OrderState
  <2>3. ASSUME NEW w \in Workers
        PROVE  /\ req[w].pc \in {"idle", "announce", "cook", "pack", "close", "notify"}
               /\ \A i \in DOMAIN req[w].calls : req[w].calls[i] \in Call
               /\ \A i \in DOMAIN req[w].left : req[w].left[i] \in Members
               /\ req[w].calls = <<>> => req[w].left = <<>>
    BY <1>2, <1>3
  <2>4. CardTypeOK
    BY <1>1, <2>1, <2>2, <2>3 DEF CardTypeOK
  <2> QED BY <2>1, <2>3, <2>4 DEF StaffTypes
<1>5. Placing
  BY <1>1, <1>2, <1>3 DEF Placing
<1>6. ASSUME NEW w \in Workers PROVE Pending(req[w])
  BY <1>1, <1>2, <1>3 DEF Pending, Orderly, Owes, CookIn
<1>7. CardsInStep
  BY <1>1, ButtonFacts, Cooks DEF CardsInStep
<1> QED BY <1>1, <1>4, <1>5, <1>6, <1>7 DEF StaffInv, KitchenInv

(* The types after a step of one request.                                  *)
LEMMA OneRequestTypes ==
    ASSUME StaffTypes, NEW w \in Workers, NEW r \in Request,
           r.calls = <<>> => r.left = <<>>,
           req' = [req EXCEPT ![w] = r],
           order' \in OrderState, mode' = mode, ticket' \in KitchenState \cup {"ABSENT"},
           card' \in [Members -> SUBSET (OrderEvent \cup KitchenEvent)],
           placed' \in BOOLEAN, disturbed' \in BOOLEAN
    PROVE  StaffTypes'
<1>1. req' \in [Workers -> Request] /\ \A v \in Workers : req'[v] = IF v = w THEN r ELSE req[v]
  BY DEF StaffTypes
<1>2. \A v \in Workers : req'[v].calls = <<>> => req'[v].left = <<>>
  BY <1>1 DEF StaffTypes
<1>3. CardTypeOK'
  <2>1. mode \in {"pickup", "delivery"}
    BY DEF StaffTypes, CardTypeOK
  <2>2. ASSUME NEW v \in Workers
        PROVE  /\ req'[v].pc \in {"idle", "announce", "cook", "pack", "close", "notify"}
               /\ \A i \in DOMAIN req'[v].calls : req'[v].calls[i] \in Call
               /\ \A i \in DOMAIN req'[v].left : req'[v].left[i] \in Members
    BY <1>1 DEF Request
  <2> QED BY <2>1, <2>2 DEF CardTypeOK
<1> QED BY <1>1, <1>2, <1>3 DEF StaffTypes

LEMMA GotoTypes ==
    ASSUME NEW pc \in {"idle", "announce", "cook", "pack", "close", "notify"},
           NEW c \in Seq(Call)
    PROVE  LET r == [pc |-> pc, calls |-> c, left |-> <<>>]
           IN r \in Request /\ r.pc = pc /\ r.calls = c /\ r.left = <<>>
  BY DEF Request

(* The edges of the order's graph lead from state to state.                *)
LEMMA OrderEdges ==
    ASSUME NEW edge \in ORDER_TRANSITIONS
    PROVE  /\ edge[1] \in OrderState /\ edge[3] \in OrderState
           /\ (edge[1] \in {"CONFIRMED", "PAID"} /\ edge[2] = "CANCEL") => edge[3] = "CANCELLED"
           /\ edge[2] \in {"ASSIGN_COURIER", "PICKUP", "DELIVER", "CANCEL"} =>
                 edge[1] # "COOKING" /\ edge[1] # "CANCELLED"
           /\ edge[2] \in {"ASSIGN_COURIER", "PICKUP", "DELIVER"} =>
                 edge[1] \notin {"CONFIRMED", "PAID"}
BY DEF ORDER_TRANSITIONS, OrderState

LEMMA RoleFacts ==
    ASSUME NEW m \in Members
    PROVE  /\ RoleOf(m) \in Role
           /\ ORDER_ROLE_EVENTS[RoleOf(m)] \subseteq {"ASSIGN_COURIER", "PICKUP", "DELIVER", "CANCEL"}
<1>1. \E r \in Role : \E i \in DOMAIN Recipients[r] : Recipients[r][i] = m
  BY StaffCardsAssumption
<1>2. RoleOf(m) \in Role
  BY <1>1 DEF RoleOf
<1> QED BY <1>2 DEF ORDER_ROLE_EVENTS, Role

(* What a request is after a step of its own, and what else changes.       *)
LEMMA StepTypes ==
    ASSUME StaffTypes, NEW w \in Workers, Place(w) \/ Step(w) \/ Elsewhere(w) \/ Lose(w)
                                          \/ \E m \in Members : Press(w, m)
    PROVE  StaffTypes'
<1>0. /\ order \in OrderState /\ ticket \in KitchenState \cup {"ABSENT"} /\ placed \in BOOLEAN
      /\ card \in [Members -> SUBSET (OrderEvent \cup KitchenEvent)] /\ disturbed \in BOOLEAN
      /\ req[w] \in Request /\ (req[w].calls = <<>> => req[w].left = <<>>)
      /\ req[w].calls \in Seq(Call) /\ <<>> \in Seq(Call)
  BY DEF StaffTypes, CardTypeOK, Request
<1>1. ASSUME NEW pc \in {"idle", "announce", "cook", "pack", "close", "notify"},
             NEW c \in Seq(Call), Goto(w, pc, c),
             order' \in OrderState, mode' = mode, ticket' \in KitchenState \cup {"ABSENT"},
             card' = card, placed' \in BOOLEAN, disturbed' \in BOOLEAN
      PROVE  StaffTypes'
  <2> DEFINE r == [pc |-> pc, calls |-> c, left |-> <<>>]
  <2>1. r \in Request /\ r.left = <<>>
    BY GotoTypes
  <2>2. req' = [req EXCEPT ![w] = r]
    BY <1>1 DEF Goto
  <2> HIDE DEF r
  <2> QED BY <1>0, <1>1, <2>1, <2>2, OneRequestTypes
<1>2. CASE Place(w)
  BY <1>0, <1>1, <1>2, AnnounceFacts DEF Place
<1>3. CASE StartCooking(w)
  <2>1. KitchenCalls("NEW") \in Seq(Call)
    BY KitchenCallsFacts DEF KitchenState
  <2> QED BY <1>0, <1>1, <1>3, <2>1 DEF StartCooking
<1>4. CASE CommitCooking(w)
  BY <1>0, <1>1, <1>4 DEF CommitCooking, OrderState, KitchenState
<1>5. CASE Pack(w)
  <2>1. CourierCall("PACKING") \o req[w].calls \in Seq(Call)
    <3> DEFINE a == [role |-> "courier", o |-> "PACKING", k |-> "none"]
    <3>1. a \in Call /\ CourierCall("PACKING") = <<a>>
      BY DEF Call, Role, OrderState, CourierCall
    <3> HIDE DEF a
    <3> QED BY <1>0, <3>1, Prefixed
  <2>2. "PACKING" \in OrderState
    BY DEF OrderState
  <2> QED BY <1>0, <1>1, <1>5, <2>1, <2>2 DEF Pack
<1>6. CASE Close(w)
  <2>1. "CLOSED" \in OrderState
    BY DEF OrderState
  <2> QED BY <1>0, <1>1, <1>6, <2>1 DEF Close
<1>7. CASE Build(w)
  <2>1. /\ req[w].calls # <<>> /\ req[w].left = <<>>
        /\ UNCHANGED <<mode, order, ticket, card, placed, disturbed>>
    BY <1>7 DEF Build
  <2>2. /\ Built(req[w]) \in Request
        /\ Built(req[w]).calls = <<>> => Built(req[w]).left = <<>>
    BY <1>0, <2>1, BuiltFacts
  <2>3. req' = [req EXCEPT ![w] = Built(req[w])]
    BY <1>7, BuildIs
  <2> QED BY <1>0, <2>1, <2>2, <2>3, OneRequestTypes
<1>8. ASSUME Told(w), req[w].left # <<>>, order' = order, mode' = mode, ticket' = ticket,
             card' \in [Members -> SUBSET (OrderEvent \cup KitchenEvent)],
             placed' = placed, disturbed' \in BOOLEAN
      PROVE  StaffTypes'
  <2>1. /\ Informed(req[w]) \in Request
        /\ Informed(req[w]).calls = <<>> => Informed(req[w]).left = <<>>
    BY <1>0, <1>8, InformedFacts
  <2>2. req' = [req EXCEPT ![w] = Informed(req[w])]
    BY <1>8, ToldIs
  <2> QED BY <1>0, <1>8, <2>1, <2>2, OneRequestTypes
<1>9. CASE SendOrEdit(w)
  <2>1. /\ req[w].left # <<>> /\ Told(w) /\ UNCHANGED <<mode, order, ticket, placed, disturbed>>
    BY <1>9 DEF SendOrEdit
  <2> DEFINE m == Head(req[w].left)
             call == Head(req[w].calls)
             buttons == Keyboard(call.role, call.o, call.k)
  <2>2. PICK shown \in IF buttons = {} THEN {{}, card[m]} ELSE {buttons} :
           card' = [card EXCEPT ![m] = shown]
    BY <1>9 DEF SendOrEdit
  <2>3. m \in Members /\ call.role \in Role
    <3>1. m \in Members /\ call \in Call
      BY <1>0, <2>1, InformedFacts
    <3> QED BY <3>1 DEF Call
  <2>4. buttons \subseteq OrderEvent \cup KitchenEvent
    BY <2>3, KeyboardFacts
  <2> HIDE DEF buttons, m, call
  <2>5. card' \in [Members -> SUBSET (OrderEvent \cup KitchenEvent)]
    BY <1>0, <2>2, <2>3, <2>4
  <2> QED BY <1>0, <1>8, <2>1, <2>5
<1>10. CASE Lose(w)
  BY <1>0, <1>8, <1>10 DEF Lose
<1>11. CASE Done(w)
  BY <1>0, <1>1, <1>11 DEF Done
<1>12. ASSUME NEW edge \in KITCHEN_TRANSITIONS, NEW c \in Seq(Call), TicketTo(w, edge, c),
              disturbed' \in BOOLEAN
       PROVE  StaffTypes'
  BY <1>0, <1>1, <1>12, KitchenEdges DEF TicketTo
<1>13. ASSUME NEW edge \in ORDER_TRANSITIONS, NEW c \in Seq(Call), OrderTo(w, edge, c),
              disturbed' \in BOOLEAN
       PROVE  StaffTypes'
  BY <1>0, <1>1, <1>13, OrderEdges DEF OrderTo
<1>14. CASE Elsewhere(w)
  BY <1>0, <1>12, <1>13, <1>14 DEF Elsewhere
<1>15. ASSUME NEW m \in Members, Press(w, m) PROVE StaffTypes'
  <2>1. ASSUME NEW edge \in KITCHEN_TRANSITIONS, PressKitchen(w, m, edge) PROVE StaffTypes'
    <3>1. KitchenCalls(edge[3]) \in Seq(Call)
      BY KitchenEdges, KitchenCallsFacts
    <3> QED BY <1>0, <1>12, <2>1, <3>1 DEF PressKitchen
  <2>2. ASSUME NEW edge \in ORDER_TRANSITIONS, PressOrder(w, m, edge) PROVE StaffTypes'
    <3>1. OrderCalls(RoleOf(m), edge[3]) \in Seq(Call)
      BY OrderEdges, OrderCallsFacts
    <3> QED BY <1>0, <1>13, <2>2, <3>1 DEF PressOrder
  <2> QED BY <1>15, <2>1, <2>2 DEF Press
<1> QED
  BY <1>2, <1>3, <1>4, <1>5, <1>6, <1>7, <1>9, <1>10, <1>11, <1>14, <1>15 DEF Step

(* A restart.                                                              *)
LEMMA CrashTypes == ASSUME StaffTypes, Crash PROVE StaffTypes'
<1>1. NoReq \in Request /\ NoReq.pc = "idle" /\ NoReq.calls = <<>> /\ NoReq.left = <<>>
  BY DEF NoReq, Request
<1>2. /\ req' = [w \in Workers |-> NoReq] /\ disturbed' = TRUE
      /\ UNCHANGED <<mode, order, ticket, card, placed>>
  BY DEF Crash
<1>3. \A w \in Workers : req'[w] = NoReq
  BY <1>2
<1> QED BY <1>1, <1>2, <1>3 DEF StaffTypes, CardTypeOK

---------------------------------------------------------------------------
(* A step of a request that does not become the one that cooks.            *)
LEMMA OnePlacing ==
    ASSUME StaffTypes, Placing, NEW w \in Workers, NEW r, req' = [req EXCEPT ![w] = r],
           r.pc \in {"announce", "cook"} => req[w].pc \in {"announce", "cook"},
           (ticket' = "ABSENT") <=> (ticket = "ABSENT"), placed' = placed
    PROVE  Placing'
<1>1. \A v \in Workers : req'[v] = IF v = w THEN r ELSE req[v]
  BY DEF StaffTypes
<1>2. \A v \in Workers : req'[v].pc \in {"announce", "cook"} => req[v].pc \in {"announce", "cook"}
  BY <1>1
<1> QED BY <1>2 DEF Placing

(* One request cooks the order, and it has committed once there is a       *)
(* ticket.                                                                 *)
LEMMA PlacingStep ==
    ASSUME StaffTypes, Placing, NEW w \in Workers,
           Place(w) \/ Step(w) \/ \E m \in Members : Press(w, m)
    PROVE  Placing'
<1>0. ticket \in KitchenState \cup {"ABSENT"} /\ req[w] \in Request /\ req \in [Workers -> Request]
  BY DEF StaffTypes, CardTypeOK
<1>1. ASSUME NEW pc, NEW c, Goto(w, pc, c), placed' = placed,
             pc \in {"announce", "cook"} => req[w].pc \in {"announce", "cook"},
             (ticket' = "ABSENT") <=> (ticket = "ABSENT")
      PROVE  Placing'
  <2> DEFINE r == [pc |-> pc, calls |-> c, left |-> <<>>]
  <2>1. r.pc = pc /\ req' = [req EXCEPT ![w] = r]
    BY <1>1 DEF Goto
  <2> HIDE DEF r
  <2> QED BY <1>1, <2>1, OnePlacing
<1>2. CASE Place(w)
  <2> DEFINE r == [pc |-> "announce", calls |-> AnnounceCalls(order), left |-> <<>>]
  <2>1. ~placed /\ placed' = TRUE /\ ticket' = ticket /\ req' = [req EXCEPT ![w] = r]
    BY <1>2 DEF Place, Goto
  <2> HIDE DEF r
  <2>2. \A v \in Workers : req'[v] = IF v = w THEN r ELSE req[v]
    BY <1>0, <2>1
  <2>3. ticket = "ABSENT" /\ \A v \in Workers : req[v].pc \notin {"announce", "cook"}
    BY <2>1 DEF Placing
  <2> QED BY <2>1, <2>2, <2>3 DEF Placing
<1>3. CASE StartCooking(w)
  BY <1>1, <1>3 DEF StartCooking
<1>4. CASE CommitCooking(w)
  <2> DEFINE r == [pc |-> "idle", calls |-> <<>>, left |-> <<>>]
  <2>1. /\ req[w].pc = "cook" /\ placed' = placed /\ ticket' = "NEW" /\ req' = [req EXCEPT ![w] = r]
        /\ r.pc = "idle"
    BY <1>4 DEF CommitCooking, Goto
  <2> HIDE DEF r
  <2>2. \A v \in Workers : req'[v] = IF v = w THEN r ELSE req[v]
    BY <1>0, <2>1
  <2>3. placed /\ \A v \in Workers : v # w => req[v].pc \notin {"announce", "cook"}
    BY <2>1 DEF Placing
  <2> QED BY <2>1, <2>2, <2>3 DEF Placing
<1>5. CASE Pack(w)
  BY <1>1, <1>5 DEF Pack
<1>6. CASE Close(w)
  BY <1>1, <1>6 DEF Close
<1>7. CASE Build(w)
  <2>1. ticket' = ticket /\ placed' = placed /\ req[w].calls # <<>> /\ req[w].left = <<>>
    BY <1>7 DEF Build
  <2>2. req' = [req EXCEPT ![w] = Built(req[w])] /\ Built(req[w]).pc = req[w].pc
    BY <1>0, <1>7, <2>1, BuildIs, BuiltFacts
  <2> QED BY <2>1, <2>2, OnePlacing
<1>8. CASE SendOrEdit(w)
  <2>1. ticket' = ticket /\ placed' = placed /\ req[w].left # <<>> /\ Told(w)
    BY <1>8 DEF SendOrEdit
  <2>2. req[w].calls # <<>>
    BY <2>1 DEF StaffTypes
  <2>3. req' = [req EXCEPT ![w] = Informed(req[w])] /\ Informed(req[w]).pc = req[w].pc
    BY <1>0, <2>1, <2>2, ToldIs, InformedFacts
  <2> QED BY <2>1, <2>3, OnePlacing
<1>9. CASE Done(w)
  BY <1>1, <1>9 DEF Done
<1>10. ASSUME NEW m \in Members, Press(w, m) PROVE Placing'
  <2>1. ASSUME NEW edge \in KITCHEN_TRANSITIONS, PressKitchen(w, m, edge) PROVE Placing'
    <3>1. ticket = edge[1] /\ ticket' = edge[3] /\ placed' = placed
      BY <2>1 DEF PressKitchen, TicketTo
    <3>2. ticket # "ABSENT" /\ ticket' # "ABSENT"
      BY <3>1, KitchenEdges DEF KitchenState
    <3> QED BY <1>1, <2>1, <3>1, <3>2 DEF PressKitchen, TicketTo
  <2>2. ASSUME NEW edge \in ORDER_TRANSITIONS, PressOrder(w, m, edge) PROVE Placing'
    BY <1>1, <2>2 DEF PressOrder, OrderTo
  <2> QED BY <1>10, <2>1, <2>2 DEF Press
<1> QED BY <1>2, <1>3, <1>4, <1>5, <1>6, <1>7, <1>8, <1>9, <1>10 DEF Step

---------------------------------------------------------------------------
(* A request goes on while ticket, order and cards stay.                   *)
LEMMA SameTicket ==
    ASSUME StaffTypes, KitchenInv, NEW w \in Workers, NEW r, req' = [req EXCEPT ![w] = r],
           UNCHANGED <<ticket, order, card>>, Pending(r),
           ticket # "ABSENT" =>
              /\ \A i \in DOMAIN r.calls : \E j \in DOMAIN req[w].calls :
                    r.calls[i].k = req[w].calls[j].k
              /\ Owes(r) <=> Owes(req[w])
    PROVE  KitchenInv'
<1>1. \A v \in Workers : req'[v] = IF v = w THEN r ELSE req[v]
  BY DEF StaffTypes
<1>2. ASSUME NEW v \in Workers PROVE Pending(req[v])'
  <2>1. Pending(req'[v])
    BY <1>1 DEF KitchenInv
  <2> QED BY <2>1 DEF Pending
<1>3. ASSUME ticket # "ABSENT", NEW u \in Workers, NEW v \in Workers, u # v
      PROVE  Apart(req'[u], req'[v])
  <2>1. Apart(req[u], req[v])
    BY <1>3 DEF KitchenInv
  <2>2. \A i \in DOMAIN req'[u].calls : \E j \in DOMAIN req[u].calls :
           req'[u].calls[i].k = req[u].calls[j].k
    BY <1>1, <1>3
  <2>3. \A i \in DOMAIN req'[v].calls : \E j \in DOMAIN req[v].calls :
           req'[v].calls[i].k = req[v].calls[j].k
    BY <1>1, <1>3
  <2> QED BY <2>1, <2>2, <2>3 DEF Apart
<1>4. CardsInStep'
  <2>1. CASE ticket = "ABSENT"
    BY <2>1, ButtonFacts DEF KitchenInv, CardsInStep
  <2>2. CASE ticket # "ABSENT"
    <3>1. \A v \in Workers : Owes(req'[v]) <=> Owes(req[v])
      BY <1>1, <2>2
    <3> QED BY <3>1 DEF KitchenInv, CardsInStep
  <2> QED BY <2>1, <2>2
<1> QED BY <1>2, <1>3, <1>4 DEF KitchenInv

(* An idle request, or one with calls that leave the kitchen out.          *)
LEMMA QuietPending ==
    ASSUME NEW r, r.left = <<>>, r.pc \in {"idle", "announce", "notify"},
           r.pc = "idle" => r.calls = <<>>,
           order \in {"CONFIRMED", "PAID"} => r.pc # "notify",
           \A i \in DOMAIN r.calls : r.calls[i].k \in {"?", "none"} /\ r.calls[i].role # "kitchen",
           r.calls \in Seq(Call),
           ticket # "ABSENT" => r.calls = <<>>
    PROVE  Pending(r) /\ ~Owes(r)
<1>1. ~CookIn(r.left)
  BY DEF CookIn
<1>2. ~Owes(r)
  <2> SUFFICES ASSUME r.calls # <<>>, r.calls[1].role = "kitchen" PROVE FALSE
    BY DEF Owes
  <2>1. 1 \in DOMAIN r.calls
    OBVIOUS
  <2> QED BY <2>1
<1>3. Orderly(r)
  BY <1>1 DEF Orderly
<1>4. ticket # "ABSENT" => DOMAIN r.calls = {}
  OBVIOUS
<1> QED BY <1>2, <1>3, <1>4 DEF Pending

(* A call that a request with the order's row makes of the new ticket.     *)
LEMMA FreshPending ==
    ASSUME NEW r, NEW k \in KitchenState, r.left = <<>>, r.calls = KitchenCalls(k)
    PROVE  /\ Orderly(r) /\ Owes(r) /\ r.calls[1].k = k
           /\ \A i \in DOMAIN r.calls : r.calls[i].k = k
<1>1. /\ r.calls \in Seq(Call) /\ r.calls # <<>> /\ r.calls[1].role = "kitchen"
      /\ \A i \in DOMAIN r.calls : r.calls[i].k = k /\ (r.calls[i].role = "kitchen" => i = 1)
  BY KitchenCallsFacts
<1>2. 1 \in DOMAIN r.calls
  BY <1>1
<1>3. ~CookIn(r.left)
  BY DEF CookIn
<1> QED BY <1>1, <1>2, <1>3 DEF Orderly, Owes

(* Requests that change neither card nor ticket.                           *)
LEMMA QuietSteps ==
    ASSUME StaffTypes, Placing, KitchenInv, NEW w \in Workers,
           Place(w) \/ StartCooking(w) \/ Done(w) \/ Build(w)
    PROVE  KitchenInv'
<1>0. /\ req[w] \in Request /\ Pending(req[w]) /\ order \in OrderState /\ <<>> \in Seq(Call)
      /\ ticket \in KitchenState \cup {"ABSENT"}
  BY DEF StaffTypes, CardTypeOK, KitchenInv
<1>1. ASSUME Goto(w, "idle", <<>>), UNCHANGED <<ticket, order, card>>, ~Owes(req[w])
      PROVE  KitchenInv'
  <2> DEFINE r == [pc |-> "idle", calls |-> <<>>, left |-> <<>>]
  <2>1. req' = [req EXCEPT ![w] = r] /\ r.pc = "idle" /\ r.calls = <<>> /\ r.left = <<>>
    BY <1>1 DEF Goto
  <2> HIDE DEF r
  <2>2. \A i \in DOMAIN r.calls : FALSE
    BY <2>1
  <2>3. Pending(r) /\ ~Owes(r)
    BY <1>0, <2>1, <2>2, QuietPending
  <2> QED BY <1>1, <2>1, <2>2, <2>3, SameTicket
<1>2. CASE Place(w)
  <2> DEFINE r == [pc |-> "announce", calls |-> AnnounceCalls(order), left |-> <<>>]
  <2>1. /\ req' = [req EXCEPT ![w] = r] /\ ~placed /\ UNCHANGED <<ticket, order, card>>
        /\ r.pc = "announce" /\ r.calls = AnnounceCalls(order) /\ r.left = <<>>
    BY <1>2 DEF Place, Goto
  <2> HIDE DEF r
  <2>2. ticket = "ABSENT"
    BY <2>1 DEF Placing
  <2>3. Pending(r)
    BY <1>0, <2>1, <2>2, AnnounceFacts, QuietPending
  <2> QED BY <2>1, <2>2, <2>3, SameTicket
<1>3. CASE StartCooking(w)
  <2>1. /\ req[w].pc = "announce" /\ req[w].calls = <<>> /\ UNCHANGED <<ticket, order, card>>
    BY <1>3 DEF StartCooking
  <2>2. ticket = "ABSENT" /\ ~Owes(req[w])
    BY <2>1 DEF Placing, Owes
  <2>3. CASE order \in {"CONFIRMED", "PAID"}
    <3> DEFINE r == [pc |-> "cook", calls |-> KitchenCalls("NEW"), left |-> <<>>]
    <3>1. /\ req' = [req EXCEPT ![w] = r] /\ r.pc = "cook" /\ r.calls = KitchenCalls("NEW")
          /\ r.left = <<>>
      BY <1>3, <2>3 DEF StartCooking, Goto
    <3> HIDE DEF r
    <3>2. Orderly(r) /\ Owes(r) /\ \A j \in DOMAIN r.calls : r.calls[j].k = "NEW"
      BY <3>1, FreshPending DEF KitchenState
    <3>3. Pending(r)
      BY <2>2, <2>3, <3>1, <3>2, PassedFacts DEF Pending
    <3> QED BY <2>1, <2>2, <3>1, <3>3, SameTicket
  <2>4. CASE order \notin {"CONFIRMED", "PAID"}
    BY <1>1, <1>3, <2>1, <2>2, <2>4 DEF StartCooking
  <2> QED BY <2>3, <2>4
<1>4. CASE Done(w)
  <2>1. req[w].calls = <<>> /\ Goto(w, "idle", <<>>) /\ UNCHANGED <<ticket, order, card>>
    BY <1>4 DEF Done
  <2>2. ~Owes(req[w])
    BY <2>1 DEF Owes
  <2> QED BY <1>1, <2>1, <2>2
<1>5. CASE Build(w)
  <2> DEFINE r == Built(req[w])
  <2>1. /\ req[w].calls # <<>> /\ req[w].left = <<>> /\ UNCHANGED <<ticket, order, card>>
        /\ req' = [req EXCEPT ![w] = r]
    BY <1>5, BuildIs DEF Build
  <2>2. /\ r.pc = req[w].pc
        /\ \A i \in DOMAIN r.calls : \E j \in DOMAIN req[w].calls :
              \/ r.calls[i].k = req[w].calls[j].k
              \/ /\ req[w].calls[j].k = "?"
                 /\ r.calls[i].k = IF ticket = "ABSENT" THEN "none" ELSE ticket
        /\ Orderly(req[w]) => Orderly(r) /\ (Owes(r) <=> Owes(req[w]))
        /\ (Orderly(req[w]) /\ Owes(r) /\ req[w].calls[1].k # "?") => r.calls[1].k = req[w].calls[1].k
    BY <1>0, <2>1, BuiltFacts
  <2> HIDE DEF r
  <2>3. Orderly(req[w]) /\ req[w].pc # "idle"
    BY <1>0, <2>1 DEF Pending
  <2>4. \A i \in DOMAIN req[w].calls : ticket # "ABSENT" => req[w].calls[i].k # "?"
    BY <1>0, PassedFacts DEF Pending, KitchenState
  <2>5. ticket # "ABSENT" =>
           \A i \in DOMAIN r.calls : \E j \in DOMAIN req[w].calls : r.calls[i].k = req[w].calls[j].k
    BY <2>2, <2>4
  <2>6. req[w].pc = "cook" => \A i \in DOMAIN r.calls : r.calls[i].k = "NEW"
    BY <1>0, <2>2 DEF Pending
  <2>7. \A i \in DOMAIN r.calls :
           r.calls[i].k \in Passed(ticket) \cup (IF ticket = "ABSENT" THEN {"?", "none"} ELSE {})
    <3>1. CASE ticket = "ABSENT"
      BY <1>0, <2>2, <3>1 DEF Pending
    <3>2. CASE ticket # "ABSENT"
      BY <1>0, <2>5, <3>2 DEF Pending
    <3> QED BY <3>1, <3>2
  <2>8. (ticket # "ABSENT" /\ Owes(r)) => r.calls[1].k = ticket
    <3> SUFFICES ASSUME ticket # "ABSENT", Owes(r) PROVE r.calls[1].k = ticket
      OBVIOUS
    <3>1. Owes(req[w]) /\ req[w].calls[1].k = ticket
      BY <1>0, <2>2, <2>3 DEF Pending
    <3>2. ticket # "?"
      BY <1>0 DEF KitchenState
    <3> QED BY <2>2, <2>3, <3>1, <3>2
  <2>9. Pending(r)
    BY <1>0, <2>2, <2>3, <2>6, <2>7, <2>8 DEF Pending
  <2> QED BY <2>1, <2>2, <2>3, <2>5, <2>9, SameTicket
<1> QED BY <1>2, <1>3, <1>4, <1>5

(* Before there is a ticket only CANCEL can be pressed for the order, and  *)
(* after, until HAND_OFF, nothing.                                         *)
LEMMA PressOrderStep ==
    ASSUME StaffTypes, KitchenInv, NEW w \in Workers, NEW m \in Members,
           NEW edge \in ORDER_TRANSITIONS, PressOrder(w, m, edge)
    PROVE  KitchenInv'
<1> DEFINE c == OrderCalls(RoleOf(m), edge[3])
           r == [pc |-> "notify", calls |-> c, left |-> <<>>]
<1>1. /\ edge[2] \in {"ASSIGN_COURIER", "PICKUP", "DELIVER", "CANCEL"} /\ order = edge[1]
      /\ order' = edge[3] /\ UNCHANGED <<ticket, card>> /\ req' = [req EXCEPT ![w] = r]
      /\ \A v \in Workers : req[v].pc # "cook"
  <2>1. edge[2] \in ORDER_ROLE_EVENTS[RoleOf(m)] /\ OrderTo(w, edge, c)
    BY DEF PressOrder
  <2> QED BY <2>1, RoleFacts DEF OrderTo, Goto, RowLocked
<1>2. ticket = "ABSENT" /\ order' = "CANCELLED"
  BY <1>1, OrderEdges DEF KitchenInv
<1>3. /\ c \in Seq(Call)
      /\ \A i \in DOMAIN c : c[i].k \in {"?", "none"} /\ c[i].role # "kitchen"
  BY OrderEdges, OrderCallsFacts
<1>4. r.pc = "notify" /\ r.calls = c /\ r.left = <<>>
  OBVIOUS
<1> HIDE DEF r, c
<1>5. \A v \in Workers : req'[v] = IF v = w THEN r ELSE req[v]
  BY <1>1 DEF StaffTypes
<1>6. Orderly(r)
  BY <1>3, <1>4 DEF Orderly, CookIn
<1>7. ASSUME NEW v \in Workers PROVE Pending(req[v])'
  <2>1. CASE v = w
    BY <1>2, <1>1, <1>3, <1>4, <1>5, <1>6, <2>1 DEF Pending
  <2>2. CASE v # w
    <3>1. req'[v] = req[v] /\ req[v].pc # "cook" /\ Pending(req[v])
      BY <1>1, <1>5, <2>2 DEF KitchenInv
    <3> QED BY <1>1, <1>2, <3>1 DEF Pending
  <2> QED BY <2>1, <2>2
<1>8. CardsInStep'
  BY <1>1, <1>2, ButtonFacts DEF KitchenInv, CardsInStep
<1> QED BY <1>1, <1>2, <1>7, <1>8 DEF KitchenInv

(* The ticket is there once its kitchen was told.                          *)
LEMMA CommitCookingStep ==
    ASSUME StaffTypes, Placing, KitchenInv, NEW w \in Workers, CommitCooking(w)
    PROVE  KitchenInv'
<1> DEFINE r == [pc |-> "idle", calls |-> <<>>, left |-> <<>>]
<1>1. /\ req[w].pc = "cook" /\ req[w].calls = <<>> /\ order' = "COOKING" /\ ticket' = "NEW"
      /\ card' = card /\ req' = [req EXCEPT ![w] = r]
      /\ r.pc = "idle" /\ r.calls = <<>> /\ r.left = <<>>
  BY DEF CommitCooking, Goto
<1> HIDE DEF r
<1>2. \A v \in Workers : req'[v] = IF v = w THEN r ELSE req[v]
  BY <1>1 DEF StaffTypes
<1>3. ticket = "ABSENT" /\ \A v \in Workers : v # w => req[v].pc \notin {"announce", "cook"}
  BY <1>1 DEF Placing
<1>4. order \in {"CONFIRMED", "PAID"} /\ Buttons("NEW") \subseteq card[FirstCook]
  BY <1>1 DEF KitchenInv, Pending, Owes
<1>5. \A v \in Workers : req'[v].pc = "idle" /\ req'[v].calls = <<>> /\ req'[v].left = <<>>
  <2> SUFFICES ASSUME NEW v \in Workers, v # w
               PROVE  req[v].pc = "idle" /\ req[v].calls = <<>> /\ req[v].left = <<>>
    BY <1>1, <1>2
  <2>1. req[v].pc = "idle" /\ req[v].calls = <<>>
    BY <1>3, <1>4 DEF KitchenInv, Pending
  <2> QED BY <2>1 DEF StaffTypes
<1>6. \A v \in Workers : ~Owes(req'[v]) /\ Orderly(req'[v])
  BY <1>5 DEF Owes, Orderly, CookIn
<1>7. \A v \in Workers : Pending(req[v])'
  BY <1>1, <1>5, <1>6 DEF Pending
<1>8. CardsInStep'
  BY <1>1, <1>3, <1>4, <1>6, PassedFacts DEF KitchenInv, CardsInStep
<1>9. \A u, v \in Workers : Apart(req'[u], req'[v])
  BY <1>5 DEF Apart
<1> QED BY <1>1, <1>7, <1>8, <1>9 DEF KitchenInv

(* The next stage can be pressed only from a card that shows the last one, *)
(* so nobody owes the first cook anything, and the new request does.       *)
LEMMA PressKitchenStep ==
    ASSUME StaffTypes, Placing, KitchenInv, NEW w \in Workers, NEW m \in Members,
           NEW edge \in KITCHEN_TRANSITIONS, PressKitchen(w, m, edge), ticket' # "HANDED_OFF"
    PROVE  KitchenInv'
<1> DEFINE c == KitchenCalls(edge[3])
           r == [pc |-> "notify", calls |-> c, left |-> <<>>]
<1>0. /\ edge[1] \in KitchenState /\ edge[3] \in KitchenState
      /\ edge[2] \in Buttons(edge[1]) /\ edge[3] \notin Passed(edge[1])
      /\ Passed(edge[1]) \subseteq Passed(edge[3]) /\ edge[3] \in Passed(edge[3])
      /\ \A k \in Passed(edge[1]) : Buttons(k) \cap Buttons(edge[3]) = {}
      /\ edge[2] = "HAND_OFF" => edge[3] = "HANDED_OFF"
  BY KitchenEdges, PassedFacts
<1>1. /\ edge[2] \in card[m] /\ ticket = edge[1] /\ ticket' = edge[3] /\ UNCHANGED <<order, card>>
      /\ req' = [req EXCEPT ![w] = r]
  BY <1>0 DEF PressKitchen, TicketTo, Goto
<1>2. r.pc = "notify" /\ r.calls = c /\ r.left = <<>>
  OBVIOUS
<1> HIDE DEF r, c
<1>3. \A v \in Workers : req'[v] = IF v = w THEN r ELSE req[v]
  BY <1>1 DEF StaffTypes
<1>4. ticket # "ABSENT" /\ ticket' # "ABSENT" /\ order = "COOKING"
  BY <1>0, <1>1 DEF KitchenState, KitchenInv
<1>5. \A v \in Workers : ~Owes(req[v])
  BY <1>0, <1>1 DEF KitchenInv, CardsInStep
<1>6. /\ Orderly(r) /\ Owes(r) /\ r.calls[1].k = edge[3]
      /\ \A i \in DOMAIN r.calls : r.calls[i].k = edge[3]
  BY <1>0, <1>2, FreshPending DEF c
<1>7. ASSUME NEW v \in Workers, v # w PROVE \A i \in DOMAIN req[v].calls : req[v].calls[i].k \in Passed(edge[1])
  BY <1>1, <1>4 DEF KitchenInv, Pending
<1>8. ASSUME NEW v \in Workers PROVE Pending(req[v])'
  <2>1. CASE v = w
    BY <1>0, <1>1, <1>2, <1>3, <1>4, <1>6, <2>1 DEF Pending
  <2>2. CASE v # w
    <3>1. req'[v] = req[v] /\ Pending(req[v]) /\ ~Owes(req[v])
      BY <1>3, <1>5, <2>2 DEF KitchenInv
    <3>2. \A i \in DOMAIN req[v].calls : req[v].calls[i].k \in Passed(edge[3])
      BY <1>0, <1>7, <2>2
    <3> QED BY <1>1, <1>4, <3>1, <3>2 DEF Pending
  <2> QED BY <2>1, <2>2
<1>9. ASSUME NEW u \in Workers, NEW v \in Workers, u # v PROVE Apart(req'[u], req'[v])
  <2>1. CASE u # w /\ v # w
    BY <1>3, <1>4, <1>9, <2>1 DEF KitchenInv
  <2>2. CASE u = w
    BY <1>0, <1>3, <1>6, <1>7, <1>9, <2>2 DEF Apart
  <2>3. CASE v = w
    BY <1>0, <1>3, <1>6, <1>7, <1>9, <2>3 DEF Apart
  <2> QED BY <2>1, <2>2, <2>3
<1>10. CardsInStep'
  <2>1. \A n \in Members : \A e \in card[n] \cap KitchenEvent : \E k \in Passed(edge[1]) : e \in Buttons(k)
    BY <1>1 DEF KitchenInv, CardsInStep
  <2>2. Buttons(edge[3]) \subseteq KitchenEvent
    BY ButtonFacts DEF KitchenEvent
  <2>3. \A n \in Members : Buttons(edge[3]) \cap card[n] = {}
    BY <1>0, <2>1, <2>2
  <2>4. \A n \in Members : \A e \in card[n] \cap KitchenEvent : \E k \in Passed(edge[3]) : e \in Buttons(k)
    BY <1>0, <2>1
  <2>5. \E v \in Workers : Owes(req'[v])
    BY <1>3, <1>6
  <2> QED BY <1>1, <2>3, <2>4, <2>5 DEF CardsInStep
<1> QED BY <1>1, <1>4, <1>8, <1>9, <1>10 DEF KitchenInv

(* A recipient is told: the first cook of nothing but the ticket's state,  *)
(* and everybody else of the ticket's state only after him.                *)
LEMMA SendStep ==
    ASSUME StaffTypes, Placing, KitchenInv, ticket # "HANDED_OFF", NEW w \in Workers, SendOrEdit(w)
    PROVE  KitchenInv'
<1> DEFINE m == Head(req[w].left)
           call == req[w].calls[1]
           buttons == Keyboard(call.role, call.o, call.k)
           r == Informed(req[w])
<1>1. /\ req[w].left # <<>> /\ Told(w) /\ UNCHANGED <<order, ticket>>
      /\ req[w] \in Request /\ Pending(req[w]) /\ Orderly(req[w])
      /\ card \in [Members -> SUBSET (OrderEvent \cup KitchenEvent)]
      /\ ticket \in KitchenState \cup {"ABSENT"}
  BY DEF SendOrEdit, StaffTypes, CardTypeOK, KitchenInv, Pending
<1>2. req[w].calls # <<>>
  BY <1>1 DEF StaffTypes
<1>3. /\ m \in Members /\ call \in Call /\ Head(req[w].calls) = call /\ 1 \in DOMAIN req[w].calls
      /\ r.pc = req[w].pc
      /\ \A i \in DOMAIN r.calls : \E j \in DOMAIN req[w].calls : r.calls[i].k = req[w].calls[j].k
      /\ Orderly(r) /\ ~Owes(r) /\ (m = FirstCook <=> Owes(req[w]))
  BY <1>1, <1>2, InformedFacts
<1>4. req' = [req EXCEPT ![w] = r]
  BY <1>1, ToldIs
<1>5. PICK shown \in IF buttons = {} THEN {{}, card[m]} ELSE {buttons} :
         card' = [card EXCEPT ![m] = shown]
  BY <1>3 DEF SendOrEdit
<1>6. call.role \in Role
  BY <1>3 DEF Call
<1>7. /\ buttons \cap KitchenEvent \subseteq Buttons(call.k)
      /\ call.role = "kitchen" => buttons = Buttons(call.k)
  BY <1>6, KeyboardFacts
<1>8. Owes(req[w]) => call.role = "kitchen" /\ (ticket # "ABSENT" => call.k = ticket)
  BY <1>1 DEF Owes, Pending
<1>9. call.k \in Passed(ticket) \/ (ticket = "ABSENT" /\ call.k \in {"?", "none"})
  BY <1>1, <1>3 DEF Pending
<1>10. req[w].pc = "cook" => call.k = "NEW"
  BY <1>1, <1>3 DEF Pending
<1> HIDE DEF m, call, buttons, r
<1>11. \A v \in Workers : req'[v] = IF v = w THEN r ELSE req[v]
  BY <1>4 DEF StaffTypes
<1>12. \A n \in Members : card'[n] = IF n = m THEN shown ELSE card[n]
  BY <1>1, <1>5
<1>13. shown = buttons \/ shown = {} \/ shown = card[m]
  BY <1>5
<1>14. buttons # {} => shown = buttons
  BY <1>5
<1>15. FirstCook \in Members
  BY Cooks
<1>16. Buttons("NEW") # {} /\ (ticket # "ABSENT" => Buttons(ticket) # {})
  BY <1>1, ButtonFacts DEF KitchenState
<1>17. (Buttons("NEW") \subseteq card[FirstCook] /\ req[w].pc = "cook") =>
           Buttons("NEW") \subseteq card'[FirstCook]
  <2> SUFFICES ASSUME m = FirstCook, req[w].pc = "cook"
               PROVE  Buttons("NEW") \subseteq card'[FirstCook]
    BY <1>12, <1>15
  <2>1. buttons = Buttons("NEW")
    BY <1>3, <1>7, <1>8, <1>10
  <2> QED BY <1>12, <1>14, <1>15, <1>16, <2>1
<1>18. ASSUME NEW v \in Workers PROVE Pending(req[v])'
  <2>1. CASE v = w
    <3>1. req[w].pc = "cook" =>
             /\ \A i \in DOMAIN r.calls : r.calls[i].k = "NEW"
             /\ Buttons("NEW") \subseteq card'[FirstCook]
      <4> SUFFICES ASSUME req[w].pc = "cook"
                   PROVE  /\ \A i \in DOMAIN r.calls : r.calls[i].k = "NEW"
                          /\ Buttons("NEW") \subseteq card'[FirstCook]
        OBVIOUS
      <4>1. \A i \in DOMAIN r.calls : r.calls[i].k = "NEW"
        BY <1>1, <1>3 DEF Pending
      <4>2. CASE Owes(req[w])
        <5>1. m = FirstCook /\ buttons = Buttons("NEW")
          BY <1>3, <1>7, <1>8, <1>10, <4>2
        <5> QED BY <1>12, <1>14, <1>15, <1>16, <4>1, <5>1
      <4>3. CASE ~Owes(req[w])
        <5>1. Buttons("NEW") \subseteq card[FirstCook]
          BY <1>1, <4>3 DEF Pending
        <5> QED BY <1>17, <4>1, <5>1
      <4> QED BY <4>2, <4>3
    <3>2. \A i \in DOMAIN r.calls :
             r.calls[i].k \in Passed(ticket) \cup (IF ticket = "ABSENT" THEN {"?", "none"} ELSE {})
      BY <1>1, <1>3 DEF Pending
    <3>3. r.pc = "idle" => r.calls = <<>>
      BY <1>1, <1>2, <1>3 DEF Pending
    <3> QED BY <1>1, <1>3, <1>11, <2>1, <3>1, <3>2, <3>3 DEF Pending
  <2>2. CASE v # w
    <3>1. req'[v] = req[v] /\ Pending(req[v])
      BY <1>11, <2>2 DEF KitchenInv
    <3>2. req[v].pc = "cook" /\ m = FirstCook => Owes(req[v])
      <4> SUFFICES ASSUME req[v].pc = "cook", m = FirstCook PROVE FALSE
        OBVIOUS
      <4>1. req[w].pc \notin {"announce", "cook"} /\ order \in {"CONFIRMED", "PAID"}
        BY <2>2, <3>1 DEF Placing, Pending
      <4>2. req[w].pc # "notify" /\ req[w].pc # "idle"
        BY <1>1, <1>2, <4>1 DEF Pending
      <4> QED BY <1>1, <4>1, <4>2 DEF Pending
    <3>3. req[v].pc = "cook" => Owes(req[v]) \/ Buttons("NEW") \subseteq card'[FirstCook]
      BY <1>12, <1>15, <3>1, <3>2 DEF Pending
    <3> QED BY <1>1, <3>1, <3>3 DEF Pending
  <2> QED BY <2>1, <2>2
<1>19. ASSUME ticket # "ABSENT", NEW u \in Workers, NEW v \in Workers, u # v
       PROVE  Apart(req'[u], req'[v])
  <2>1. Apart(req[u], req[v])
    BY <1>19 DEF KitchenInv
  <2>2. \A i \in DOMAIN req'[u].calls : \E j \in DOMAIN req[u].calls :
           req'[u].calls[i].k = req[u].calls[j].k
    BY <1>3, <1>11
  <2>3. \A i \in DOMAIN req'[v].calls : \E j \in DOMAIN req[v].calls :
           req'[v].calls[i].k = req[v].calls[j].k
    BY <1>3, <1>11
  <2> QED BY <2>1, <2>2, <2>3 DEF Apart
<1>20. CardsInStep'
  <2>1. ASSUME NEW n \in Members, NEW e \in card'[n] \cap KitchenEvent
        PROVE  \E k \in Passed(ticket) : e \in Buttons(k)
    <3>1. CASE e \in card[n]
      BY <2>1, <3>1 DEF KitchenInv, CardsInStep
    <3>2. CASE e \notin card[n]
      <4>1. e \in Buttons(call.k)
        BY <1>7, <1>12, <1>13, <2>1, <3>2
      <4>2. call.k \notin {"?", "none"}
        BY <4>1, ButtonFacts
      <4> QED BY <1>9, <4>1, <4>2
    <3> QED BY <3>1, <3>2
  <2>2. CASE ticket = "ABSENT"
    BY <1>1, <2>1, <2>2, ButtonFacts DEF CardsInStep
  <2>3. CASE ticket # "ABSENT" /\ Owes(req[w])
    <3>1. m = FirstCook /\ call.k = ticket /\ buttons = Buttons(ticket)
      BY <1>3, <1>7, <1>8, <2>3
    <3>2. card'[FirstCook] = Buttons(ticket)
      BY <1>12, <1>14, <1>15, <1>16, <2>3, <3>1
    <3>3. ASSUME NEW v \in Workers PROVE ~Owes(req'[v])
      <4>1. CASE v = w
        BY <1>3, <1>11, <4>1
      <4>2. CASE v # w
        <5> SUFFICES ASSUME Owes(req[v]) PROVE FALSE
          BY <1>11, <4>2
        <5>1. Apart(req[v], req[w]) /\ Pending(req[v]) /\ req[v] \in Request
          BY <2>3, <4>2 DEF KitchenInv, StaffTypes
        <5>2. req[v].calls[1].k = ticket /\ 1 \in DOMAIN req[v].calls
          BY <2>3, <5>1 DEF Pending, Owes, Request
        <5> QED BY <1>3, <3>1, <5>1, <5>2 DEF Apart, call
      <4> QED BY <4>1, <4>2
    <3> QED BY <1>1, <2>1, <3>2, <3>3 DEF CardsInStep
  <2>4. CASE ticket # "ABSENT" /\ ~Owes(req[w])
    <3>1. card'[FirstCook] = card[FirstCook]
      BY <1>3, <1>12, <1>15, <2>4
    <3>2. \A v \in Workers : Owes(req'[v]) <=> Owes(req[v])
      BY <1>3, <1>11, <2>4
    <3>3. Buttons(ticket) \subseteq card'[FirstCook] \/ \E v \in Workers : Owes(req'[v])
      BY <2>4, <3>1, <3>2 DEF KitchenInv, CardsInStep
    <3>4. ASSUME NEW n \in Members, Buttons(ticket) \cap card'[n] # {}
          PROVE  Buttons(ticket) \subseteq card'[FirstCook] /\ \A v \in Workers : ~Owes(req'[v])
      <4>1. CASE Buttons(ticket) \cap card[n] # {}
        BY <3>1, <3>2, <4>1 DEF KitchenInv, CardsInStep
      <4>2. CASE Buttons(ticket) \cap card[n] = {}
        <5>1. Buttons(ticket) \cap buttons # {}
          BY <1>12, <1>13, <3>4, <4>2
        <5>2. Buttons(ticket) \subseteq KitchenEvent
          BY ButtonFacts DEF KitchenEvent
        <5>3. Buttons(ticket) \cap Buttons(call.k) # {}
          BY <1>7, <5>1, <5>2
        <5>4. call.k = ticket
          <6>1. call.k \in {"NEW", "QUEUED", "PREPARING", "READY"}
            BY <5>3, ButtonFacts
          <6>2. ticket \in {"NEW", "QUEUED", "PREPARING", "READY"}
            BY <5>3, ButtonFacts
          <6> QED BY <5>3, <6>1, <6>2, ButtonFacts
        <5>5. ASSUME NEW v \in Workers, Owes(req[v]) PROVE FALSE
          <6>1. v # w
            BY <2>4, <5>5
          <6>2. Apart(req[v], req[w]) /\ Pending(req[v]) /\ req[v] \in Request
            BY <2>4, <6>1 DEF KitchenInv, StaffTypes
          <6>3. req[v].calls[1].k = ticket /\ 1 \in DOMAIN req[v].calls
            BY <2>4, <5>5, <6>2 DEF Pending, Owes, Request
          <6> QED BY <1>3, <5>4, <6>2, <6>3 DEF Apart, call
        <5> QED BY <3>2, <3>3, <5>5
      <4> QED BY <4>1, <4>2
    <3> QED BY <1>1, <2>1, <3>3, <3>4 DEF CardsInStep
  <2> QED BY <2>2, <2>3, <2>4
<1> QED BY <1>1, <1>18, <1>19, <1>20 DEF KitchenInv

---------------------------------------------------------------------------
(* Every step keeps the invariant.                                         *)
LEMMA StaffNextInv == StaffInv /\ [Next]_vars => StaffInv'
<1> SUFFICES ASSUME StaffInv, [Next]_vars PROVE StaffInv'
  OBVIOUS
<1>1. CASE UNCHANGED vars
  <2>1. UNCHANGED <<order, mode, ticket, card, req, placed, disturbed>>
    BY <1>1 DEF vars
  <2>2. StaffTypes' /\ (Placing => Placing')
    BY <2>1 DEF StaffInv, StaffTypes, CardTypeOK, Placing
  <2>3. KitchenInv => KitchenInv'
    BY <2>1 DEF KitchenInv, Pending, CardsInStep
  <2> QED BY <2>1, <2>2, <2>3 DEF StaffInv
<1>2. CASE Next
  <2>0. ~disturbed /\ StaffTypes /\ Placing /\ (ticket # "HANDED_OFF" => KitchenInv)
    BY <1>2 DEF Next, StaffInv
  <2>1. CASE Crash
    <3>1. disturbed' = TRUE
      BY <2>1 DEF Crash
    <3> QED BY <2>0, <2>1, <3>1, CrashTypes DEF StaffInv
  <2>2. ASSUME NEW w \in Workers, Elsewhere(w) \/ Lose(w) PROVE StaffInv'
    <3>1. disturbed' = TRUE
      BY <2>2 DEF Elsewhere, Lose
    <3>2. StaffTypes'
      BY <2>0, <2>2, StepTypes
    <3> QED BY <3>1, <3>2 DEF StaffInv
  <2>3. ASSUME NEW w \in Workers, Place(w) \/ Step(w) \/ \E m \in Members : Press(w, m)
        PROVE  StaffInv'
    <3>1. StaffTypes' /\ Placing'
      BY <2>0, <2>3, StepTypes, PlacingStep
    <3>2. ASSUME ticket' # "HANDED_OFF" PROVE KitchenInv'
      <4>1. CASE Pack(w) \/ Close(w)
        <5>1. ticket' = ticket /\ req[w].pc \in {"pack", "close"}
          BY <4>1 DEF Pack, Close
        <5> QED BY <2>0, <3>2, <5>1 DEF KitchenInv, Pending
      <4>2. CASE Place(w) \/ StartCooking(w) \/ Done(w) \/ Build(w)
        <5>1. ticket' = ticket
          BY <4>2 DEF Place, StartCooking, Done, Build
        <5> QED BY <2>0, <3>2, <4>2, <5>1, QuietSteps
      <4>3. CASE CommitCooking(w)
        <5>1. ticket = "ABSENT"
          BY <2>0, <4>3 DEF CommitCooking, Placing
        <5> QED BY <2>0, <4>3, <5>1, CommitCookingStep
      <4>4. CASE SendOrEdit(w)
        <5>1. ticket' = ticket
          BY <4>4 DEF SendOrEdit
        <5> QED BY <2>0, <3>2, <4>4, <5>1, SendStep
      <4>5. ASSUME NEW m \in Members, NEW edge \in KITCHEN_TRANSITIONS, PressKitchen(w, m, edge)
            PROVE KitchenInv'
        <5>1. ticket # "HANDED_OFF"
          BY <4>5, KitchenEdges DEF PressKitchen, TicketTo
        <5> QED BY <2>0, <3>2, <4>5, <5>1, PressKitchenStep
      <4>6. ASSUME NEW m \in Members, NEW edge \in ORDER_TRANSITIONS, PressOrder(w, m, edge)
            PROVE KitchenInv'
        <5>1. ticket' = ticket
          BY <4>6 DEF PressOrder, OrderTo
        <5> QED BY <2>0, <3>2, <4>6, <5>1, PressOrderStep
      <4> QED BY <2>3, <4>1, <4>2, <4>3, <4>4, <4>5, <4>6 DEF Step, Press
    <3> QED BY <3>1, <3>2 DEF StaffInv
  <2> QED BY <1>2, <2>1, <2>2, <2>3 DEF Next
<1> QED BY <1>1, <1>2

(* For any staff and any requests, cards show events and requests tell     *)
(* members.                                                                *)
THEOREM CardsTypeCorrect == Spec => []CardTypeOK
<1>1. StaffInv => CardTypeOK
  BY DEF StaffInv, StaffTypes
<1> QED BY <1>1, StaffInitInv, StaffNextInv, PTL DEF Spec

(* However the edits of concurrent requests interleave, the first cook's   *)
(* card has the button the ticket waits for, or a request is about to put  *)
(* it there and none can overwrite it with an older one.                   *)
THEOREM FirstCookStaysCurrent == Spec => []FirstCookCurrent
<1>1. StaffInv => FirstCookCurrent
  <2> SUFFICES ASSUME StaffInv, ~disturbed, ticket # "ABSENT"
               PROVE  \/ Buttons(ticket) \subseteq card[FirstCook]
                      \/ \E w \in Workers : Telling(w)
    BY DEF FirstCookCurrent, Buttons
  <2>1. CASE ticket = "HANDED_OFF"
    BY <2>1, ButtonFacts
  <2>2. CASE ticket # "HANDED_OFF"
    <3>1. KitchenInv
      BY <2>2 DEF StaffInv
    <3>2. ASSUME NEW w \in Workers, Owes(req[w]) PROVE Telling(w)
      <4>1. req[w] \in Request /\ req[w].calls[1].k = ticket
        BY <3>1, <3>2 DEF StaffInv, StaffTypes, KitchenInv, Pending
      <4>2. 1 \in DOMAIN req[w].calls
        BY <3>2, <4>1 DEF Request, Owes
      <4> QED BY <3>2, <4>1, <4>2 DEF Telling, Owes
    <3> QED BY <3>1, <3>2 DEF KitchenInv, CardsInStep
  <2> QED BY <2>1, <2>2
<1> QED BY <1>1, StaffInitInv, StaffNextInv, PTL DEF Spec

=============================================================================
