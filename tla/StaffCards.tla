---------------------------- MODULE StaffCards ----------------------------
(***************************************************************************)
(* The cards staff work from: for one order, what each staff member is     *)
(* shown in MAX, the buttons on it, and the webhook that turns a press     *)
(* into a transition and then edits everybody's card.  A request edits     *)
(* cards one after the other while other requests run, so edits interleave *)
(* and a card can be overwritten with something older.                     *)
(*                                                                         *)
(* A transition itself is one step (OrderTx shows that it behaves so); a   *)
(* press of a button the tables no longer allow is answered with a reason  *)
(* and is not a step.                                                      *)
(***************************************************************************)
EXTENDS Lifecycles, Sequences

CONSTANTS
    Members,      \* active staff with a MAX account
    Recipients,   \* Recipients[role]: list_active_by_role(role), in row order
    Workers       \* concurrent requests (bound)

Role == {"kitchen", "courier", "admin", "staff"}

RoleOf(m) == CHOOSE r \in Role : \E i \in DOMAIN Recipients[r] : Recipients[r][i] = m

(* A member is one row of staff, with one role and a max_user_id of its    *)
(* own.                                                                    *)
ASSUME StaffCardsAssumption ==
    /\ Recipients \in [Role -> Seq(Members)]
    /\ \A m \in Members : \E r \in Role : \E i \in DOMAIN Recipients[r] : Recipients[r][i] = m
    /\ \A r, s \in Role : \A i \in DOMAIN Recipients[r], j \in DOMAIN Recipients[s] :
          Recipients[r][i] = Recipients[s][j] => r = s /\ i = j
    /\ Recipients["kitchen"] # <<>>

VARIABLES
    order,      \* orders.state, committed
    mode,       \* orders.delivery_mode
    ticket,     \* state of the order's kitchen ticket, committed
    card,       \* the buttons on each member's card
    req,        \* the requests in flight
    placed,     \* whether the checkout or payment request was made
    disturbed   \* a message was lost, a restart or another channel was used

vars == <<order, mode, ticket, card, req, placed, disturbed>>

(* A notify_* call: whom to tell, and the states the caller knows ("?" are *)
(* looked up when the call is made, "none" is not part of the card).       *)
Call == [role : Role, o : OrderState \cup {"none", "?"}, k : KitchenState \cup {"none", "?"}]

(* left: who is still to be told of the call that is being made.           *)
NoReq == [pc |-> "idle", calls |-> <<>>, left |-> <<>>]

CardTypeOK ==
    /\ order \in OrderState
    /\ mode \in {"pickup", "delivery"}
    /\ ticket \in KitchenState \cup {"ABSENT"}
    /\ card \in [Members -> SUBSET (OrderEvent \cup KitchenEvent)]
    /\ \A w \in Workers :
          /\ req[w].pc \in {"idle", "announce", "cook", "pack", "close", "notify"}
          /\ \A i \in DOMAIN req[w].calls : req[w].calls[i] \in Call
          /\ \A i \in DOMAIN req[w].left : req[w].left[i] \in Members
    /\ placed \in BOOLEAN
    /\ disturbed \in BOOLEAN

(* Paid, or confirmed to be paid on delivery; nobody was told yet.         *)
Init ==
    /\ order \in {"CONFIRMED", "PAID"}
    /\ mode \in {"pickup", "delivery"}
    /\ ticket = "ABSENT"
    /\ card = [m \in Members |-> {}]
    /\ req = [w \in Workers |-> NoReq]
    /\ placed = FALSE
    /\ disturbed = FALSE

---------------------------------------------------------------------------
(* _ORDER_ROLE_EVENTS and _KITCHEN_ROLE_EVENTS: what a role may send, the  *)
(* same for the buttons offered and for the presses accepted.              *)
ORDER_ROLE_EVENTS ==
    [r \in Role |->
        CASE r = "courier" -> {"ASSIGN_COURIER", "PICKUP", "DELIVER"}
          [] r = "admin"   -> {"CANCEL"}
          [] r = "staff"   -> {"ASSIGN_COURIER", "PICKUP", "DELIVER", "CANCEL"}
          [] r = "kitchen" -> {}]

KITCHEN_ROLE_EVENTS == [r \in Role |-> IF r \in {"kitchen", "staff"} THEN KitchenEvent ELSE {}]

(* A slip: the states the events lead to instead of the events.            *)
TargetKeyboard(role, o, k) ==
    {edge[3] : edge \in {e \in ORDER_TRANSITIONS : e[1] = o /\ e[2] \in ORDER_ROLE_EVENTS[role]}}

(* _order_keyboard and _kitchen_keyboard, combined on a staff card.        *)
Keyboard(role, o, k) ==
    (Allowed(ORDER_TRANSITIONS, o) \cap ORDER_ROLE_EVENTS[role]) \cup
    (Allowed(KITCHEN_TRANSITIONS, k) \cap KITCHEN_ROLE_EVENTS[role])

(* Slips of max_webhook: the cooks are told last, or not at all.           *)
SlowKitchenCalls(k) ==
    << [role |-> "admin", o |-> "?", k |-> k],
       [role |-> "staff", o |-> "?", k |-> k],
       [role |-> "kitchen", o |-> "none", k |-> k] >>

NoKitchenCalls(k) ==
    << [role |-> "admin", o |-> "?", k |-> k] >>

(* The calls made after a ticket's transition.                             *)
KitchenCalls(k) ==
    << [role |-> "kitchen", o |-> "none", k |-> k],
       [role |-> "admin", o |-> "?", k |-> k],
       [role |-> "staff", o |-> "?", k |-> k] >>

AnnounceCalls(o) ==
    << [role |-> "admin", o |-> o, k |-> "?"],
       [role |-> "staff", o |-> o, k |-> "?"] >>

CourierCall(o) == << [role |-> "courier", o |-> o, k |-> "none"] >>

(* The calls made after an order's transition: the couriers hear of it     *)
(* only from a courier's press.                                            *)
OrderCalls(role, o) ==
    (IF role = "courier" THEN CourierCall(o) ELSE <<>>) \o AnnounceCalls(o)

(* START_COOKING has the order's row until it commits.                     *)
RowLocked == \E w \in Workers : req[w].pc = "cook"

Goto(w, pc, calls) == req' = [req EXCEPT ![w] = [pc |-> pc, calls |-> calls, left |-> <<>>]]

---------------------------------------------------------------------------
(* checkout (cash) or confirm_payment: tell admin and staff, then cook.    *)
Place(w) ==
    /\ ~placed /\ req[w].pc = "idle"
    /\ placed' = TRUE
    /\ Goto(w, "announce", AnnounceCalls(order))
    /\ UNCHANGED <<mode, order, ticket, card, disturbed>>

(* START_COOKING: the program's last step tells staff of the new ticket,   *)
(* before the commit.  A cancelled order is left alone.                    *)
StartCooking(w) ==
    /\ req[w].pc = "announce" /\ req[w].calls = <<>> /\ ~RowLocked
    /\ IF order \in {"CONFIRMED", "PAID"}
       THEN Goto(w, "cook", KitchenCalls("NEW"))
       ELSE Goto(w, "idle", <<>>)
    /\ UNCHANGED <<mode, order, ticket, card, placed, disturbed>>

CommitCooking(w) ==
    /\ req[w].pc = "cook" /\ req[w].calls = <<>>
    /\ order' = "COOKING" /\ ticket' = "NEW"
    /\ Goto(w, "idle", <<>>)
    /\ UNCHANGED <<mode, card, placed, disturbed>>

(* A ticket's transition, and what its request does next: a HAND_OFF first *)
(* moves the order, then the calls are made.                               *)
TicketTo(w, edge, calls) ==
    /\ req[w].pc = "idle" /\ ticket = edge[1]
    /\ ticket' = edge[3]
    /\ Goto(w, IF edge[2] = "HAND_OFF" THEN "pack" ELSE "notify", calls)
    /\ UNCHANGED <<mode, order, card, placed>>

(* An order's transition.                                                  *)
OrderTo(w, edge, calls) ==
    /\ req[w].pc = "idle" /\ order = edge[1] /\ ~RowLocked
    /\ order' = edge[3]
    /\ Goto(w, "notify", calls)
    /\ UNCHANGED <<mode, ticket, card, placed>>

(* max_webhook: a member presses a button of their card.                   *)
PressKitchen(w, m, edge) ==
    /\ edge[2] \in card[m] \cap KITCHEN_ROLE_EVENTS[RoleOf(m)]
    /\ TicketTo(w, edge, KitchenCalls(edge[3]))
    /\ UNCHANGED disturbed

PressOrder(w, m, edge) ==
    /\ edge[2] \in card[m] \cap ORDER_ROLE_EVENTS[RoleOf(m)]
    /\ OrderTo(w, edge, OrderCalls(RoleOf(m), edge[3]))
    /\ UNCHANGED disturbed

(* The Mini Apps and the HTTP routes: the same transitions, no calls.      *)
Elsewhere(w) ==
    /\ \/ \E edge \in KITCHEN_TRANSITIONS : TicketTo(w, edge, <<>>)
       \/ \E edge \in ORDER_TRANSITIONS :
             edge[2] # "START_COOKING" /\ OrderTo(w, edge, <<>>)
    /\ disturbed' = TRUE

(* After HAND_OFF: START_PACKING, then CLOSE for a pickup order; else the  *)
(* couriers are told.  A rejected START_PACKING is only logged.            *)
Pack(w) ==
    /\ req[w].pc = "pack" /\ ~RowLocked
    /\ IF order = "COOKING"
       THEN /\ order' = "PACKING"
            /\ IF mode = "pickup"
               THEN Goto(w, "close", req[w].calls)
               ELSE Goto(w, "notify", CourierCall("PACKING") \o req[w].calls)
       ELSE Goto(w, "notify", req[w].calls) /\ UNCHANGED order
    /\ UNCHANGED <<mode, ticket, card, placed, disturbed>>

Close(w) ==
    /\ req[w].pc = "close"
    /\ order' = IF order = "PACKING" THEN "CLOSED" ELSE order
    /\ Goto(w, "notify", req[w].calls)
    /\ UNCHANGED <<mode, ticket, card, placed, disturbed>>

---------------------------------------------------------------------------
(* The call with the states it was not given, read in their own sessions.  *)
Known(call) ==
    [call EXCEPT
        !.o = IF @ = "?" THEN order ELSE @,
        !.k = IF @ # "?" THEN @ ELSE IF ticket = "ABSENT" THEN "none" ELSE ticket]

(* A notify_* call starts: the card is built and the recipients listed.    *)
Build(w) ==
    /\ req[w].pc \in {"announce", "cook", "notify"}
    /\ req[w].calls # <<>> /\ req[w].left = <<>>
    /\ LET call == Head(req[w].calls)
       IN req' = [req EXCEPT
                    ![w].calls = IF Recipients[call.role] = <<>> THEN Tail(@)
                                 ELSE <<Known(call)>> \o Tail(@),
                    ![w].left = Recipients[call.role]]
    /\ UNCHANGED <<mode, order, ticket, card, placed, disturbed>>

(* The recipient is done with; after the last one so is the call.          *)
Told(w) ==
    req' = [req EXCEPT ![w].left = Tail(@),
                       ![w].calls = IF Len(req[w].left) = 1 THEN Tail(@) ELSE @]

(* _send_or_edit.  An edit without buttons sends no attachments at all,    *)
(* which may leave the old buttons on the message.                         *)
SendOrEdit(w) ==
    /\ req[w].left # <<>>
    /\ LET m == Head(req[w].left)
           call == Head(req[w].calls)
           buttons == Keyboard(call.role, call.o, call.k)
       IN \E shown \in IF buttons = {} THEN {{}, card[m]} ELSE {buttons} :
             card' = [card EXCEPT ![m] = shown]
    /\ Told(w)
    /\ UNCHANGED <<mode, order, ticket, placed, disturbed>>

(* Neither the edit nor a new message got through.                         *)
Lose(w) ==
    /\ req[w].left # <<>>
    /\ Told(w)
    /\ disturbed' = TRUE
    /\ UNCHANGED <<mode, order, ticket, card, placed>>

(* Every call was made.                                                    *)
Done(w) ==
    /\ req[w].pc = "notify" /\ req[w].calls = <<>>
    /\ Goto(w, "idle", <<>>)
    /\ UNCHANGED <<mode, order, ticket, card, placed, disturbed>>

(* The server process restarts.                                            *)
Crash ==
    /\ req' = [w \in Workers |-> NoReq]
    /\ disturbed' = TRUE
    /\ UNCHANGED <<mode, order, ticket, card, placed>>

Step(w) ==
    \/ StartCooking(w) \/ CommitCooking(w) \/ Pack(w) \/ Close(w)
    \/ Build(w) \/ SendOrEdit(w) \/ Done(w)

Press(w, m) ==
    \/ \E edge \in KITCHEN_TRANSITIONS : PressKitchen(w, m, edge)
    \/ \E edge \in ORDER_TRANSITIONS : PressOrder(w, m, edge)

(* Nothing is claimed once a request was disturbed, and nothing explored.  *)
Next ==
    /\ ~disturbed
    /\ \/ \E w \in Workers :
             Place(w) \/ Step(w) \/ Elsewhere(w) \/ Lose(w) \/ \E m \in Members : Press(w, m)
       \/ Crash

Spec == Init /\ [][Next]_vars

FirstCook == Head(Recipients["kitchen"])

(* Requests go on, and the first cook presses, sooner or later, a button   *)
(* of use; nothing is assumed of the others.                               *)
FairSpec ==
    /\ Spec
    /\ \A w \in Workers : SF_vars(Step(w))
    /\ SF_vars(\E w \in Workers : Press(w, FirstCook))

---------------------------------------------------------------------------
(* A request still has to show the first cook the ticket's state.          *)
Telling(w) ==
    \E i \in DOMAIN req[w].calls :
        /\ req[w].calls[i].role = "kitchen" /\ req[w].calls[i].k = ticket
        /\ i = 1 => (req[w].left = <<>> \/ req[w].left = Recipients["kitchen"])

(* Although every other card can be overwritten with an older state by a   *)
(* slower request, the card of the first cook in the list has the button   *)
(* the ticket waits for, or a request is about to put it there: the next   *)
(* transition can only be pressed from a card that was edited after it.    *)
FirstCookCurrent ==
    (~disturbed /\ ticket # "ABSENT") =>
        \/ Allowed(KITCHEN_TRANSITIONS, ticket) \subseteq card[FirstCook]
        \/ \E w \in Workers : Telling(w)

(* A cook who presses the buttons shown eventually hands every ticket off, *)
(* whatever the others do: the cards never leave the kitchen without the   *)
(* button it needs.                                                        *)
KitchenIsServed == (ticket = "NEW") ~> (ticket = "HANDED_OFF" \/ disturbed)

===========================================================================
