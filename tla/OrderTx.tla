------------------------------ MODULE OrderTx ------------------------------
(***************************************************************************)
(* OrderService.transition_order and KitchenService.transition_ticket as   *)
(* concurrent requests of one server process over PostgreSQL (READ         *)
(* COMMITTED).  A request reads the row without a lock, picks a program,   *)
(* runs its tools in one transaction, and commits; the tools take row      *)
(* locks and re-check what was read.  A worker is a request slot; tx[w] is *)
(* its request, with the writes it has not committed yet.                  *)
(*                                                                         *)
(* Rejected requests (the event is not allowed in the state read) change   *)
(* nothing and are not steps.                                              *)
(***************************************************************************)
EXTENDS Lifecycles, Integers, Sequences, FiniteSets, Functions

CONSTANTS
    Orders,          \* order ids (bound)
    NoOrder,
    Items,           \* Items[o]: the order's item list, in order
    MaxItems,        \* bound: items of an order
    Mode,            \* Mode[o]: delivery_mode
    Skus,            \* sku values an item can resolve to
    Tracked,         \* the skus with a row in inventory
    ProgramTickets,  \* ids create_kitchen_ticket can draw (bound)
    ManualTickets,   \* ids POST /kitchen/tickets can draw (bound)
    NoTicket,
    Workers,         \* concurrent requests (bound)
    InitStock,       \* inventory.quantity at the start
    MayCrash         \* whether the server process may restart

Tickets == ProgramTickets \cup ManualTickets

ItemNo == 1 .. MaxItems

Item == [sku : Skus, qty : Nat]

ASSUME OrderTxAssumption ==
    /\ IsFiniteSet(Orders) /\ NoOrder \notin Orders
    /\ IsFiniteSet(Workers)
    /\ NoTicket \notin Tickets
    /\ ProgramTickets \cap ManualTickets = {}
    /\ MaxItems \in Nat
    /\ Tracked \subseteq Skus
    /\ Items \in [Orders -> Seq(Item)]
    /\ \A o \in Orders : Len(Items[o]) <= MaxItems
    /\ Mode \in [Orders -> {"pickup", "delivery"}]
    /\ InitStock \in [Tracked -> Int]
    /\ MayCrash \in BOOLEAN

VARIABLES
    order,      \* orders.state, committed
    ticket,     \* kitchen_tickets.state, committed
    ticketOf,   \* kitchen_tickets.order_id, committed
    stock,      \* inventory.quantity, committed
    sales,      \* sales[o][i]: SALE rows in inventory_movements for item i of o
    announced,  \* tickets some staff member was sent a card for
    tx          \* the requests in flight

vars == <<order, ticket, ticketOf, stock, sales, announced, tx>>

PC == {"idle", "write", "commit", "reserve", "ticketed", "notify", "cooked",
       "kwrite", "kcommit", "packing", "closing"}

NoDelta == [s \in Tracked |-> 0]

Idle == [pc |-> "idle", o |-> NoOrder, t |-> NoTicket, from |-> "none",
         ev |-> "none", to |-> "none", i |-> 1, taken |-> {},
         delta |-> NoDelta, cascade |-> FALSE]

Request ==
    [pc : PC, o : Orders \cup {NoOrder}, t : Tickets \cup {NoTicket},
     from : OrderState \cup KitchenState \cup {"none"},
     ev : OrderEvent \cup KitchenEvent \cup {"none"},
     to : OrderState \cup KitchenState \cup {"none"},
     i : 1 .. (MaxItems + 1), taken : SUBSET ItemNo, delta : [Tracked -> Int],
     cascade : BOOLEAN]

TypeOK ==
    /\ order \in [Orders -> OrderState \cup {"ABSENT"}]
    /\ ticket \in [Tickets -> KitchenState \cup {"ABSENT"}]
    /\ ticketOf \in [Tickets -> Orders \cup {NoOrder}]
    /\ stock \in [Tracked -> Int]
    /\ sales \in [Orders -> [ItemNo -> Nat]]
    /\ announced \subseteq ProgramTickets
    /\ tx \in [Workers -> Request]

Init ==
    /\ order = [o \in Orders |-> "ABSENT"]
    /\ ticket = [t \in Tickets |-> "ABSENT"]
    /\ ticketOf = [t \in Tickets |-> NoOrder]
    /\ stock = InitStock
    /\ sales = [o \in Orders |-> [i \in ItemNo |-> 0]]
    /\ announced = {}
    /\ tx = [w \in Workers |-> Idle]

---------------------------------------------------------------------------
(* Row locks.  They are held from the statement that takes them to the end *)
(* of the transaction, so the step a request has reached tells them.       *)

(* FOR UPDATE on the order's row.                                          *)
HoldsRow(w, o) == tx[w].o = o /\ tx[w].pc \in {"commit", "notify", "cooked"}

(* KEY SHARE on the order's row: kitchen_tickets.order_id references       *)
(* orders, so inserting a ticket locks the order it belongs to.            *)
HoldsKey(w, o) == tx[w].o = o /\ tx[w].pc \in {"ticketed", "notify", "cooked"}

(* FOR UPDATE on the inventory row of a sku.                               *)
HoldsSku(w, s) == \E i \in tx[w].taken : Items[tx[w].o][i].sku = s

(* FOR UPDATE on the ticket's row.                                         *)
HoldsTicket(w, t) == tx[w].t = t /\ tx[w].pc = "kcommit"

NextItem(w) == Items[tx[w].o][tx[w].i]

ItemsDone(w) == tx[w].i > Len(Items[tx[w].o])

(* The other requests the next statement of w has to wait for.             *)
Blockers(w) ==
    {v \in Workers \ {w} :
        \/ /\ tx[w].pc \in {"write", "ticketed"}
           /\ HoldsRow(v, tx[w].o) \/ HoldsKey(v, tx[w].o)
        \/ /\ tx[w].pc = "reserve" /\ ItemsDone(w)
           /\ HoldsRow(v, tx[w].o)
        \/ /\ tx[w].pc = "reserve" /\ ~ItemsDone(w)
           /\ NextItem(w).sku \in Tracked
           /\ HoldsSku(v, NextItem(w).sku)
        \/ /\ tx[w].pc = "kwrite"
           /\ HoldsTicket(v, tx[w].t)}

(* w is on a cycle of requests that wait for each other.                   *)
Deadlocked(w) ==
    \E n \in 1 .. Cardinality(Workers) : \E p \in [0 .. n -> Workers] :
        /\ p[0] = w /\ p[n] = w
        /\ \A k \in 0 .. (n - 1) : p[k + 1] \in Blockers(p[k])

---------------------------------------------------------------------------
(* create_order and create_order_from_checkout insert the row in DRAFT.    *)
CreateOrder(o) ==
    /\ order[o] = "ABSENT"
    /\ order' = [order EXCEPT ![o] = "DRAFT"]
    /\ UNCHANGED <<ticket, ticketOf, stock, sales, announced, tx>>

(* The request for an edge the table allows in the state that was read     *)
(* without a lock, and the program selected for its event.                 *)
Selected(o, edge, cascade) ==
    [Idle EXCEPT !.pc = IF edge[2] = "START_COOKING" THEN "reserve" ELSE "write",
                 !.o = o, !.from = edge[1], !.ev = edge[2], !.to = edge[3],
                 !.cascade = cascade]

(* transition_order up to the point where its program starts.              *)
TransitionOrder(w, o, edge) ==
    /\ tx[w].pc = "idle"
    /\ order[o] = edge[1]
    /\ tx' = [tx EXCEPT ![w] = Selected(o, edge, FALSE)]
    /\ UNCHANGED <<order, ticket, ticketOf, stock, sales, announced>>

(* Slips of transition_order_state: no re-check under the lock, no lock,   *)
(* retrying with the stale state.                                          *)
StaleTransitionOrderState(w) ==
    /\ tx[w].pc = "write" /\ Blockers(w) = {}
    /\ tx' = [tx EXCEPT ![w].pc = "commit"]
    /\ UNCHANGED <<order, ticket, ticketOf, stock, sales, announced>>

UnlockedTransitionOrderState(w) ==
    /\ tx[w].pc = "write" /\ order[tx[w].o] = tx[w].from
    /\ tx' = [tx EXCEPT ![w].pc = "commit"]
    /\ UNCHANGED <<order, ticket, ticketOf, stock, sales, announced>>

RetryingTransitionOrderState(w) ==
    /\ tx[w].pc = "write" /\ Blockers(w) = {} /\ order[tx[w].o] = tx[w].from
    /\ tx' = [tx EXCEPT ![w].pc = "commit"]
    /\ UNCHANGED <<order, ticket, ticketOf, stock, sales, announced>>

(* transition_order_state: lock the row, fail unless the state is still    *)
(* the one that was read (the transaction is rolled back), write.          *)
TransitionOrderState(w) ==
    /\ tx[w].pc = "write" /\ Blockers(w) = {}
    /\ tx' = [tx EXCEPT ![w] = IF order[tx[w].o] = tx[w].from
                               THEN [tx[w] EXCEPT !.pc = "commit"]
                               ELSE Idle]
    /\ UNCHANGED <<order, ticket, ticketOf, stock, sales, announced>>

(* The commit of a simple program.  After a START_PACKING that came from a *)
(* HAND_OFF, a pickup order is closed by a further request.                *)
Commit(w) ==
    /\ tx[w].pc = "commit"
    /\ order' = [order EXCEPT ![tx[w].o] = tx[w].to]
    /\ tx' = [tx EXCEPT ![w] =
                IF tx[w].cascade /\ tx[w].ev = "START_PACKING" /\ Mode[tx[w].o] = "pickup"
                THEN [Idle EXCEPT !.pc = "closing", !.o = tx[w].o]
                ELSE Idle]
    /\ UNCHANGED <<ticket, ticketOf, stock, sales, announced>>

(* A slip of reserve_inventory_items: no movement when the stock is short. *)
UnrecordedReserveItem(w) ==
    /\ tx[w].pc = "reserve" /\ ~ItemsDone(w) /\ Blockers(w) = {}
    /\ tx' = [tx EXCEPT ![w] =
                IF NextItem(w).sku \in Tracked
                THEN [tx[w] EXCEPT !.i = @ + 1,
                                   !.taken = IF stock[NextItem(w).sku] < NextItem(w).qty
                                             THEN @ ELSE @ \cup {tx[w].i},
                                   !.delta[NextItem(w).sku] = @ + NextItem(w).qty]
                ELSE [tx[w] EXCEPT !.i = @ + 1]]
    /\ UNCHANGED <<order, ticket, ticketOf, stock, sales, announced>>

(* reserve_inventory_items, one item: an item whose sku has no inventory   *)
(* row is skipped; otherwise its row is locked, decremented (below zero is *)
(* allowed) and a SALE movement recorded.                                  *)
ReserveItem(w) ==
    /\ tx[w].pc = "reserve" /\ ~ItemsDone(w) /\ Blockers(w) = {}
    /\ tx' = [tx EXCEPT ![w] =
                IF NextItem(w).sku \in Tracked
                THEN [tx[w] EXCEPT !.i = @ + 1,
                                   !.taken = @ \cup {tx[w].i},
                                   !.delta[NextItem(w).sku] = @ + NextItem(w).qty]
                ELSE [tx[w] EXCEPT !.i = @ + 1]]
    /\ UNCHANGED <<order, ticket, ticketOf, stock, sales, announced>>

(* Ids no committed, announced or uncommitted ticket has.                  *)
FreshTickets ==
    {t \in ProgramTickets :
        ticket[t] = "ABSENT" /\ t \notin announced /\ \A v \in Workers : tx[v].t # t}

(* create_kitchen_ticket, after every item.                                *)
InsertTicket(w, t) ==
    /\ tx[w].pc = "reserve" /\ ItemsDone(w) /\ Blockers(w) = {}
    /\ t \in FreshTickets
    /\ tx' = [tx EXCEPT ![w].pc = "ticketed", ![w].t = t]
    /\ UNCHANGED <<order, ticket, ticketOf, stock, sales, announced>>

(* A slip of write_order_state_cooking: the state is not checked.          *)
StaleWriteOrderStateCooking(w) ==
    /\ tx[w].pc = "ticketed" /\ Blockers(w) = {}
    /\ tx' = [tx EXCEPT ![w].pc = "notify"]
    /\ UNCHANGED <<order, ticket, ticketOf, stock, sales, announced>>

(* write_order_state_cooking: lock the row; any state but PAID and         *)
(* CONFIRMED fails the program and rolls everything back.                  *)
WriteOrderStateCooking(w) ==
    /\ tx[w].pc = "ticketed" /\ Blockers(w) = {}
    /\ tx' = [tx EXCEPT ![w] = IF order[tx[w].o] \in {"PAID", "CONFIRMED"}
                               THEN [tx[w] EXCEPT !.pc = "notify", !.from = order[tx[w].o]]
                               ELSE Idle]
    /\ UNCHANGED <<order, ticket, ticketOf, stock, sales, announced>>

(* notify_staff_new_kitchen_ticket, the last step of the program: it runs  *)
(* before the commit, and never raises.                                    *)
NotifyStaff(w) ==
    /\ tx[w].pc = "notify"
    /\ announced' = announced \cup {tx[w].t}
    /\ tx' = [tx EXCEPT ![w].pc = "cooked"]
    /\ UNCHANGED <<order, ticket, ticketOf, stock, sales>>

(* The commit of PROGRAM_START_COOKING: order, ticket, stock and ledger.   *)
CommitCooking(w) ==
    /\ tx[w].pc = "cooked"
    /\ order' = [order EXCEPT ![tx[w].o] = "COOKING"]
    /\ ticket' = [ticket EXCEPT ![tx[w].t] = "NEW"]
    /\ ticketOf' = [ticketOf EXCEPT ![tx[w].t] = tx[w].o]
    /\ stock' = [s \in Tracked |-> stock[s] - tx[w].delta[s]]
    /\ sales' = [sales EXCEPT ![tx[w].o] =
                   [i \in ItemNo |-> IF i \in tx[w].taken THEN @[i] + 1 ELSE @[i]]]
    /\ tx' = [tx EXCEPT ![w] = Idle]
    /\ UNCHANGED announced

---------------------------------------------------------------------------
(* create_ticket (POST /kitchen/tickets): a ticket for any existing order. *)
(* The insert waits while some request has the order's row FOR UPDATE.     *)
CreateTicket(t, o) ==
    /\ t \in ManualTickets /\ ticket[t] = "ABSENT"
    /\ order[o] # "ABSENT"
    /\ \A v \in Workers : ~HoldsRow(v, o)
    /\ ticket' = [ticket EXCEPT ![t] = "NEW"]
    /\ ticketOf' = [ticketOf EXCEPT ![t] = o]
    /\ UNCHANGED <<order, stock, sales, announced, tx>>

(* transition_ticket up to the point where its program starts.             *)
TransitionTicket(w, t, edge) ==
    /\ tx[w].pc = "idle"
    /\ ticket[t] = edge[1]
    /\ tx' = [tx EXCEPT ![w] = [Idle EXCEPT !.pc = "kwrite", !.t = t, !.from = edge[1],
                                            !.ev = edge[2], !.to = edge[3]]]
    /\ UNCHANGED <<order, ticket, ticketOf, stock, sales, announced>>

(* A slip of write_kitchen_state_*: the ticket's state is not checked.     *)
StaleWriteKitchenState(w) ==
    /\ tx[w].pc = "kwrite" /\ Blockers(w) = {}
    /\ tx' = [tx EXCEPT ![w].pc = "kcommit"]
    /\ UNCHANGED <<order, ticket, ticketOf, stock, sales, announced>>

(* write_kitchen_state_*: lock the ticket, fail unless it is in the state  *)
(* the event starts from, write.                                           *)
WriteKitchenState(w) ==
    /\ tx[w].pc = "kwrite" /\ Blockers(w) = {}
    /\ tx' = [tx EXCEPT ![w] = IF ticket[tx[w].t] = tx[w].from
                               THEN [tx[w] EXCEPT !.pc = "kcommit"]
                               ELSE Idle]
    /\ UNCHANGED <<order, ticket, ticketOf, stock, sales, announced>>

(* Slips of transition_ticket: the event's name is written as the state,   *)
(* and no cascade after HAND_OFF.                                          *)
EventAsStateCommitTicket(w) ==
    /\ tx[w].pc = "kcommit"
    /\ ticket' = [ticket EXCEPT ![tx[w].t] = tx[w].ev]
    /\ tx' = [tx EXCEPT ![w] = Idle]
    /\ UNCHANGED <<order, ticketOf, stock, sales, announced>>

LonelyCommitTicket(w) ==
    /\ tx[w].pc = "kcommit"
    /\ ticket' = [ticket EXCEPT ![tx[w].t] = tx[w].to]
    /\ tx' = [tx EXCEPT ![w] = Idle]
    /\ UNCHANGED <<order, ticketOf, stock, sales, announced>>

(* The commit of a ticket's transition.  After HAND_OFF the same request   *)
(* goes on to the ticket's order.                                          *)
CommitTicket(w) ==
    /\ tx[w].pc = "kcommit"
    /\ ticket' = [ticket EXCEPT ![tx[w].t] = tx[w].to]
    /\ tx' = [tx EXCEPT ![w] = IF tx[w].ev = "HAND_OFF"
                               THEN [Idle EXCEPT !.pc = "packing", !.o = ticketOf[tx[w].t]]
                               ELSE Idle]
    /\ UNCHANGED <<order, ticketOf, stock, sales, announced>>

(* A transition_order call made by the HAND_OFF request: rejected (logged, *)
(* nothing more happens) or started.                                       *)
CascadeTo(w, ev) ==
    /\ tx' = [tx EXCEPT ![w] =
                IF ev \in Allowed(ORDER_TRANSITIONS, order[tx[w].o])
                THEN Selected(tx[w].o,
                              CHOOSE edge \in ORDER_TRANSITIONS :
                                 edge[1] = order[tx[w].o] /\ edge[2] = ev,
                              TRUE)
                ELSE Idle]
    /\ UNCHANGED <<order, ticket, ticketOf, stock, sales, announced>>

(* START_PACKING on the order of the ticket that was handed off.           *)
CascadePacking(w) == tx[w].pc = "packing" /\ CascadeTo(w, "START_PACKING")

(* CLOSE on a pickup order whose START_PACKING succeeded.                  *)
CascadeClose(w) == tx[w].pc = "closing" /\ CascadeTo(w, "CLOSE")

---------------------------------------------------------------------------
(* PostgreSQL's deadlock detector aborts a request of the cycle; the tool  *)
(* raises, the program fails, and the transaction is rolled back.          *)
AbortDeadlock(w) ==
    /\ Deadlocked(w)
    /\ tx' = [tx EXCEPT ![w] = Idle]
    /\ UNCHANGED <<order, ticket, ticketOf, stock, sales, announced>>

(* The server process restarts: every open transaction is rolled back and  *)
(* what a request still had to do after a commit is lost.                  *)
Crash ==
    /\ MayCrash
    /\ tx' = [w \in Workers |-> Idle]
    /\ UNCHANGED <<order, ticket, ticketOf, stock, sales, announced>>

(* The steps a request takes by itself once it was made.                   *)
Step(w) ==
    \/ TransitionOrderState(w)
    \/ Commit(w)
    \/ ReserveItem(w)
    \/ \E t \in ProgramTickets : InsertTicket(w, t)
    \/ WriteOrderStateCooking(w)
    \/ NotifyStaff(w)
    \/ CommitCooking(w)
    \/ WriteKitchenState(w)
    \/ CommitTicket(w)
    \/ CascadePacking(w)
    \/ CascadeClose(w)
    \/ AbortDeadlock(w)

Next ==
    \/ \E o \in Orders : CreateOrder(o)
    \/ \E w \in Workers, o \in Orders, edge \in ORDER_TRANSITIONS : TransitionOrder(w, o, edge)
    \/ \E t \in Tickets, o \in Orders : CreateTicket(t, o)
    \/ \E w \in Workers, t \in Tickets, edge \in KITCHEN_TRANSITIONS : TransitionTicket(w, t, edge)
    \/ \E w \in Workers : Step(w)
    \/ Crash

Spec == Init /\ [][Next]_vars

(* A request that was made goes on: the event loop resumes its coroutine,  *)
(* and PostgreSQL grants row locks in the order they were asked for, so a  *)
(* request whose turn keeps coming gets it.                                *)
FairSpec == Spec /\ \A w \in Workers : SF_vars(Step(w))

---------------------------------------------------------------------------
(* The item numbers of an order that are drawn from inventory.             *)
Reservable(o) == {i \in 1 .. Len(Items[o]) : Items[o][i].sku \in Tracked}

(* The tickets START_COOKING issued for an order.                          *)
Issued(o) == {t \in ProgramTickets : ticketOf[t] = o}

(* However START_COOKING, CANCEL and payment events race on an order, what *)
(* is committed is all or nothing: an order that got to COOKING has        *)
(* exactly one program-issued ticket and exactly one SALE row per          *)
(* reservable item, and any other order (CANCELLED too) has none.          *)
CookedExactlyOnce ==
    \A o \in Orders :
        IF order[o] \in CookedStates
        THEN /\ \E t \in ProgramTickets : Issued(o) = {t}
             /\ \A i \in ItemNo : sales[o][i] = IF i \in Reservable(o) THEN 1 ELSE 0
        ELSE /\ Issued(o) = {}
             /\ \A i \in ItemNo : sales[o][i] = 0

(* The items that are drawn from the inventory row of a sku.               *)
SaleItems(s) ==
    {p \in Orders \X ItemNo : p[2] \in Reservable(p[1]) /\ Items[p[1]][p[2]].sku = s}

(* What the ledger says was sold of a sku.                                 *)
Sold(s) == SumFunction([p \in SaleItems(s) |-> sales[p[1]][p[2]] * Items[p[1]][p[2]].qty])

(* The stock on hand is the initial stock less what the ledger says was    *)
(* sold: a decrement and its SALE row never come apart, whichever requests *)
(* reserve at a time, fail or are lost to a restart.                       *)
StockMatchesLedger == \A s \in Tracked : stock[s] = InitStock[s] - Sold(s)

(* While a request has an order's row FOR UPDATE no other request has a    *)
(* lock on it, and the state it verified is still the committed one.       *)
RowLockStable ==
    \A w \in Workers, o \in Orders :
        HoldsRow(w, o) =>
            /\ \A v \in Workers \ {w} : ~HoldsRow(v, o) /\ ~HoldsKey(v, o)
            /\ order[o] = tx[w].from

(* A committed change of an order's state is an edge of ORDER_TRANSITIONS, *)
(* although the table was consulted before the row was locked.             *)
OrderStepsLegal ==
    [][\A o \in Orders :
          order'[o] # order[o] =>
             \/ order[o] = "ABSENT" /\ order'[o] = "DRAFT"
             \/ IsEdge(ORDER_TRANSITIONS, order[o], order'[o])]_vars

(* A committed change of a ticket's state is an edge of                    *)
(* KITCHEN_TRANSITIONS, and a ticket never changes its order.              *)
TicketStepsLegal ==
    [][\A t \in Tickets :
          /\ ticket'[t] # ticket[t] =>
                \/ ticket[t] = "ABSENT" /\ ticket'[t] = "NEW"
                \/ IsEdge(KITCHEN_TRANSITIONS, ticket[t], ticket'[t])
          /\ ticketOf'[t] # ticketOf[t] => ticketOf[t] = NoOrder]_vars

(* A request never waits forever: every lock cycle is broken and every     *)
(* lock is eventually released, so each request ends.                      *)
EveryRequestEnds == \A w \in Workers : [](tx[w].pc # "idle" => <>(tx[w].pc = "idle"))

(* When no restart intervenes, handing off the ticket START_COOKING issued *)
(* eventually takes its order out of COOKING.                              *)
HandOffAdvancesOrder ==
    \A t \in ProgramTickets, o \in Orders :
        (ticket[t] = "HANDED_OFF" /\ ticketOf[t] = o) ~> (order[o] # "COOKING")

(* Staff are only ever shown tickets that exist or are still being         *)
(* created: no card outlives the transaction that created its ticket.      *)
NoPhantomCard ==
    \A t \in announced :
        ticket[t] # "ABSENT" \/ \E w \in Workers : tx[w].t = t /\ tx[w].pc = "cooked"

---------------------------------------------------------------------------
(* The committed tables implement the atomic contract: a request's commit  *)
(* is the contract's step, everything before it a stutter.                 *)
Abstract == INSTANCE OrderContract WITH
    TicketIds <- ProgramTickets, ItemNo <- ItemNo, Reserved <- Reservable,
    state <- order, issued <- [o \in Orders |-> Issued(o)], sold <- sales

(* The promise of the lifecycle, for any interleaving of its requests.     *)
ImplementsContract == Abstract!Contract

===========================================================================
