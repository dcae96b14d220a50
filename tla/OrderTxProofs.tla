--------------------------- MODULE OrderTxProofs ---------------------------
(***************************************************************************)
(* Proofs about OrderTx, for any number of orders, items, tickets and      *)
(* concurrent requests.                                                    *)
(*                                                                         *)
(* The lifecycle's safety rests on two things the code does: every program *)
(* takes the row FOR UPDATE before it relies on the state (RowLockStable,  *)
(* TicketLockStable), and what a program has gathered so far (RequestOK)   *)
(* is exactly what its commit publishes.                                   *)
(***************************************************************************)
EXTENDS OrderTx, FiniteSetTheorems, TLAPS

CookingPC == {"reserve", "ticketed", "notify", "cooked"}
TicketPC == {"ticketed", "notify", "cooked"}

(* What a request r carries at each step of its program.                   *)
ReqOK(r) ==
    /\ r.pc \in {"write", "commit"} =>
          /\ r.o \in Orders
          /\ <<r.from, r.ev, r.to>> \in ORDER_TRANSITIONS
          /\ r.ev # "START_COOKING"
    /\ r.pc \in CookingPC =>
          /\ r.o \in Orders
          /\ r.i <= Len(Items[r.o]) + 1
          /\ r.taken = {k \in Reservable(r.o) : k < r.i}
    /\ r.pc \in TicketPC =>
          /\ r.t \in ProgramTickets
          /\ ticket[r.t] = "ABSENT"
          /\ r.i = Len(Items[r.o]) + 1
    /\ r.pc \in {"notify", "cooked"} => r.from \in {"PAID", "CONFIRMED"}
    /\ r.pc \in {"kwrite", "kcommit"} =>
          /\ r.t \in Tickets
          /\ <<r.from, r.ev, r.to>> \in KITCHEN_TRANSITIONS
    /\ r.pc \in {"packing", "closing"} => r.o \in Orders
    /\ r.pc \notin CookingPC => r.taken = {}

RequestOK == \A w \in Workers : ReqOK(tx[w])

(* Two requests never hold the same uncommitted ticket.                    *)
TicketsDistinct ==
    \A v, w \in Workers :
        /\ v # w
        /\ tx[v].pc \in TicketPC
        /\ tx[w].pc \in TicketPC
        => tx[v].t # tx[w].t

(* A committed ticket has an order; an id without a row has none.          *)
TicketHasOrder ==
    \A t \in Tickets : ticket[t] = "ABSENT" <=> ticketOf[t] = NoOrder

(* While a request has a ticket FOR UPDATE its state is the one verified.  *)
TicketLockStable ==
    \A w \in Workers :
        tx[w].pc = "kcommit" =>
            /\ ticket[tx[w].t] = tx[w].from
            /\ \A v \in Workers \ {w} : ~HoldsTicket(v, tx[w].t)

IInv ==
    /\ TypeOK
    /\ RequestOK
    /\ TicketsDistinct
    /\ TicketHasOrder
    /\ TicketLockStable
    /\ RowLockStable
    /\ CookedExactlyOnce

---------------------------------------------------------------------------
(* An idle request is a request.                                           *)
LEMMA IdleOK ==
    /\ Idle \in Request
    /\ Idle.pc = "idle" /\ Idle.i = 1 /\ Idle.taken = {}
BY OrderTxAssumption DEF Idle, Request, PC, NoDelta

(* What request w may become without a commit: r agrees with the locks the *)
(* other requests hold.                                                    *)
LocksOK(w, r) ==
    /\ r.pc \in {"commit", "notify", "cooked"} =>
          /\ order[r.o] = r.from
          /\ \A v \in Workers \ {w} : ~HoldsRow(v, r.o) /\ ~HoldsKey(v, r.o)
    /\ r.pc \in TicketPC =>
          \A v \in Workers \ {w} :
             /\ ~HoldsRow(v, r.o)
             /\ tx[v].pc \in TicketPC => tx[v].t # r.t
    /\ r.pc = "kcommit" =>
          /\ ticket[r.t] = r.from
          /\ \A v \in Workers \ {w} : ~HoldsTicket(v, r.t)

(* A step that commits nothing keeps the invariant when the request it     *)
(* leaves behind carries what it should and respects the other locks.      *)
LEMMA LocalStep ==
    ASSUME IInv,
           NEW w \in Workers, NEW r \in Request,
           ReqOK(r), LocksOK(w, r),
           tx' = [tx EXCEPT ![w] = r],
           announced' \subseteq ProgramTickets,
           UNCHANGED <<order, ticket, ticketOf, stock, sales>>
    PROVE  IInv'
<1>1. TypeOK'
  BY DEF IInv, TypeOK
<1>2. tx'[w] = r /\ \A v \in Workers \ {w} : tx'[v] = tx[v]
  BY DEF IInv, TypeOK
<1>3. RequestOK'
  BY <1>2 DEF IInv, RequestOK, ReqOK
<1>4. TicketsDistinct'
  BY <1>2 DEF IInv, TicketsDistinct, LocksOK
<1>5. TicketHasOrder'
  BY DEF IInv, TicketHasOrder
<1>6. TicketLockStable'
  BY <1>2 DEF IInv, TicketLockStable, LocksOK, HoldsTicket
<1>7. RowLockStable'
  BY <1>2 DEF IInv, RowLockStable, LocksOK, HoldsRow, HoldsKey, TicketPC
<1>8. CookedExactlyOnce'
  BY DEF IInv, CookedExactlyOnce, Issued
<1> QED
  BY <1>1, <1>3, <1>4, <1>5, <1>6, <1>7, <1>8 DEF IInv

(* An idle request needs nothing.                                          *)
LEMMA IdleStep ==
    ASSUME IInv,
           NEW w \in Workers,
           tx' = [tx EXCEPT ![w] = Idle],
           UNCHANGED <<order, ticket, ticketOf, stock, sales, announced>>
    PROVE  IInv'
<1>1. Idle \in Request
  BY IdleOK
<1>2. ReqOK(Idle) /\ LocksOK(w, Idle)
  BY DEF Idle, ReqOK, LocksOK, CookingPC, TicketPC
<1>3. announced' \subseteq ProgramTickets
  BY DEF IInv, TypeOK
<1> QED
  BY <1>1, <1>2, <1>3, LocalStep

(* A request for an edge of the order's graph is well formed.              *)
LEMMA SelectedOK ==
    ASSUME NEW o \in Orders, NEW edge \in ORDER_TRANSITIONS, NEW c \in BOOLEAN,
           NEW w \in Workers
    PROVE  /\ Selected(o, edge, c) \in Request
           /\ ReqOK(Selected(o, edge, c))
           /\ LocksOK(w, Selected(o, edge, c))
<1> DEFINE r == Selected(o, edge, c)
<1>1. edge[1] \in OrderState /\ edge[2] \in OrderEvent /\ edge[3] \in OrderState
      /\ edge = <<edge[1], edge[2], edge[3]>>
  BY DEF ORDER_TRANSITIONS, OrderState, OrderEvent
<1>2. /\ r.pc = (IF edge[2] = "START_COOKING" THEN "reserve" ELSE "write")
      /\ r.o = o /\ r.from = edge[1] /\ r.ev = edge[2] /\ r.to = edge[3]
      /\ r.i = 1 /\ r.taken = {}
  BY DEF Selected, Idle
<1>3. r \in Request
  <2> DEFINE p == IF edge[2] = "START_COOKING" THEN "reserve" ELSE "write"
  <2>1. p \in PC
    BY DEF PC
  <2>2. r = [Idle EXCEPT !.pc = p, !.o = o, !.from = edge[1], !.ev = edge[2],
                         !.to = edge[3], !.cascade = c]
    BY DEF Selected
  <2> HIDE DEF p, r
  <2> QED
    BY <1>1, <2>1, <2>2, IdleOK DEF Request
<1>4. {k \in Reservable(o) : k < 1} = {} /\ Len(Items[o]) \in Nat
  BY OrderTxAssumption DEF Reservable
<1>5. ReqOK(r)
  BY <1>1, <1>2, <1>4 DEF ReqOK, CookingPC, TicketPC
<1>6. LocksOK(w, r)
  BY <1>2 DEF LocksOK, TicketPC
<1> QED
  BY <1>3, <1>5, <1>6

LEMMA TransitionOrderInv ==
    ASSUME IInv,
           NEW w \in Workers, NEW o \in Orders, NEW edge \in ORDER_TRANSITIONS,
           TransitionOrder(w, o, edge)
    PROVE  IInv'
BY SelectedOK, LocalStep DEF TransitionOrder, IInv, TypeOK

LEMMA TransitionOrderStateInv ==
    ASSUME IInv, NEW w \in Workers, TransitionOrderState(w)
    PROVE  IInv'
<1> DEFINE r == [tx[w] EXCEPT !.pc = "commit"]
<1>1. CASE order[tx[w].o] # tx[w].from
  BY <1>1, IdleStep DEF TransitionOrderState
<1>2. CASE order[tx[w].o] = tx[w].from
  <2>1. tx[w] \in Request /\ ReqOK(tx[w]) /\ tx[w].pc = "write"
    BY DEF TransitionOrderState, IInv, TypeOK, RequestOK
  <2>2. r \in Request /\ r.pc = "commit" /\ r.o = tx[w].o /\ r.from = tx[w].from
        /\ r.ev = tx[w].ev /\ r.to = tx[w].to
    BY <2>1 DEF Request, PC
  <2>3. ReqOK(r)
    BY <2>1, <2>2 DEF ReqOK, CookingPC, TicketPC
  <2>4. \A v \in Workers \ {w} : ~HoldsRow(v, tx[w].o) /\ ~HoldsKey(v, tx[w].o)
    BY <2>1 DEF TransitionOrderState, Blockers
  <2>5. LocksOK(w, r)
    BY <1>2, <2>2, <2>4 DEF LocksOK, TicketPC
  <2> QED
    BY <1>2, <2>2, <2>3, <2>5, LocalStep DEF TransitionOrderState, IInv, TypeOK
<1> QED
  BY <1>1, <1>2

(* The members of a set of numbers up to i.                                *)
LEMMA UpToNext ==
    ASSUME NEW S \in SUBSET Int, NEW i \in Int
    PROVE  {k \in S : k < i + 1} =
               IF i \in S THEN {k \in S : k < i} \cup {i} ELSE {k \in S : k < i}
<1>1. \A k \in S : k < i + 1 <=> (k < i \/ k = i)
  OBVIOUS
<1>2. CASE i \in S
  BY <1>1, <1>2
<1>3. CASE i \notin S
  BY <1>1, <1>3
<1> QED
  BY <1>2, <1>3

LEMMA ReserveItemInv ==
    ASSUME IInv, NEW w \in Workers, ReserveItem(w)
    PROVE  IInv'
<1> DEFINE o == tx[w].o
           it == NextItem(w)
           r == IF it.sku \in Tracked
                THEN [tx[w] EXCEPT !.i = @ + 1, !.taken = @ \cup {tx[w].i},
                                   !.delta[it.sku] = @ + it.qty]
                ELSE [tx[w] EXCEPT !.i = @ + 1]
<1>1. tx[w] \in Request /\ ReqOK(tx[w]) /\ tx[w].pc = "reserve"
  BY DEF ReserveItem, IInv, TypeOK, RequestOK
<1>2. /\ o \in Orders /\ tx[w].i \in 1 .. Len(Items[o])
      /\ tx[w].taken = {k \in Reservable(o) : k < tx[w].i}
      /\ Len(Items[o]) \in Nat /\ Len(Items[o]) <= MaxItems /\ MaxItems \in Nat
  BY <1>1, OrderTxAssumption DEF ReserveItem, ItemsDone, ReqOK, CookingPC, Request
<1>3. it = Items[o][tx[w].i] /\ it \in Item
  BY <1>2, OrderTxAssumption DEF NextItem
<1>4. /\ r.pc = "reserve" /\ r.o = o /\ r.i = tx[w].i + 1
      /\ r.taken = IF it.sku \in Tracked THEN tx[w].taken \cup {tx[w].i} ELSE tx[w].taken
  BY <1>1 DEF Request
<1>5. r \in Request
  <2>1. tx[w].i \in ItemNo /\ tx[w].i + 1 \in 1 .. (MaxItems + 1)
    BY <1>2 DEF ItemNo
  <2>2. it.qty \in Int
    BY <1>3 DEF Item
  <2>3. CASE it.sku \in Tracked
    <3> DEFINE d == [tx[w].delta EXCEPT ![it.sku] = @ + it.qty]
               u == tx[w].taken \cup {tx[w].i}
    <3>1. d \in [Tracked -> Int] /\ u \in SUBSET ItemNo
      BY <1>1, <2>1, <2>2, <2>3 DEF Request
    <3>2. r = [tx[w] EXCEPT !.i = @ + 1, !.taken = u, !.delta = d]
      BY <1>1, <2>3 DEF Request
    <3> HIDE DEF d, u, r
    <3> QED
      BY <1>1, <2>1, <3>1, <3>2 DEF Request
  <2>4. CASE it.sku \notin Tracked
    BY <1>1, <2>1, <2>4 DEF Request
  <2> QED
    BY <2>3, <2>4
<1>6. r.taken = {k \in Reservable(o) : k < r.i}
  <2>1. Reservable(o) \subseteq Int /\ tx[w].i \in Int
    BY <1>2 DEF Reservable
  <2>2. it.sku \in Tracked <=> tx[w].i \in Reservable(o)
    BY <1>2, <1>3 DEF Reservable
  <2> HIDE DEF r, it, o
  <2> QED
    BY <1>2, <1>4, <2>1, <2>2, UpToNext
<1>7. ReqOK(r)
  BY <1>2, <1>4, <1>6 DEF ReqOK, CookingPC, TicketPC
<1>8. LocksOK(w, r)
  BY <1>4 DEF LocksOK, TicketPC
<1>9. tx' = [tx EXCEPT ![w] = r]
  BY DEF ReserveItem
<1> QED
  BY <1>5, <1>7, <1>8, <1>9, LocalStep DEF ReserveItem, IInv, TypeOK

LEMMA InsertTicketInv ==
    ASSUME IInv, NEW w \in Workers, NEW t \in ProgramTickets, InsertTicket(w, t)
    PROVE  IInv'
<1> DEFINE o == tx[w].o
           r == [tx[w] EXCEPT !.pc = "ticketed", !.t = t]
<1>1. tx[w] \in Request /\ ReqOK(tx[w]) /\ tx[w].pc = "reserve"
  BY DEF InsertTicket, IInv, TypeOK, RequestOK
<1>2. /\ r \in Request /\ r.pc = "ticketed" /\ r.t = t /\ r.o = o
      /\ r.i = tx[w].i /\ r.taken = tx[w].taken
  BY <1>1, ZenonT(60) DEF Request, PC, Tickets
<1>3. o \in Orders /\ Len(Items[o]) \in Nat /\ tx[w].i = Len(Items[o]) + 1
  BY <1>1, OrderTxAssumption DEF InsertTicket, ItemsDone, ReqOK, CookingPC, Request
<1>4. ReqOK(r)
  BY <1>1, <1>2, <1>3 DEF ReqOK, CookingPC, TicketPC, InsertTicket, FreshTickets
<1>5. \A v \in Workers \ {w} : ~HoldsRow(v, o)
  BY <1>1 DEF InsertTicket, Blockers
<1>6. LocksOK(w, r)
  BY <1>2, <1>5 DEF LocksOK, InsertTicket, FreshTickets
<1>7. tx' = [tx EXCEPT ![w] = r]
  BY DEF InsertTicket
<1> QED
  BY <1>2, <1>4, <1>6, <1>7, LocalStep DEF InsertTicket, IInv, TypeOK

LEMMA WriteOrderStateCookingInv ==
    ASSUME IInv, NEW w \in Workers, WriteOrderStateCooking(w)
    PROVE  IInv'
<1> DEFINE o == tx[w].o
           r == [tx[w] EXCEPT !.pc = "notify", !.from = order[o]]
<1>1. CASE order[o] \notin {"PAID", "CONFIRMED"}
  BY <1>1, IdleStep DEF WriteOrderStateCooking
<1>2. CASE order[o] \in {"PAID", "CONFIRMED"}
  <2>1. tx[w] \in Request /\ ReqOK(tx[w]) /\ tx[w].pc = "ticketed"
    BY DEF WriteOrderStateCooking, IInv, TypeOK, RequestOK
  <2>2. /\ r.pc = "notify" /\ r.o = o /\ r.from = order[o]
        /\ r.t = tx[w].t /\ r.i = tx[w].i /\ r.taken = tx[w].taken
    BY <2>1 DEF Request
  <2>7. r \in Request
    <3>1. "notify" \in PC /\ order[o] \in OrderState
      BY <1>2 DEF PC, OrderState
    <3> QED
      BY <2>1, <3>1 DEF Request
  <2>3. ReqOK(r)
    BY <1>2, <2>1, <2>2 DEF ReqOK, CookingPC, TicketPC
  <2>4. \A v \in Workers \ {w} : ~HoldsRow(v, o) /\ ~HoldsKey(v, o)
    BY <2>1 DEF WriteOrderStateCooking, Blockers
  <2>5. \A v \in Workers \ {w} : tx[v].pc \in TicketPC => tx[v].t # r.t
    BY <2>1, <2>2 DEF IInv, TicketsDistinct, TicketPC
  <2>6. LocksOK(w, r)
    BY <2>2, <2>4, <2>5 DEF LocksOK
  <2> QED
    BY <1>2, <2>3, <2>6, <2>7, LocalStep DEF WriteOrderStateCooking, IInv, TypeOK
<1> QED
  BY <1>1, <1>2

LEMMA NotifyStaffInv ==
    ASSUME IInv, NEW w \in Workers, NotifyStaff(w)
    PROVE  IInv'
<1> DEFINE r == [tx[w] EXCEPT !.pc = "cooked"]
<1>1. tx[w] \in Request /\ ReqOK(tx[w]) /\ tx[w].pc = "notify"
  BY DEF NotifyStaff, IInv, TypeOK, RequestOK
<1>2. /\ r \in Request /\ r.pc = "cooked" /\ r.o = tx[w].o /\ r.from = tx[w].from
      /\ r.t = tx[w].t /\ r.i = tx[w].i /\ r.taken = tx[w].taken
  BY <1>1 DEF Request, PC
<1>3. ReqOK(r)
  BY <1>1, <1>2 DEF ReqOK, CookingPC, TicketPC
<1>4. /\ order[r.o] = r.from
      /\ \A v \in Workers \ {w} : ~HoldsRow(v, r.o) /\ ~HoldsKey(v, r.o)
  BY <1>1, <1>2 DEF IInv, RowLockStable, HoldsRow, ReqOK, CookingPC
<1>5. \A v \in Workers \ {w} : tx[v].pc \in TicketPC => tx[v].t # r.t
  BY <1>1, <1>2 DEF IInv, TicketsDistinct, TicketPC
<1>6. LocksOK(w, r)
  BY <1>2, <1>4, <1>5 DEF LocksOK
<1>7. tx' = [tx EXCEPT ![w] = r] /\ announced' \subseteq ProgramTickets
  BY <1>1 DEF NotifyStaff, ReqOK, TicketPC, IInv, TypeOK
<1> QED
  BY <1>2, <1>3, <1>6, <1>7, LocalStep DEF NotifyStaff

LEMMA TransitionTicketInv ==
    ASSUME IInv,
           NEW w \in Workers, NEW t \in Tickets, NEW edge \in KITCHEN_TRANSITIONS,
           TransitionTicket(w, t, edge)
    PROVE  IInv'
<1> DEFINE r == [Idle EXCEPT !.pc = "kwrite", !.t = t, !.from = edge[1],
                             !.ev = edge[2], !.to = edge[3]]
<1>1. edge[1] \in KitchenState /\ edge[2] \in KitchenEvent /\ edge[3] \in KitchenState
      /\ edge = <<edge[1], edge[2], edge[3]>>
  BY DEF KITCHEN_TRANSITIONS, KitchenState, KitchenEvent
<1>2. /\ r.pc = "kwrite" /\ r.t = t /\ r.from = edge[1] /\ r.ev = edge[2] /\ r.to = edge[3]
      /\ r.taken = {}
  BY DEF Idle
<1>3. r \in Request
  <2>1. "kwrite" \in PC
    BY DEF PC
  <2> QED
    BY <1>1, <2>1, IdleOK DEF Request
<1>4. ReqOK(r) /\ LocksOK(w, r)
  BY <1>1, <1>2 DEF ReqOK, LocksOK, CookingPC, TicketPC
<1> QED
  BY <1>3, <1>4, LocalStep DEF TransitionTicket, IInv, TypeOK

LEMMA WriteKitchenStateInv ==
    ASSUME IInv, NEW w \in Workers, WriteKitchenState(w)
    PROVE  IInv'
<1> DEFINE r == [tx[w] EXCEPT !.pc = "kcommit"]
<1>1. CASE ticket[tx[w].t] # tx[w].from
  BY <1>1, IdleStep DEF WriteKitchenState
<1>2. CASE ticket[tx[w].t] = tx[w].from
  <2>1. tx[w] \in Request /\ ReqOK(tx[w]) /\ tx[w].pc = "kwrite"
    BY DEF WriteKitchenState, IInv, TypeOK, RequestOK
  <2>2. r \in Request /\ r.pc = "kcommit" /\ r.t = tx[w].t /\ r.from = tx[w].from
        /\ r.ev = tx[w].ev /\ r.to = tx[w].to
    BY <2>1 DEF Request, PC
  <2>3. ReqOK(r)
    BY <2>1, <2>2 DEF ReqOK, CookingPC, TicketPC
  <2>4. \A v \in Workers \ {w} : ~HoldsTicket(v, tx[w].t)
    BY <2>1 DEF WriteKitchenState, Blockers
  <2>5. LocksOK(w, r)
    BY <1>2, <2>2, <2>4 DEF LocksOK, TicketPC
  <2> QED
    BY <1>2, <2>2, <2>3, <2>5, LocalStep DEF WriteKitchenState, IInv, TypeOK
<1> QED
  BY <1>1, <1>2

LEMMA CascadeInv ==
    ASSUME IInv, NEW w \in Workers, NEW ev,
           tx[w].pc \in {"packing", "closing"}, CascadeTo(w, ev)
    PROVE  IInv'
<1> DEFINE o == tx[w].o
           edge == CHOOSE e \in ORDER_TRANSITIONS : e[1] = order[o] /\ e[2] = ev
<1>1. CASE ev \notin Allowed(ORDER_TRANSITIONS, order[o])
  BY <1>1, IdleStep DEF CascadeTo
<1>2. CASE ev \in Allowed(ORDER_TRANSITIONS, order[o])
  <2>1. o \in Orders
    BY DEF IInv, RequestOK, ReqOK
  <2>2. \E e \in ORDER_TRANSITIONS : e[1] = order[o] /\ e[2] = ev
    BY <1>2 DEF Allowed
  <2>3. edge \in ORDER_TRANSITIONS
    BY <2>2
  <2>4. tx' = [tx EXCEPT ![w] = Selected(o, edge, TRUE)]
    BY <1>2 DEF CascadeTo
  <2> HIDE DEF o, edge
  <2> QED
    BY <2>1, <2>3, <2>4, SelectedOK, LocalStep DEF CascadeTo, IInv, TypeOK
<1> QED
  BY <1>1, <1>2

---------------------------------------------------------------------------
(* The steps that change the tables.                                       *)

(* The state of the row a request has locked for a commit.                 *)
LEMMA LockedRow ==
    ASSUME IInv, NEW w \in Workers, tx[w].pc \in {"commit", "notify", "cooked"}
    PROVE  /\ tx[w].o \in Orders
           /\ order[tx[w].o] = tx[w].from
           /\ \A v \in Workers \ {w} : ~HoldsRow(v, tx[w].o) /\ ~HoldsKey(v, tx[w].o)
BY DEF IInv, RequestOK, ReqOK, CookingPC, RowLockStable, HoldsRow

(* What a START_COOKING request that reached its end has reserved.         *)
LEMMA CookingTakesAll ==
    ASSUME IInv, NEW w \in Workers, tx[w].pc = "cooked"
    PROVE  tx[w].taken = Reservable(tx[w].o)
<1>1. tx[w].o \in Orders
  BY LockedRow
<1>2. /\ tx[w].taken = {k \in Reservable(tx[w].o) : k < tx[w].i}
      /\ tx[w].i = Len(Items[tx[w].o]) + 1
  BY DEF IInv, RequestOK, ReqOK, CookingPC, TicketPC
<1>3. \A k \in Reservable(tx[w].o) : k < Len(Items[tx[w].o]) + 1
  BY <1>1, OrderTxAssumption DEF Reservable
<1> QED
  BY <1>2, <1>3

LEMMA CreateOrderInv ==
    ASSUME IInv, NEW o \in Orders, CreateOrder(o)
    PROVE  IInv'
<1>1. TypeOK'
  BY DEF IInv, TypeOK, CreateOrder, OrderState
<1>2. RequestOK' /\ TicketsDistinct' /\ TicketHasOrder' /\ TicketLockStable'
  BY DEF IInv, CreateOrder, RequestOK, ReqOK, TicketsDistinct, TicketHasOrder,
         TicketLockStable, HoldsTicket
<1>3. RowLockStable'
  <2>1. ASSUME NEW w \in Workers, HoldsRow(w, o) PROVE FALSE
    <3>1. tx[w].from = "ABSENT"
      BY <2>1 DEF IInv, RowLockStable, CreateOrder
    <3>2. tx[w].from # "ABSENT"
      BY <2>1 DEF HoldsRow, IInv, RequestOK, ReqOK, ORDER_TRANSITIONS
    <3> QED
      BY <3>1, <3>2
  <2>2. \A p \in Orders : p # o => order'[p] = order[p]
    BY DEF IInv, TypeOK, CreateOrder
  <2>3. \A w \in Workers, p \in Orders :
           (HoldsRow(w, p)' <=> HoldsRow(w, p)) /\ (HoldsKey(w, p)' <=> HoldsKey(w, p))
    BY DEF CreateOrder, HoldsRow, HoldsKey
  <2> QED
    BY <2>1, <2>2, <2>3 DEF IInv, RowLockStable, CreateOrder
<1>4. CookedExactlyOnce'
  BY DEF IInv, TypeOK, CreateOrder, CookedExactlyOnce, Issued, CookedStates
<1> QED
  BY <1>1, <1>2, <1>3, <1>4 DEF IInv

LEMMA CreateTicketInv ==
    ASSUME IInv, NEW t \in Tickets, NEW o \in Orders, CreateTicket(t, o)
    PROVE  IInv'
<1>1. TypeOK'
  BY DEF IInv, TypeOK, CreateTicket, KitchenState
<1>2. /\ t \notin ProgramTickets
      /\ \A s \in Tickets : s # t => ticket'[s] = ticket[s] /\ ticketOf'[s] = ticketOf[s]
      /\ ticket'[t] = "NEW" /\ ticketOf'[t] = o
  BY OrderTxAssumption DEF IInv, TypeOK, CreateTicket
<1>3. RequestOK'
  BY <1>2 DEF IInv, CreateTicket, RequestOK, ReqOK, Tickets
<1>4. TicketsDistinct' /\ RowLockStable'
  BY DEF IInv, CreateTicket, TicketsDistinct, RowLockStable, HoldsRow, HoldsKey
<1>5. TicketHasOrder'
  BY <1>2, OrderTxAssumption DEF IInv, TicketHasOrder
<1>6. TicketLockStable'
  <2>1. ASSUME NEW w \in Workers, tx[w].pc = "kcommit"
        PROVE  tx[w].t \in Tickets /\ tx[w].t # t
    <3>1. tx[w].t \in Tickets /\ tx[w].from # "ABSENT"
      BY <2>1 DEF IInv, RequestOK, ReqOK, KITCHEN_TRANSITIONS
    <3> QED
      BY <2>1, <3>1 DEF IInv, TicketLockStable, CreateTicket
  <2> QED
    BY <1>2, <2>1 DEF IInv, CreateTicket, TicketLockStable, HoldsTicket
<1>7. CookedExactlyOnce'
  <2>1. \A p \in Orders : Issued(p)' = Issued(p)
    BY <1>2 DEF Issued, Tickets
  <2> QED
    BY <2>1 DEF IInv, CreateTicket, CookedExactlyOnce
<1> QED
  BY <1>1, <1>3, <1>4, <1>5, <1>6, <1>7 DEF IInv

LEMMA CommitInv ==
    ASSUME IInv, NEW w \in Workers, Commit(w)
    PROVE  IInv'
<1> DEFINE o == tx[w].o
           r == [Idle EXCEPT !.pc = "closing", !.o = o]
<1>1. /\ tx[w] \in Request /\ o \in Orders /\ order[o] = tx[w].from
      /\ <<tx[w].from, tx[w].ev, tx[w].to>> \in ORDER_TRANSITIONS
      /\ tx[w].ev # "START_COOKING"
      /\ \A v \in Workers \ {w} : ~HoldsRow(v, o) /\ ~HoldsKey(v, o)
  BY LockedRow DEF Commit, IInv, TypeOK, RequestOK, ReqOK
<1>2. /\ tx[w].to \in OrderState
      /\ tx[w].from \in CookedStates <=> tx[w].to \in CookedStates
  BY <1>1 DEF ORDER_TRANSITIONS, OrderState, CookedStates
<1>3. r \in Request /\ r.pc = "closing" /\ r.o = o /\ r.taken = {}
  <2>1. "closing" \in PC
    BY DEF PC
  <2>2. r.pc = "closing" /\ r.o = o /\ r.taken = {}
    BY DEF Idle
  <2>3. r \in Request
    BY <1>1, <2>1, IdleOK, ZenonT(60) DEF Request
  <2> QED
    BY <2>2, <2>3
<1>4. /\ tx'[w] \in Request
      /\ tx'[w].pc = "idle" \/ (tx'[w].pc = "closing" /\ tx'[w].o \in Orders)
      /\ tx'[w].taken = {}
      /\ \A v \in Workers \ {w} : tx'[v] = tx[v]
  BY <1>1, <1>3, IdleOK DEF Commit, IInv, TypeOK
<1>5. order'[o] = tx[w].to /\ \A p \in Orders : p # o => order'[p] = order[p]
  BY <1>1 DEF Commit, IInv, TypeOK
<1>6. TypeOK'
  <2>1. tx' \in [Workers -> Request]
    BY <1>3, IdleOK DEF Commit, IInv, TypeOK
  <2> QED
    BY <1>2, <2>1 DEF Commit, IInv, TypeOK
<1>7. RequestOK'
  BY <1>4 DEF IInv, Commit, RequestOK, ReqOK, CookingPC, TicketPC
<1>8. TicketsDistinct' /\ TicketHasOrder' /\ TicketLockStable'
  BY <1>4 DEF IInv, Commit, TicketsDistinct, TicketHasOrder, TicketLockStable,
              HoldsTicket, TicketPC
<1>9. RowLockStable'
  BY <1>1, <1>4, <1>5 DEF IInv, RowLockStable, HoldsRow, HoldsKey
<1>10. CookedExactlyOnce'
  <2>1. \A p \in Orders : order'[p] \in CookedStates <=> order[p] \in CookedStates
    BY <1>1, <1>2, <1>5
  <2>2. \A p \in Orders : Issued(p)' = Issued(p) /\ sales'[p] = sales[p]
    BY DEF Issued, Commit
  <2> QED
    BY <2>1, <2>2 DEF IInv, CookedExactlyOnce
<1> QED
  BY <1>6, <1>7, <1>8, <1>9, <1>10 DEF IInv

LEMMA CommitCookingInv ==
    ASSUME IInv, NEW w \in Workers, CommitCooking(w)
    PROVE  IInv'
<1> DEFINE o == tx[w].o
           t == tx[w].t
<1>1. /\ tx[w] \in Request /\ tx[w].pc = "cooked" /\ o \in Orders
      /\ t \in ProgramTickets /\ t \in Tickets /\ ticket[t] = "ABSENT"
      /\ order[o] \in {"PAID", "CONFIRMED"}
      /\ \A v \in Workers \ {w} : ~HoldsRow(v, o) /\ ~HoldsKey(v, o)
  BY LockedRow DEF CommitCooking, IInv, TypeOK, RequestOK, ReqOK, TicketPC, Tickets
<1>2. tx[w].taken = Reservable(o)
  BY <1>1, CookingTakesAll
<1>3. tx'[w] = Idle /\ \A v \in Workers \ {w} : tx'[v] = tx[v]
  BY DEF CommitCooking, IInv, TypeOK
<1>4. /\ order'[o] = "COOKING" /\ \A p \in Orders : p # o => order'[p] = order[p]
      /\ ticket'[t] = "NEW" /\ \A s \in Tickets : s # t => ticket'[s] = ticket[s]
      /\ ticketOf'[t] = o /\ \A s \in Tickets : s # t => ticketOf'[s] = ticketOf[s]
  BY <1>1 DEF CommitCooking, IInv, TypeOK
<1>5. /\ sales'[o] = [i \in ItemNo |-> IF i \in Reservable(o) THEN sales[o][i] + 1
                                       ELSE sales[o][i]]
      /\ \A p \in Orders : p # o => sales'[p] = sales[p]
  BY <1>1, <1>2 DEF CommitCooking, IInv, TypeOK
<1>6. TypeOK'
  <2>1. order' \in [Orders -> OrderState \cup {"ABSENT"}]
    BY DEF CommitCooking, IInv, TypeOK, OrderState
  <2>2. ticket' \in [Tickets -> KitchenState \cup {"ABSENT"}]
    BY DEF CommitCooking, IInv, TypeOK, KitchenState
  <2>3. ticketOf' \in [Tickets -> Orders \cup {NoOrder}]
    BY <1>1 DEF CommitCooking, IInv, TypeOK
  <2>4. stock' \in [Tracked -> Int]
    <3>1. tx[w].delta \in [Tracked -> Int]
      BY <1>1 DEF Request
    <3> QED
      BY <3>1 DEF CommitCooking, IInv, TypeOK
  <2>5. sales' \in [Orders -> [ItemNo -> Nat]]
    <3>1. sales'[o] \in [ItemNo -> Nat]
      BY <1>1, <1>5 DEF IInv, TypeOK
    <3>2. sales' = [sales EXCEPT ![o] = sales'[o]]
      BY <1>1 DEF CommitCooking, IInv, TypeOK
    <3> QED
      BY <3>1, <3>2 DEF IInv, TypeOK
  <2>6. tx' \in [Workers -> Request]
    BY IdleOK DEF CommitCooking, IInv, TypeOK
  <2> QED
    BY <2>1, <2>2, <2>3, <2>4, <2>5, <2>6 DEF CommitCooking, IInv, TypeOK
<1>7. RequestOK'
  <2> SUFFICES ASSUME NEW v \in Workers PROVE ReqOK(tx[v])'
    BY DEF RequestOK
  <2>1. CASE v = w
    BY <1>3, <2>1, IdleOK DEF ReqOK, CookingPC, TicketPC
  <2>2. CASE v # w
    <3>1. tx[v].pc \in TicketPC => tx[v].t \in Tickets /\ tx[v].t # t
      BY <1>1, <2>2 DEF IInv, TicketsDistinct, TicketPC, RequestOK, ReqOK, Tickets
    <3> QED
      BY <1>3, <1>4, <2>2, <3>1 DEF IInv, RequestOK, ReqOK
  <2> QED
    BY <2>1, <2>2
<1>8. TicketsDistinct'
  BY <1>3, IdleOK DEF IInv, TicketsDistinct, TicketPC
<1>9. TicketHasOrder'
  BY <1>1, <1>4, OrderTxAssumption DEF IInv, TicketHasOrder
<1>10. TicketLockStable'
  <2>1. ASSUME NEW v \in Workers, tx[v].pc = "kcommit"
        PROVE  tx[v].t \in Tickets /\ tx[v].t # t
    <3>1. tx[v].t \in Tickets /\ tx[v].from # "ABSENT"
      BY <2>1 DEF IInv, RequestOK, ReqOK, KITCHEN_TRANSITIONS
    <3> QED
      BY <1>1, <2>1, <3>1 DEF IInv, TicketLockStable
  <2> QED
    BY <1>1, <1>3, <1>4, <2>1, IdleOK DEF IInv, TicketLockStable, HoldsTicket
<1>11. RowLockStable'
  BY <1>1, <1>3, <1>4, IdleOK DEF IInv, RowLockStable, HoldsRow, HoldsKey
<1>12. CookedExactlyOnce'
  <2>1. Issued(o) = {} /\ \A i \in ItemNo : sales[o][i] = 0
    BY <1>1 DEF IInv, CookedExactlyOnce, CookedStates
  <2>2. {s \in ProgramTickets : ticketOf'[s] = o} = {t}
    <3>1. \A s \in ProgramTickets : s # t => ticketOf'[s] = ticketOf[s]
      BY <1>4 DEF Tickets
    <3>2. \A s \in ProgramTickets : ticketOf[s] # o
      BY <2>1 DEF Issued
    <3>3. \A s \in ProgramTickets : ticketOf'[s] = o <=> s = t
      BY <1>4, <3>1, <3>2
    <3> QED
      BY <1>1, <3>3
  <2>3. \A p \in Orders : p # o => Issued(p)' = Issued(p)
    <3>1. ticketOf[t] = NoOrder
      BY <1>1 DEF IInv, TicketHasOrder
    <3>2. NoOrder \notin Orders
      BY OrderTxAssumption
    <3> QED
      BY <1>1, <1>4, <3>1, <3>2 DEF Issued, Tickets
  <2>4. \A i \in ItemNo : sales'[o][i] = IF i \in Reservable(o) THEN 1 ELSE 0
    BY <1>5, <2>1
  <2> SUFFICES ASSUME NEW p \in Orders
               PROVE  (IF order[p] \in CookedStates
                       THEN /\ \E s \in ProgramTickets : Issued(p) = {s}
                            /\ \A i \in ItemNo : sales[p][i] = IF i \in Reservable(p) THEN 1 ELSE 0
                       ELSE /\ Issued(p) = {}
                            /\ \A i \in ItemNo : sales[p][i] = 0)'
    BY DEF CookedExactlyOnce
  <2>5. CASE p = o
    <3>1. order'[p] \in CookedStates
      BY <1>4, <2>5 DEF CookedStates
    <3>2. Issued(p)' = {t}
      BY <2>2, <2>5 DEF Issued
    <3> QED
      BY <1>1, <2>4, <2>5, <3>1, <3>2
  <2>6. CASE p # o
    BY <1>4, <1>5, <2>3, <2>6 DEF IInv, CookedExactlyOnce
  <2> QED
    BY <2>5, <2>6
<1> QED
  BY <1>6, <1>7, <1>8, <1>9, <1>10, <1>11, <1>12 DEF IInv

LEMMA CommitTicketInv ==
    ASSUME IInv, NEW w \in Workers, CommitTicket(w)
    PROVE  IInv'
<1> DEFINE t == tx[w].t
           r == [Idle EXCEPT !.pc = "packing", !.o = ticketOf[t]]
<1>1. /\ tx[w] \in Request /\ tx[w].pc = "kcommit" /\ t \in Tickets
      /\ <<tx[w].from, tx[w].ev, tx[w].to>> \in KITCHEN_TRANSITIONS
      /\ ticket[t] = tx[w].from
      /\ \A v \in Workers \ {w} : ~HoldsTicket(v, t)
  BY DEF CommitTicket, IInv, TypeOK, RequestOK, ReqOK, TicketLockStable
<1>2. ticket[t] # "ABSENT" /\ tx[w].to # "ABSENT" /\ tx[w].to \in KitchenState
  BY <1>1 DEF KITCHEN_TRANSITIONS, KitchenState
<1>3. ticketOf[t] \in Orders
  BY <1>1, <1>2 DEF IInv, TypeOK, TicketHasOrder
<1>4. r \in Request /\ r.pc = "packing" /\ r.o \in Orders /\ r.taken = {}
  <2>1. "packing" \in PC
    BY DEF PC
  <2>2. r.pc = "packing" /\ r.o = ticketOf[t] /\ r.taken = {}
    BY DEF Idle
  <2>3. r \in Request
    BY <1>3, <2>1, IdleOK DEF Request
  <2> QED
    BY <1>3, <2>2, <2>3
<1>5. /\ tx'[w].pc = "idle" \/ (tx'[w].pc = "packing" /\ tx'[w].o \in Orders)
      /\ tx'[w].taken = {}
      /\ \A v \in Workers \ {w} : tx'[v] = tx[v]
  BY <1>1, <1>4, IdleOK DEF CommitTicket, IInv, TypeOK
<1>6. ticket'[t] = tx[w].to /\ \A s \in Tickets : s # t => ticket'[s] = ticket[s]
  BY <1>1 DEF CommitTicket, IInv, TypeOK
<1>7. TypeOK'
  <2>1. tx' \in [Workers -> Request]
    BY <1>4, IdleOK DEF CommitTicket, IInv, TypeOK
  <2> QED
    BY <1>2, <2>1 DEF CommitTicket, IInv, TypeOK
<1>8. RequestOK'
  BY <1>2, <1>5, <1>6 DEF IInv, RequestOK, ReqOK, CookingPC, TicketPC, Tickets
<1>9. TicketsDistinct'
  BY <1>5 DEF IInv, TicketsDistinct, TicketPC
<1>10. TicketHasOrder'
  BY <1>2, <1>3, <1>6, OrderTxAssumption DEF IInv, TicketHasOrder, CommitTicket
<1>11. TicketLockStable'
  <2>1. ASSUME NEW v \in Workers \ {w}, tx[v].pc = "kcommit"
        PROVE  tx[v].t # t /\ tx[v].t \in Tickets
    BY <1>1, <2>1 DEF HoldsTicket, IInv, RequestOK, ReqOK
  <2> QED
    BY <1>5, <1>6, <2>1 DEF IInv, TicketLockStable, HoldsTicket
<1>12. RowLockStable'
  BY <1>5 DEF IInv, RowLockStable, HoldsRow, HoldsKey, CommitTicket
<1>13. CookedExactlyOnce'
  BY DEF IInv, CookedExactlyOnce, Issued, CommitTicket
<1> QED
  BY <1>7, <1>8, <1>9, <1>10, <1>11, <1>12, <1>13 DEF IInv

LEMMA CrashInv ==
    ASSUME IInv, Crash
    PROVE  IInv'
<1>1. \A w \in Workers : tx'[w] = Idle
  BY DEF Crash
<1>2. TypeOK'
  BY IdleOK DEF IInv, TypeOK, Crash
<1>3. RequestOK' /\ TicketsDistinct' /\ TicketHasOrder' /\ TicketLockStable'
  BY <1>1, IdleOK DEF IInv, Crash, RequestOK, ReqOK, TicketsDistinct, TicketHasOrder,
                      TicketLockStable, HoldsTicket, CookingPC, TicketPC
<1>4. RowLockStable' /\ CookedExactlyOnce'
  BY <1>1, IdleOK DEF IInv, Crash, RowLockStable, HoldsRow, CookedExactlyOnce, Issued
<1> QED
  BY <1>2, <1>3, <1>4 DEF IInv

---------------------------------------------------------------------------
LEMMA InitInv == Init => IInv
<1> SUFFICES ASSUME Init PROVE IInv
  OBVIOUS
<1>1. \A w \in Workers : tx[w] = Idle
  BY DEF Init
<1>2. TypeOK
  BY IdleOK, OrderTxAssumption DEF Init, TypeOK
<1>3. RequestOK /\ TicketsDistinct /\ TicketHasOrder /\ TicketLockStable
  BY <1>1, IdleOK DEF Init, RequestOK, ReqOK, TicketsDistinct, TicketHasOrder,
                      TicketLockStable, CookingPC, TicketPC
<1>4. RowLockStable
  BY <1>1, IdleOK DEF RowLockStable, HoldsRow
<1>5. CookedExactlyOnce
  BY OrderTxAssumption DEF Init, CookedExactlyOnce, CookedStates, Issued, Tickets
<1> QED
  BY <1>2, <1>3, <1>4, <1>5 DEF IInv

(* Every step of every actor keeps the invariant.                          *)
LEMMA NextInv == IInv /\ [Next]_vars => IInv'
<1> SUFFICES ASSUME IInv, [Next]_vars PROVE IInv'
  OBVIOUS
<1>1. CASE UNCHANGED vars
  <2>1. TypeOK' /\ RequestOK' /\ TicketsDistinct' /\ TicketHasOrder'
    BY <1>1 DEF vars, IInv, TypeOK, RequestOK, ReqOK, TicketsDistinct, TicketHasOrder
  <2>2. TicketLockStable' /\ RowLockStable'
    BY <1>1 DEF vars, IInv, TicketLockStable, HoldsTicket, RowLockStable, HoldsRow, HoldsKey
  <2>3. CookedExactlyOnce'
    BY <1>1 DEF vars, IInv, CookedExactlyOnce, Issued
  <2> QED
    BY <2>1, <2>2, <2>3 DEF IInv
<1>2. ASSUME NEW o \in Orders, CreateOrder(o) PROVE IInv'
  BY <1>2, CreateOrderInv
<1>3. ASSUME NEW w \in Workers, NEW o \in Orders, NEW edge \in ORDER_TRANSITIONS,
             TransitionOrder(w, o, edge)
      PROVE  IInv'
  BY <1>3, TransitionOrderInv
<1>4. ASSUME NEW t \in Tickets, NEW o \in Orders, CreateTicket(t, o) PROVE IInv'
  BY <1>4, CreateTicketInv
<1>5. ASSUME NEW w \in Workers, NEW t \in Tickets, NEW edge \in KITCHEN_TRANSITIONS,
             TransitionTicket(w, t, edge)
      PROVE  IInv'
  BY <1>5, TransitionTicketInv
<1>6. ASSUME NEW w \in Workers, Step(w) PROVE IInv'
  <2>1. CASE CascadePacking(w) \/ CascadeClose(w)
    BY <2>1, CascadeInv DEF CascadePacking, CascadeClose
  <2>2. CASE AbortDeadlock(w)
    BY <2>2, IdleStep DEF AbortDeadlock
  <2>3. CASE \E t \in ProgramTickets : InsertTicket(w, t)
    BY <2>3, InsertTicketInv
  <2> QED
    BY <1>6, <2>1, <2>2, <2>3, TransitionOrderStateInv, CommitInv, ReserveItemInv,
       WriteOrderStateCookingInv, NotifyStaffInv, CommitCookingInv,
       WriteKitchenStateInv, CommitTicketInv DEF Step
<1>7. CASE Crash
  BY <1>7, CrashInv
<1> QED
  BY <1>1, <1>2, <1>3, <1>4, <1>5, <1>6, <1>7 DEF Next

THEOREM Invariant == Spec => []IInv
BY InitInv, NextInv, PTL DEF Spec

---------------------------------------------------------------------------
(* Every table and every request in flight keeps its type: in particular   *)
(* no transition writes a value that is not a state of the row's lifecycle *)
(* and no ticket is announced that START_COOKING did not draw.             *)
THEOREM TypeCorrect == Spec => []TypeOK
BY Invariant, PTL DEF IInv

(* START_COOKING is all or nothing and happens at most once per order,     *)
(* however many requests race (order_programs.py, PROGRAM_START_COOKING).  *)
THEOREM CookedOnce == Spec => []CookedExactlyOnce
BY Invariant, PTL DEF IInv

(* The FOR UPDATE re-check of the tools in order_tools.py pins the state a *)
(* program verified until its commit.                                      *)
THEOREM RowLocks == Spec => []RowLockStable
BY Invariant, PTL DEF IInv

(* What a step can do to the orders table: insert, follow an edge, or cook. *)
LEMMA OrderWrites ==
    ASSUME IInv, Next
    PROVE  \/ order' = order
           \/ \E o \in Orders : CreateOrder(o)
           \/ \E w \in Workers : Commit(w) \/ CommitCooking(w)
<1>1. ASSUME NEW w \in Workers, Step(w)
      PROVE  order' = order \/ Commit(w) \/ CommitCooking(w)
  BY <1>1 DEF Step, TransitionOrderState, ReserveItem, InsertTicket,
              WriteOrderStateCooking, NotifyStaff, WriteKitchenState, CommitTicket,
              CascadePacking, CascadeClose, CascadeTo, AbortDeadlock
<1> QED
  BY <1>1 DEF Next, TransitionOrder, CreateTicket, TransitionTicket, Crash

(* transition_order consults ORDER_TRANSITIONS before it locks the row;    *)
(* what it commits is nevertheless an edge from the state it replaces.     *)
THEOREM OrderSteps == Spec => OrderStepsLegal
<1> DEFINE A == \A o \in Orders :
                   order'[o] # order[o] =>
                      \/ order[o] = "ABSENT" /\ order'[o] = "DRAFT"
                      \/ IsEdge(ORDER_TRANSITIONS, order[o], order'[o])
<1>1. IInv /\ [Next]_vars => [A]_vars
  <2> SUFFICES ASSUME IInv, Next PROVE A
    BY DEF vars
  <2>1. CASE order' = order
    BY <2>1
  <2>2. ASSUME NEW o \in Orders, CreateOrder(o) PROVE A
    BY <2>2 DEF CreateOrder, IInv, TypeOK
  <2>3. ASSUME NEW w \in Workers, Commit(w) PROVE A
    <3>1. /\ tx[w].o \in Orders /\ order[tx[w].o] = tx[w].from
          /\ <<tx[w].from, tx[w].ev, tx[w].to>> \in ORDER_TRANSITIONS
      BY <2>3, LockedRow DEF Commit, IInv, RequestOK, ReqOK
    <3>2. IsEdge(ORDER_TRANSITIONS, tx[w].from, tx[w].to)
      BY <3>1 DEF IsEdge
    <3> QED
      BY <2>3, <3>1, <3>2 DEF Commit, IInv, TypeOK
  <2>4. ASSUME NEW w \in Workers, CommitCooking(w) PROVE A
    <3>1. /\ tx[w].o \in Orders /\ order[tx[w].o] = tx[w].from
          /\ tx[w].from \in {"PAID", "CONFIRMED"}
      BY <2>4, LockedRow DEF CommitCooking, IInv, RequestOK, ReqOK
    <3>2. IsEdge(ORDER_TRANSITIONS, tx[w].from, "COOKING")
      BY <3>1 DEF IsEdge, ORDER_TRANSITIONS
    <3> QED
      BY <2>4, <3>1, <3>2 DEF CommitCooking, IInv, TypeOK
  <2> QED
    BY <2>1, <2>2, <2>3, <2>4, OrderWrites
<1> QED
  BY <1>1, Invariant, PTL DEF Spec, OrderStepsLegal

(* A ticket's state follows KITCHEN_TRANSITIONS, and its order is set once. *)
THEOREM TicketSteps == Spec => TicketStepsLegal
<1> DEFINE B == \A t \in Tickets :
                   /\ ticket'[t] # ticket[t] =>
                         \/ ticket[t] = "ABSENT" /\ ticket'[t] = "NEW"
                         \/ IsEdge(KITCHEN_TRANSITIONS, ticket[t], ticket'[t])
                   /\ ticketOf'[t] # ticketOf[t] => ticketOf[t] = NoOrder
<1>1. IInv /\ [Next]_vars => [B]_vars
  <2> SUFFICES ASSUME IInv, Next PROVE B
    BY DEF vars
  <2>1. CASE ticket' = ticket /\ ticketOf' = ticketOf
    BY <2>1
  <2>2. ASSUME NEW t \in Tickets, NEW o \in Orders, CreateTicket(t, o) PROVE B
    BY <2>2 DEF CreateTicket, IInv, TypeOK, TicketHasOrder
  <2>3. ASSUME NEW w \in Workers, CommitCooking(w) PROVE B
    <3>1. tx[w].t \in Tickets /\ ticket[tx[w].t] = "ABSENT"
      BY <2>3 DEF CommitCooking, IInv, RequestOK, ReqOK, TicketPC, Tickets
    <3> QED
      BY <2>3, <3>1 DEF CommitCooking, IInv, TypeOK, TicketHasOrder
  <2>4. ASSUME NEW w \in Workers, CommitTicket(w) PROVE B
    <3>1. /\ tx[w].t \in Tickets /\ ticket[tx[w].t] = tx[w].from
          /\ <<tx[w].from, tx[w].ev, tx[w].to>> \in KITCHEN_TRANSITIONS
      BY <2>4 DEF CommitTicket, IInv, RequestOK, ReqOK, TicketLockStable
    <3>2. IsEdge(KITCHEN_TRANSITIONS, tx[w].from, tx[w].to)
      BY <3>1 DEF IsEdge
    <3> QED
      BY <2>4, <3>1, <3>2 DEF CommitTicket, IInv, TypeOK
  <2>5. ASSUME NEW w \in Workers, Step(w)
        PROVE  (ticket' = ticket /\ ticketOf' = ticketOf) \/ CommitCooking(w) \/ CommitTicket(w)
    BY <2>5 DEF Step, TransitionOrderState, Commit, ReserveItem, InsertTicket,
                WriteOrderStateCooking, NotifyStaff, WriteKitchenState,
                CascadePacking, CascadeClose, CascadeTo, AbortDeadlock
  <2> QED
    BY <2>1, <2>2, <2>3, <2>4, <2>5 DEF Next, CreateOrder, TransitionOrder,
                                        TransitionTicket, Crash
<1> QED
  BY <1>1, Invariant, PTL DEF Spec, TicketStepsLegal

---------------------------------------------------------------------------
(* Requests that interleave step by step, abort on deadlocks and die with  *)
(* the process implement the contract in which each of them is one step.   *)
THEOREM Refinement == Spec => ImplementsContract
<1>1. Init => Abstract!Start
  BY OrderTxAssumption DEF Init, Abstract!Start, Issued, Tickets
<1>2. IInv /\ [Next]_vars => [Abstract!Advance]_(Abstract!cvars)
  <2> SUFFICES ASSUME IInv, [Next]_vars
               PROVE  Abstract!Advance \/ UNCHANGED Abstract!cvars
    OBVIOUS
  <2>1. CASE order' = order /\ ticketOf' = ticketOf /\ sales' = sales
    BY <2>1 DEF Abstract!cvars, Issued
  <2>2. ASSUME NEW o \in Orders, CreateOrder(o) PROVE Abstract!Advance
    <3>1. Abstract!Place(o)
      BY <2>2 DEF CreateOrder, Abstract!Place, Issued
    <3> QED
      BY <3>1 DEF Abstract!Advance
  <2>3. ASSUME NEW t \in Tickets, NEW o \in Orders, CreateTicket(t, o)
        PROVE  UNCHANGED Abstract!cvars
    <3>1. \A s \in ProgramTickets : ticketOf'[s] = ticketOf[s]
      BY <2>3, OrderTxAssumption DEF CreateTicket, IInv, TypeOK, Tickets
    <3>2. \A p \in Orders : Issued(p)' = Issued(p)
      BY <3>1 DEF Issued
    <3> QED
      BY <2>3, <3>2 DEF CreateTicket, Abstract!cvars
  <2>4. ASSUME NEW w \in Workers, Commit(w) PROVE Abstract!Advance
    <3>1. PICK o \in Orders : o = tx[w].o /\ order[o] = tx[w].from
      BY <2>4, LockedRow DEF Commit
    <3>2. PICK edge \in ORDER_TRANSITIONS : edge = <<tx[w].from, tx[w].ev, tx[w].to>>
      BY <2>4 DEF Commit, IInv, RequestOK, ReqOK
    <3>3. edge[2] # "START_COOKING"
      BY <2>4, <3>2 DEF Commit, IInv, RequestOK, ReqOK
    <3>4. Abstract!Move(o, edge)
      BY <2>4, <3>1, <3>2, <3>3 DEF Commit, Abstract!Move, Issued
    <3>5. edge \in Abstract!ORDER_TRANSITIONS
      BY DEF ORDER_TRANSITIONS, Abstract!ORDER_TRANSITIONS
    <3> QED
      BY <3>4, <3>5 DEF Abstract!Advance
  <2>5. ASSUME NEW w \in Workers, CommitCooking(w) PROVE Abstract!Advance
    <3>1. PICK o \in Orders : o = tx[w].o
      BY <2>5, LockedRow DEF CommitCooking
    <3>2. PICK t \in ProgramTickets : t = tx[w].t
      BY <2>5 DEF CommitCooking, IInv, RequestOK, ReqOK, TicketPC
    <3>3. order[o] \in {"PAID", "CONFIRMED"} /\ ticketOf[t] = NoOrder
      BY <2>5, <3>1, <3>2, LockedRow
      DEF CommitCooking, IInv, RequestOK, ReqOK, TicketPC, TicketHasOrder, Tickets
    <3>4. tx[w].taken = Reservable(o)
      BY <2>5, <3>1, CookingTakesAll DEF CommitCooking
    <3>5. \A p \in Orders : t \notin Issued(p)
      BY <3>3, OrderTxAssumption DEF Issued
    <3>6. \A p \in Orders : Issued(p)' = IF p = o THEN Issued(p) \cup {t} ELSE Issued(p)
      <4>1. \A s \in ProgramTickets : ticketOf'[s] = IF s = t THEN o ELSE ticketOf[s]
        BY <2>5, <3>1, <3>2 DEF CommitCooking, IInv, TypeOK, Tickets
      <4> QED
        BY <3>5, <4>1 DEF Issued
    <3>7. [p \in Orders |-> Issued(p)]' = [[p \in Orders |-> Issued(p)] EXCEPT ![o] = @ \cup {t}]
      BY <3>6
    <3>8. sales' = [sales EXCEPT ![o] =
                      [i \in ItemNo |-> IF i \in Reservable(o) THEN @[i] + 1 ELSE @[i]]]
      BY <2>5, <3>1, <3>4 DEF CommitCooking
    <3>9. Abstract!Cook(o, t)
      BY <2>5, <3>1, <3>3, <3>5, <3>7, <3>8 DEF CommitCooking, Abstract!Cook
    <3> QED
      BY <3>9 DEF Abstract!Advance
  <2>6. ASSUME NEW w \in Workers, Step(w)
        PROVE  \/ order' = order /\ ticketOf' = ticketOf /\ sales' = sales
               \/ Commit(w) \/ CommitCooking(w)
    BY <2>6 DEF Step, TransitionOrderState, ReserveItem, InsertTicket,
                WriteOrderStateCooking, NotifyStaff, WriteKitchenState, CommitTicket,
                CascadePacking, CascadeClose, CascadeTo, AbortDeadlock
  <2> QED
    BY <2>1, <2>2, <2>3, <2>4, <2>5, <2>6
    DEF Next, TransitionOrder, TransitionTicket, Crash, vars
<1> QED
  BY <1>1, <1>2, Invariant, PTL DEF Spec, ImplementsContract, Abstract!Contract

---------------------------------------------------------------------------
(* One step of the fold behind SumFunctionOnSet.                           *)
FoldStep(f, D, g) ==
    [T \in SUBSET D |->
        IF T = {} THEN 0 ELSE f[CHOOSE x \in T : TRUE] + g[T \ {CHOOSE x \in T : TRUE}]]

(* g[T] is the sum of f over T, in whichever order it is taken.            *)
Sums(f, D, g) ==
    /\ g \in [SUBSET D -> Int]
    /\ g[{}] = 0
    /\ \A T \in SUBSET D : \A x \in D \ T : g[T \cup {x}] = g[T] + f[x]

(* A collection of subsets of a finite set has a smallest member: induction *)
(* over finite sets, by a least counterexample.                            *)
LEMMA SmallestSet ==
    ASSUME NEW D, IsFiniteSet(D), NEW C \in SUBSET SUBSET D, C # {}
    PROVE  \E X \in C : \A Y \in C : ~(Y \subseteq X /\ Y # X)
<1>1. FiniteSubsetsOf(D) = SUBSET D
  BY FS_FiniteSubsetsOfFinite
<1>2. IsWellFoundedOn(StrictSubsetOrdering(D), SUBSET D)
  BY <1>1, FS_StrictSubsetOrderingWellFounded
<1>3. PICK X \in C : \A Y \in C : <<Y, X>> \notin StrictSubsetOrdering(D)
  BY <1>2, WFMin
<1> QED
  BY <1>3 DEF StrictSubsetOrdering

LEMMA SumsExist ==
    ASSUME NEW D, IsFiniteSet(D), NEW f \in [D -> Int]
    PROVE  \E g : Sums(f, D, g)
<1> DEFINE C == {X \in SUBSET D : ~ \E g : Sums(f, X, g)}
<1> SUFFICES ASSUME C # {} PROVE FALSE
  OBVIOUS
<1>0. C \in SUBSET SUBSET D
  OBVIOUS
<1>1. PICK X \in C : \A Y \in C : ~(Y \subseteq X /\ Y # X)
  <2> HIDE DEF C
  <2> QED BY <1>0, SmallestSet
<1>2. CASE X = {}
  <2> DEFINE g == [T \in {{}} |-> 0]
  <2>1. SUBSET X = {{}}
    BY <1>2
  <2>2. Sums(f, X, g)
    BY <1>2, <2>1 DEF Sums
  <2> QED BY <1>1, <2>2
<1>3. CASE X # {}
  <2>1. PICK a \in X : TRUE
    BY <1>3
  <2> DEFINE Y == X \ {a}
  <2>2. Y \subseteq X /\ Y # X /\ Y \subseteq D /\ a \in D /\ a \notin Y
    BY <1>1, <2>1
  <2>3. PICK h : Sums(f, Y, h)
    BY <1>1, <2>2
  <2> DEFINE g == [T \in SUBSET X |-> IF a \in T THEN h[T \ {a}] + f[a] ELSE h[T]]
  <2>4. g \in [SUBSET X -> Int]
    <3>1. ASSUME NEW T \in SUBSET X
          PROVE  (IF a \in T THEN h[T \ {a}] + f[a] ELSE h[T]) \in Int
      BY <2>2, <2>3 DEF Sums
    <3> QED BY <3>1
  <2>5. g[{}] = 0
    BY <2>3 DEF Sums
  <2>6. ASSUME NEW T \in SUBSET X, NEW x \in X \ T
        PROVE  g[T \cup {x}] = g[T] + f[x]
    <3>0. T \cup {x} \in SUBSET X /\ f[x] \in Int /\ f[a] \in Int
      BY <2>2
    <3>1. CASE x = a
      <4>1. (T \cup {x}) \ {a} = T /\ T \in SUBSET Y /\ a \notin T
        BY <3>1
      <4> QED BY <3>0, <3>1, <4>1
    <3>2. CASE x # a /\ a \in T
      <4>1. (T \cup {x}) \ {a} = (T \ {a}) \cup {x} /\ T \ {a} \in SUBSET Y /\ x \in Y \ (T \ {a})
        BY <3>2
      <4>2. h[(T \ {a}) \cup {x}] = h[T \ {a}] + f[x] /\ h[T \ {a}] \in Int
        BY <2>3, <4>1 DEF Sums
      <4>3. g[T \cup {x}] = h[(T \cup {x}) \ {a}] + f[a] /\ g[T] = h[T \ {a}] + f[a]
        BY <3>0, <3>2
      <4>4. h[(T \cup {x}) \ {a}] = h[(T \ {a}) \cup {x}]
        BY <4>1, Zenon
      <4> HIDE DEF g, Y
      <4> QED BY <3>0, <4>2, <4>3, <4>4
    <3>3. CASE x # a /\ a \notin T
      <4>1. T \in SUBSET Y /\ x \in Y \ T /\ a \notin T \cup {x}
        BY <3>3
      <4>2. h[T \cup {x}] = h[T] + f[x]
        BY <2>3, <4>1 DEF Sums
      <4> QED BY <3>0, <3>3, <4>1, <4>2
    <3> QED BY <3>1, <3>2, <3>3
  <2>7. Sums(f, X, g)
    BY <2>4, <2>5, <2>6 DEF Sums
  <2> QED BY <1>1, <2>7
<1> QED BY <1>2, <1>3

(* SumFunctionOnSet computes the sum, whichever element it picks first.    *)
LEMMA SumValue ==
    ASSUME NEW D, IsFiniteSet(D), NEW f \in [D -> Int], NEW g, Sums(f, D, g)
    PROVE  SumFunction(f) = g[D]
<1>1. g = FoldStep(f, D, g)
  <2>1. ASSUME NEW T \in SUBSET D, T # {}
        PROVE  g[T] = f[CHOOSE x \in T : TRUE] + g[T \ {CHOOSE x \in T : TRUE}]
    <3> DEFINE a == CHOOSE x \in T : TRUE
    <3>1. a \in T
      BY <2>1
    <3> HIDE DEF a
    <3>2. T \ {a} \in SUBSET D /\ a \in D \ (T \ {a}) /\ (T \ {a}) \cup {a} = T
      BY <3>1
    <3>3. g[(T \ {a}) \cup {a}] = g[T \ {a}] + f[a] /\ g[T \ {a}] \in Int /\ f[a] \in Int
      BY <3>2 DEF Sums
    <3>4. g[T] = g[(T \ {a}) \cup {a}]
      BY <3>2, Zenon
    <3>5. g[T] = f[a] + g[T \ {a}]
      BY <3>3, <3>4
    <3> QED BY <3>5 DEF a
  <2>2. g[{}] = 0 /\ g \in [SUBSET D -> Int]
    BY DEF Sums
  <2>3. g = [T \in SUBSET D |-> g[T]]
    BY <2>2
  <2>4. [T \in SUBSET D |-> g[T]] = FoldStep(f, D, g)
    BY <2>1, <2>2 DEF FoldStep
  <2> QED BY <2>3, <2>4
<1> DEFINE h == CHOOSE h : h = FoldStep(f, D, h)
<1>2. h = FoldStep(f, D, h)
  BY <1>1
<1>3. SumFunction(f) = h[D]
  <2>1. DOMAIN f = D
    OBVIOUS
  <2>2. SumFunction(f) = SumFunctionOnSet(f, D)
    BY <2>1 DEF SumFunction
  <2>3. SumFunctionOnSet(f, D) = h[D]
    BY DEF SumFunctionOnSet, FoldFunctionOnSet, MapThenFoldSet, FoldStep
  <2> QED BY <2>2, <2>3
<1> HIDE DEF h
<1> DEFINE C == {T \in SUBSET D : h[T] # g[T]}
<1>4. C = {}
  <2> SUFFICES ASSUME C # {} PROVE FALSE
    OBVIOUS
  <2>0. C \in SUBSET SUBSET D
    OBVIOUS
  <2>1. PICK X \in C : \A Y \in C : ~(Y \subseteq X /\ Y # X)
    <3> HIDE DEF C
    <3> QED BY <2>0, SmallestSet
  <2> DEFINE a == CHOOSE x \in X : TRUE
  <2>2. /\ h[X] = IF X = {} THEN 0 ELSE f[a] + h[X \ {a}]
        /\ g[X] = IF X = {} THEN 0 ELSE f[a] + g[X \ {a}]
    BY <1>1, <1>2 DEF FoldStep
  <2>3. X # {} => a \in X
    OBVIOUS
  <2> HIDE DEF a
  <2>4. X # {} => h[X \ {a}] = g[X \ {a}]
    BY <2>1, <2>3
  <2> QED BY <2>1, <2>2, <2>4
<1> QED BY <1>3, <1>4

(* Sums are added term by term.                                            *)
LEMMA SumOfSums ==
    ASSUME NEW D, IsFiniteSet(D), NEW f \in [D -> Int], NEW h \in [D -> Int],
           NEW k \in [D -> Int], \A x \in D : k[x] = f[x] + h[x]
    PROVE  /\ SumFunction(k) = SumFunction(f) + SumFunction(h)
           /\ SumFunction(f) \in Int /\ SumFunction(h) \in Int
<1>1. PICK a : Sums(f, D, a)
  BY SumsExist
<1>2. PICK b : Sums(h, D, b)
  BY SumsExist
<1> DEFINE c == [T \in SUBSET D |-> a[T] + b[T]]
<1>3. c \in [SUBSET D -> Int] /\ c[{}] = 0
  BY <1>1, <1>2 DEF Sums
<1>4. ASSUME NEW T \in SUBSET D, NEW x \in D \ T
      PROVE  c[T \cup {x}] = c[T] + k[x]
  <2>1. T \cup {x} \in SUBSET D
    OBVIOUS
  <2>2. /\ a[T \cup {x}] = a[T] + f[x] /\ b[T \cup {x}] = b[T] + h[x]
        /\ a[T] \in Int /\ b[T] \in Int /\ f[x] \in Int /\ h[x] \in Int
    BY <1>1, <1>2 DEF Sums
  <2>3. c[T \cup {x}] = a[T \cup {x}] + b[T \cup {x}] /\ c[T] = a[T] + b[T] /\ k[x] = f[x] + h[x]
    BY <2>1
  <2> HIDE DEF c
  <2> QED BY <2>2, <2>3
<1>5. Sums(k, D, c)
  BY <1>3, <1>4 DEF Sums
<1>6. SumFunction(k) = c[D] /\ SumFunction(f) = a[D] /\ SumFunction(h) = b[D]
  BY <1>1, <1>2, <1>5, SumValue
<1>7. D \in SUBSET D /\ a[D] \in Int /\ b[D] \in Int
  BY <1>1, <1>2 DEF Sums
<1> QED BY <1>6, <1>7

(* A sum without a term, and with a single one.                            *)
LEMMA SumOfNone ==
    ASSUME NEW D, IsFiniteSet(D), NEW f \in [D -> Int], \A x \in D : f[x] = 0
    PROVE  SumFunction(f) = 0
<1> DEFINE g == [T \in SUBSET D |-> 0]
<1>1. Sums(f, D, g)
  BY DEF Sums
<1> QED BY <1>1, SumValue

LEMMA SumOfOne ==
    ASSUME NEW D, IsFiniteSet(D), NEW a \in D, NEW f \in [D -> Int],
           \A x \in D \ {a} : f[x] = 0
    PROVE  SumFunction(f) = f[a]
<1> DEFINE g == [T \in SUBSET D |-> IF a \in T THEN f[a] ELSE 0]
<1>1. g \in [SUBSET D -> Int] /\ g[{}] = 0
  OBVIOUS
<1>2. ASSUME NEW T \in SUBSET D, NEW x \in D \ T
      PROVE  g[T \cup {x}] = g[T] + f[x]
  <2>1. T \cup {x} \in SUBSET D
    OBVIOUS
  <2>2. /\ g[T \cup {x}] = IF a \in T \/ x = a THEN f[a] ELSE 0
        /\ g[T] = IF a \in T THEN f[a] ELSE 0
    BY <2>1
  <2> HIDE DEF g
  <2>3. CASE x = a
    BY <2>2, <2>3
  <2>4. CASE x # a
    BY <2>2, <2>4
  <2> QED BY <2>3, <2>4
<1>3. Sums(f, D, g)
  BY <1>1, <1>2 DEF Sums
<1> QED BY <1>3, SumValue

---------------------------------------------------------------------------
(* The waits of the requests.  p is a chain of n waits that starts at w:   *)
(* each request of it waits for a lock the next one has.                   *)
Chain(w, n, p) ==
    /\ p \in [0 .. n -> Workers]
    /\ p[0] = w
    /\ \A k \in 0 .. (n - 1) : p[k + 1] \in Blockers(p[k])

(* The chain of waits of every request that was made ends, at a request    *)
(* that waits for nobody or at one that is on a cycle, which PostgreSQL    *)
(* breaks.                                                                 *)
WaitsEnd ==
    \A w \in Workers :
        tx[w].pc # "idle" =>
            \E n \in 0 .. Cardinality(Workers) : \E p \in [0 .. n -> Workers] :
                /\ Chain(w, n, p)
                /\ tx[p[n]].pc # "idle"
                /\ Blockers(p[n]) = {} \/ Deadlocked(p[n])

(* What a request waits for, and what the one it waits for is doing.       *)
LEMMA WaitFacts ==
    ASSUME IInv, NEW w \in Workers, NEW v \in Blockers(w)
    PROVE  /\ v \in Workers
           /\ tx[w].pc \in {"write", "ticketed", "reserve", "kwrite"}
           /\ tx[v].pc \in {"commit", "kcommit"} \cup CookingPC
<1>1. v \in Workers /\ tx[w].pc \in {"write", "ticketed", "reserve", "kwrite"}
  BY DEF Blockers
<1>2. \/ HoldsRow(v, tx[w].o) \/ HoldsKey(v, tx[w].o) \/ HoldsTicket(v, tx[w].t)
      \/ \E s : HoldsSku(v, s)
  BY DEF Blockers
<1>3. tx[v].pc \notin CookingPC => tx[v].taken = {}
  BY <1>1 DEF IInv, RequestOK, ReqOK
<1>4. tx[v].pc \in {"commit", "kcommit"} \cup CookingPC
  BY <1>2, <1>3 DEF HoldsRow, HoldsKey, HoldsTicket, HoldsSku, CookingPC
<1> QED
  BY <1>1, <1>4

(* A chain can be followed until it ends.                                  *)
LEMMA ChainGoesOn ==
    ASSUME IInv, NEW w \in Workers, NEW N \in Nat
    PROVE  \/ \E n \in 0 .. N : \E p : Chain(w, n, p) /\ Blockers(p[n]) = {}
           \/ \E p : Chain(w, N, p)
<1> DEFINE Short(n) == ~ \E p : Chain(w, n, p)
           C == {X \in SUBSET (0 .. N) : \E n \in 0 .. N : X = 0 .. n /\ Short(n)}
<1> SUFFICES ASSUME \A n \in 0 .. N : \A p : Chain(w, n, p) => Blockers(p[n]) # {},
                    Short(N)
             PROVE  FALSE
  OBVIOUS
<1>1. 0 .. N \in C
  OBVIOUS
<1>2. IsFiniteSet(0 .. N)
  BY FS_Interval
<1>3. PICK X \in C : \A Y \in C : ~(Y \subseteq X /\ Y # X)
  <2> DEFINE D == 0 .. N
  <2>1. C \in SUBSET SUBSET D /\ C # {} /\ IsFiniteSet(D)
    BY <1>1, <1>2
  <2> HIDE DEF C, D
  <2> QED
    BY <2>1, SmallestSet
<1>4. PICK n \in 0 .. N : X = 0 .. n /\ Short(n)
  OBVIOUS
<1>5. CASE n = 0
  <2> DEFINE q == [k \in 0 .. 0 |-> w]
  <2>1. Chain(w, 0, q)
    BY DEF Chain
  <2> QED
    BY <1>4, <1>5, <2>1
<1>6. CASE n # 0
  <2>1. n - 1 \in 0 .. N /\ n \in Nat
    BY <1>6
  <2>2. ~ Short(n - 1)
    <3>1. 0 .. (n - 1) \subseteq X /\ 0 .. (n - 1) # X /\ 0 .. (n - 1) \in SUBSET (0 .. N)
      BY <1>4, <2>1
    <3>2. 0 .. (n - 1) \notin C
      BY <1>3, <3>1
    <3> QED
      BY <2>1, <3>1, <3>2
  <2>3. PICK p : Chain(w, n - 1, p)
    BY <2>2
  <2>4. PICK v : v \in Blockers(p[n - 1])
    BY <2>1, <2>3
  <2>5. v \in Workers
    BY <2>4 DEF Blockers
  <2> DEFINE q == [k \in 0 .. n |-> IF k = n THEN v ELSE p[k]]
  <2>6. q \in [0 .. n -> Workers] /\ q[0] = w
    BY <1>6, <2>1, <2>3, <2>5 DEF Chain
  <2>7. ASSUME NEW k \in 0 .. (n - 1) PROVE q[k + 1] \in Blockers(q[k])
    <3>1. CASE k = n - 1
      <4>1. q[k] = p[n - 1] /\ q[k + 1] = v
        BY <2>1, <3>1
      <4> QED
        BY <2>4, <4>1
    <3>2. CASE k # n - 1
      <4>1. k \in 0 .. (n - 1 - 1) /\ q[k] = p[k] /\ q[k + 1] = p[k + 1]
        BY <2>1, <3>2
      <4> QED
        BY <2>3, <4>1 DEF Chain
    <3> QED
      BY <3>1, <3>2
  <2>8. Chain(w, n, q)
    BY <2>6, <2>7 DEF Chain
  <2> QED
    BY <1>4, <2>8
<1> QED
  BY <1>5, <1>6

(* A chain of as many waits as there are requests passes one twice.        *)
LEMMA LongChain ==
    ASSUME NEW w \in Workers, NEW p, Chain(w, Cardinality(Workers), p)
    PROVE  \E i \in 0 .. Cardinality(Workers) : Deadlocked(p[i])
<1> DEFINE N == Cardinality(Workers)
<1>1. N \in Nat /\ IsFiniteSet(Workers)
  BY OrderTxAssumption, FS_CardinalityType
<1>2. IsFiniteSet(0 .. N) /\ Cardinality(0 .. N) = N + 1
  BY <1>1, FS_Interval
<1>3. p \in [0 .. N -> Workers]
  BY DEF Chain
<1>4. \E i, j \in 0 .. N : i < j /\ p[i] = p[j]
  <2> HIDE DEF N
  <2>0. Cardinality(Workers) = N
    BY DEF N
  <2>1. PICK i, j \in 0 .. N : i # j /\ p[i] = p[j]
    BY <1>1, <1>2, <1>3, <2>0, FS_PigeonHole
  <2> QED
    BY <1>1, <2>1
<1>5. PICK i, j \in 0 .. N : i < j /\ p[i] = p[j]
  BY <1>4
<1> DEFINE n == j - i
           q == [k \in 0 .. n |-> p[i + k]]
<1>6. n \in 1 .. N /\ i \in Nat /\ j \in Nat
  BY <1>1, <1>5
<1>7. \A k \in 0 .. n : i + k \in 0 .. N
  BY <1>1, <1>5
<1>8. q \in [0 .. n -> Workers] /\ q[0] = p[i] /\ q[n] = p[i]
  BY <1>1, <1>3, <1>5, <1>6, <1>7
<1>9. ASSUME NEW k \in 0 .. (n - 1) PROVE q[k + 1] \in Blockers(q[k])
  <2>1. i + k \in 0 .. (N - 1) /\ k \in 0 .. n /\ k + 1 \in 0 .. n
    BY <1>1, <1>5, <1>6
  <2>2. q[k] = p[i + k] /\ q[k + 1] = p[i + k + 1]
    BY <1>6, <2>1
  <2> QED
    BY <2>1, <2>2 DEF Chain
<1>10. Deadlocked(p[i])
  <2> HIDE DEF q, n
  <2> QED
    BY <1>6, <1>8, <1>9 DEF Deadlocked
<1> QED
  BY <1>10

LEMMA WaitsEndInv == IInv => WaitsEnd
<1> SUFFICES ASSUME IInv, NEW w \in Workers, tx[w].pc # "idle"
             PROVE  \E n \in 0 .. Cardinality(Workers) : \E p \in [0 .. n -> Workers] :
                        /\ Chain(w, n, p)
                        /\ tx[p[n]].pc # "idle"
                        /\ Blockers(p[n]) = {} \/ Deadlocked(p[n])
  BY DEF WaitsEnd
<1> DEFINE N == Cardinality(Workers)
<1>1. N \in Nat
  BY OrderTxAssumption, FS_CardinalityType
<1>2. ASSUME NEW n \in 0 .. N, NEW p, Chain(w, n, p)
      PROVE  tx[p[n]].pc # "idle"
  <2>1. CASE n = 0
    BY <1>2, <2>1 DEF Chain
  <2>2. CASE n # 0
    <3>1. n - 1 \in 0 .. (n - 1) /\ n - 1 \in 0 .. n /\ (n - 1) + 1 = n
      BY <1>1, <2>2
    <3>2. p[n - 1] \in Workers /\ p[n] \in Blockers(p[n - 1])
      BY <1>2, <3>1 DEF Chain
    <3> QED
      BY <3>2, WaitFacts DEF CookingPC
  <2> QED
    BY <2>1, <2>2
<1>3. ASSUME NEW n \in 0 .. N, NEW p, Chain(w, n, p), Blockers(p[n]) = {}
      PROVE  \E m \in 0 .. N : \E q \in [0 .. m -> Workers] :
                 /\ Chain(w, m, q)
                 /\ tx[q[m]].pc # "idle"
                 /\ Blockers(q[m]) = {} \/ Deadlocked(q[m])
  BY <1>2, <1>3 DEF Chain
<1>4. ASSUME NEW p, Chain(w, N, p)
      PROVE  \E m \in 0 .. N : \E q \in [0 .. m -> Workers] :
                 /\ Chain(w, m, q)
                 /\ tx[q[m]].pc # "idle"
                 /\ Blockers(q[m]) = {} \/ Deadlocked(q[m])
  <2>1. PICK m \in 0 .. N : Deadlocked(p[m])
    BY <1>4, LongChain
  <2> DEFINE q == [k \in 0 .. m |-> p[k]]
  <2>2. \A k \in 0 .. m : k \in 0 .. N /\ q[k] = p[k]
    BY <1>1
  <2>3. \A k \in 0 .. (m - 1) : k \in 0 .. (N - 1) /\ k \in 0 .. m /\ k + 1 \in 0 .. m
    BY <1>1
  <2>4. 0 \in 0 .. m /\ m \in 0 .. m
    BY <1>1
  <2>5. q \in [0 .. m -> Workers] /\ q[0] = w /\ q[m] = p[m]
    BY <1>4, <2>2, <2>4 DEF Chain
  <2>6. \A k \in 0 .. (m - 1) : q[k + 1] \in Blockers(q[k])
    BY <1>4, <2>2, <2>3 DEF Chain
  <2>7. Chain(w, m, q)
    BY <2>5, <2>6 DEF Chain
  <2> HIDE DEF q
  <2> QED
    BY <1>2, <2>1, <2>5, <2>7
<1> QED
  BY <1>1, <1>3, <1>4, ChainGoesOn

(* No request waits forever for lack of anyone who could go on: follow the *)
(* locks it waits for, and there is a request that runs or a cycle that    *)
(* the deadlock detector breaks (the FOR UPDATEs of order_tools.py and     *)
(* kitchen_tools.py and the foreign key of kitchen_tickets).  With the     *)
(* fairness of the event loop this is why EveryRequestEnds.                *)
THEOREM NobodyIsStuck == Spec => []WaitsEnd
BY Invariant, WaitsEndInv, PTL

(* Only a START_COOKING can be aborted by the deadlock detector: its tools *)
(* alone ask for a second lock while they hold one.                        *)
OnlyCooksDeadlock ==
    \A w \in Workers : Deadlocked(w) => tx[w].pc \in {"reserve", "ticketed"}

LEMMA VictimsCook == IInv => OnlyCooksDeadlock
<1> SUFFICES ASSUME IInv, NEW w \in Workers, Deadlocked(w)
             PROVE  tx[w].pc \in {"reserve", "ticketed"}
  BY DEF OnlyCooksDeadlock
<1>1. Cardinality(Workers) \in Nat
  BY OrderTxAssumption, FS_CardinalityType
<1>2. PICK n \in 1 .. Cardinality(Workers) : \E p \in [0 .. n -> Workers] :
          /\ p[0] = w /\ p[n] = w
          /\ \A k \in 0 .. (n - 1) : p[k + 1] \in Blockers(p[k])
  BY DEF Deadlocked
<1>3. PICK p \in [0 .. n -> Workers] :
          /\ p[0] = w /\ p[n] = w
          /\ \A k \in 0 .. (n - 1) : p[k + 1] \in Blockers(p[k])
  BY <1>2
<1>4. /\ 0 \in 0 .. (n - 1) /\ n - 1 \in 0 .. (n - 1) /\ (n - 1) + 1 = n
      /\ n - 1 \in 0 .. n
  BY <1>1
<1>5. p[0 + 1] \in Blockers(w) /\ w \in Blockers(p[n - 1]) /\ p[n - 1] \in Workers
  BY <1>3, <1>4
<1> QED
  BY <1>5, WaitFacts DEF CookingPC

THEOREM DeadlocksAreCooks == Spec => []OnlyCooksDeadlock
BY Invariant, VictimsCook, PTL

---------------------------------------------------------------------------
(* A request that is about to take order o out of COOKING, after a HAND_OFF. *)
Packs(w, o) ==
    /\ tx[w].o = o
    /\ \/ tx[w].pc = "packing"
       \/ /\ tx[w].pc \in {"write", "commit"}
          /\ tx[w].ev = "START_PACKING"
          /\ tx[w].cascade

(* While the order of a ticket that was handed off is still COOKING, the   *)
(* request that handed it off is on its way to START_PACKING.              *)
HandOffUnderWay ==
    \A t \in ProgramTickets :
        /\ ticket[t] = "HANDED_OFF"
        /\ order[ticketOf[t]] = "COOKING"
        => \E w \in Workers : Packs(w, ticketOf[t])

(* What a step can do to the tickets: insert one, or move one.             *)
LEMMA TicketWrites ==
    ASSUME IInv, Next
    PROVE  \/ ticket' = ticket /\ ticketOf' = ticketOf
           \/ \E t \in Tickets, o \in Orders : CreateTicket(t, o)
           \/ \E w \in Workers : CommitTicket(w) \/ CommitCooking(w)
<1>1. ASSUME NEW w \in Workers, Step(w)
      PROVE  (ticket' = ticket /\ ticketOf' = ticketOf) \/ CommitCooking(w) \/ CommitTicket(w)
  BY <1>1 DEF Step, TransitionOrderState, Commit, ReserveItem, InsertTicket,
              WriteOrderStateCooking, NotifyStaff, WriteKitchenState,
              CascadePacking, CascadeClose, CascadeTo, AbortDeadlock
<1> QED
  BY <1>1 DEF Next, CreateOrder, TransitionOrder, TransitionTicket, Crash

(* A request in flight is left alone by every step but its own.            *)
LEMMA OwnSteps ==
    ASSUME IInv, Next, ~MayCrash, NEW w \in Workers, tx[w].pc # "idle"
    PROVE  tx'[w] = tx[w] \/ Step(w)
<1>0. tx \in [Workers -> Request]
  BY DEF IInv, TypeOK
<1>1. ASSUME NEW v \in Workers, Step(v), v # w PROVE tx'[w] = tx[w]
  BY <1>0, <1>1 DEF Step, TransitionOrderState, Commit, ReserveItem, InsertTicket,
              WriteOrderStateCooking, NotifyStaff, CommitCooking, WriteKitchenState,
              CommitTicket, CascadePacking, CascadeClose, CascadeTo, AbortDeadlock
<1>2. ASSUME NEW v \in Workers, NEW o \in Orders, NEW edge \in ORDER_TRANSITIONS,
             TransitionOrder(v, o, edge)
      PROVE  tx'[w] = tx[w]
  BY <1>0, <1>2 DEF TransitionOrder
<1>3. ASSUME NEW v \in Workers, NEW t \in Tickets, NEW edge \in KITCHEN_TRANSITIONS,
             TransitionTicket(v, t, edge)
      PROVE  tx'[w] = tx[w]
  BY <1>0, <1>3 DEF TransitionTicket
<1> QED
  BY <1>1, <1>2, <1>3 DEF Next, CreateOrder, CreateTicket, Crash

(* The request keeps at it until the order has left COOKING.               *)
LEMMA PacksOn ==
    ASSUME IInv, Next, ~MayCrash, NEW w \in Workers, NEW o \in Orders, Packs(w, o),
           order[o] = "COOKING", order'[o] = "COOKING"
    PROVE  Packs(w, o)'
<1>0. /\ tx \in [Workers -> Request] /\ ReqOK(tx[w]) /\ tx[w] \in Request
      /\ order \in [Orders -> OrderState \cup {"ABSENT"}]
  BY DEF IInv, TypeOK, RequestOK
<1>1. CASE tx'[w] = tx[w]
  BY <1>1 DEF Packs
<1>2. CASE Step(w)
  <2>1. tx[w].o = o /\ tx[w].pc \in {"packing", "write", "commit"}
    BY DEF Packs
  <2>2. CASE tx[w].pc = "packing"
    <3>1. CascadeTo(w, "START_PACKING")
      <4>1. CASE AbortDeadlock(w)
        BY <2>2, <4>1, VictimsCook DEF AbortDeadlock, OnlyCooksDeadlock
      <4> QED
        BY <1>2, <2>2, <4>1 DEF Step, TransitionOrderState, Commit, ReserveItem, InsertTicket,
              WriteOrderStateCooking, NotifyStaff, CommitCooking, WriteKitchenState,
              CommitTicket, CascadePacking, CascadeClose
    <3> DEFINE edge == CHOOSE e \in ORDER_TRANSITIONS : e[1] = order[o] /\ e[2] = "START_PACKING"
    <3>2. /\ <<"COOKING", "START_PACKING", "PACKING">> \in ORDER_TRANSITIONS
          /\ "START_PACKING" \in Allowed(ORDER_TRANSITIONS, order[o])
      <4>1. <<"COOKING", "START_PACKING", "PACKING">> \in ORDER_TRANSITIONS
        BY DEF ORDER_TRANSITIONS
      <4> DEFINE e == <<"COOKING", "START_PACKING", "PACKING">>
      <4>2. e[1] = order[o] /\ e[2] = "START_PACKING"
        OBVIOUS
      <4> HIDE DEF e
      <4>3. e \in {g \in ORDER_TRANSITIONS : g[1] = order[o]}
        BY <4>1, <4>2 DEF e
      <4> QED
        BY <4>1, <4>2, <4>3 DEF Allowed
    <3>3. edge[2] = "START_PACKING"
      BY <3>2
    <3> HIDE DEF edge
    <3>4. tx'[w] = Selected(o, edge, TRUE)
      BY <1>0, <2>1, <3>1, <3>2 DEF CascadeTo, edge
    <3>5. tx'[w].o = o /\ tx'[w].pc = "write" /\ tx'[w].ev = "START_PACKING" /\ tx'[w].cascade
      BY <3>3, <3>4 DEF Selected, Idle
    <3> QED
      BY <3>5 DEF Packs
  <2>3. CASE tx[w].pc = "write"
    <3>1. tx[w].ev = "START_PACKING" /\ tx[w].cascade
      BY <2>3 DEF Packs
    <3>2. tx[w].from = "COOKING"
      BY <1>0, <2>3, <3>1 DEF ReqOK, ORDER_TRANSITIONS
    <3>3. TransitionOrderState(w)
      <4>1. CASE AbortDeadlock(w)
        BY <2>3, <4>1, VictimsCook DEF AbortDeadlock, OnlyCooksDeadlock
      <4> QED
        BY <1>2, <2>3, <4>1 DEF Step, Commit, ReserveItem, InsertTicket,
              WriteOrderStateCooking, NotifyStaff, CommitCooking, WriteKitchenState,
              CommitTicket, CascadePacking, CascadeClose
    <3>4. tx'[w] = [tx[w] EXCEPT !.pc = "commit"]
      BY <1>0, <2>1, <3>2, <3>3 DEF TransitionOrderState
    <3>5. tx'[w].o = o /\ tx'[w].pc = "commit" /\ tx'[w].ev = "START_PACKING" /\ tx'[w].cascade
      BY <1>0, <2>1, <3>1, <3>4 DEF Request
    <3> QED
      BY <3>5 DEF Packs
  <2>4. CASE tx[w].pc = "commit"
    <3>1. tx[w].to = "PACKING"
      BY <1>0, <2>4 DEF Packs, ReqOK, ORDER_TRANSITIONS
    <3>2. Commit(w)
      <4>1. CASE AbortDeadlock(w)
        BY <2>4, <4>1, VictimsCook DEF AbortDeadlock, OnlyCooksDeadlock
      <4> QED
        BY <1>2, <2>4, <4>1 DEF Step, TransitionOrderState, ReserveItem, InsertTicket,
              WriteOrderStateCooking, NotifyStaff, CommitCooking, WriteKitchenState,
              CommitTicket, CascadePacking, CascadeClose
    <3>3. order'[o] = "PACKING"
      BY <1>0, <2>1, <3>1, <3>2 DEF Commit
    <3> QED
      BY <3>3
  <2> QED
    BY <2>1, <2>2, <2>3, <2>4
<1> QED
  BY <1>1, <1>2, OwnSteps DEF Packs

LEMMA NextHandOff ==
    ASSUME ~MayCrash
    PROVE  IInv /\ HandOffUnderWay /\ [Next]_vars => HandOffUnderWay'
<1> SUFFICES ASSUME IInv, HandOffUnderWay, [Next]_vars,
                    NEW t \in ProgramTickets,
                    ticket'[t] = "HANDED_OFF", order'[ticketOf'[t]] = "COOKING"
             PROVE  \E w \in Workers : Packs(w, ticketOf[t])'
  BY DEF HandOffUnderWay
<1>0. /\ ticket \in [Tickets -> KitchenState \cup {"ABSENT"}] /\ t \in Tickets
      /\ ticketOf \in [Tickets -> Orders \cup {NoOrder}]
      /\ order \in [Orders -> OrderState \cup {"ABSENT"}]
      /\ tx \in [Workers -> Request]
      /\ TicketHasOrder
  BY DEF IInv, TypeOK, Tickets
<1>1. CASE UNCHANGED vars
  <2>1. PICK w \in Workers : Packs(w, ticketOf[t])
    BY <1>1 DEF HandOffUnderWay, vars
  <2> QED
    BY <1>1, <2>1 DEF vars, Packs
<1>2. CASE Next
  <2>1. CASE ticket' = ticket /\ ticketOf' = ticketOf
    <3> DEFINE o == ticketOf[t]
    <3>1. ticket[t] = "HANDED_OFF" /\ o \in Orders /\ t \in Issued(o)
      BY <1>0, <2>1 DEF TicketHasOrder, Issued
    <3>2. CASE order[o] = "COOKING"
      <4>1. PICK w \in Workers : Packs(w, o)
        BY <3>1, <3>2 DEF HandOffUnderWay
      <4>2. Packs(w, o)'
        BY <1>2, <2>1, <3>1, <3>2, <4>1, PacksOn
      <4> QED
        BY <2>1, <4>1, <4>2 DEF Packs
    <3>3. CASE order[o] # "COOKING"
      <4>1. order[o] \in CookedStates
        BY <3>1 DEF IInv, CookedExactlyOnce
      <4>2. ASSUME NEW q \in Orders, CreateOrder(q) PROVE FALSE
        BY <1>0, <2>1, <3>1, <3>3, <4>2 DEF CreateOrder
      <4>3. ASSUME NEW w \in Workers, Commit(w) PROVE FALSE
        <5>1. /\ <<tx[w].from, tx[w].ev, tx[w].to>> \in ORDER_TRANSITIONS
              /\ tx[w].ev # "START_COOKING"
          BY <4>3 DEF Commit, IInv, RequestOK, ReqOK
        <5>2. tx[w].to # "COOKING"
          BY <5>1 DEF ORDER_TRANSITIONS
        <5> QED
          BY <1>0, <2>1, <3>1, <3>3, <4>3, <5>2 DEF Commit
      <4>4. ASSUME NEW w \in Workers, CommitCooking(w) PROVE FALSE
        <5>1. order[tx[w].o] = tx[w].from /\ tx[w].from \in {"PAID", "CONFIRMED"}
          BY <4>4, LockedRow DEF CommitCooking, IInv, RequestOK, ReqOK
        <5>2. tx[w].o # o
          BY <4>1, <5>1 DEF CookedStates
        <5> QED
          BY <1>0, <2>1, <3>1, <3>3, <4>4, <5>2 DEF CommitCooking
      <4>5. order' = order => FALSE
        BY <2>1, <3>3
      <4> QED
        BY <1>2, <4>2, <4>3, <4>4, <4>5, OrderWrites
    <3> QED
      BY <3>2, <3>3
  <2>2. ASSUME NEW s \in Tickets, NEW o \in Orders, CreateTicket(s, o)
        PROVE  \E w \in Workers : Packs(w, ticketOf[t])'
    <3>1. s # t
      BY <2>2, OrderTxAssumption DEF CreateTicket
    <3>2. /\ ticket[t] = "HANDED_OFF" /\ ticketOf'[t] = ticketOf[t]
          /\ order' = order /\ tx' = tx
      BY <1>0, <2>2, <3>1 DEF CreateTicket
    <3>3. PICK w \in Workers : Packs(w, ticketOf[t])
      BY <3>2 DEF HandOffUnderWay
    <3> QED
      BY <3>2, <3>3 DEF Packs
  <2>3. ASSUME NEW w \in Workers, CommitTicket(w)
        PROVE  \E v \in Workers : Packs(v, ticketOf[t])'
    <3>0. /\ tx[w].t \in Tickets /\ ticket[tx[w].t] = tx[w].from
          /\ <<tx[w].from, tx[w].ev, tx[w].to>> \in KITCHEN_TRANSITIONS
      BY <2>3 DEF CommitTicket, IInv, RequestOK, ReqOK, TicketLockStable
    <3>1. CASE tx[w].t = t
      <4>1. tx[w].to = "HANDED_OFF"
        BY <1>0, <2>3, <3>1 DEF CommitTicket
      <4>2. tx[w].ev = "HAND_OFF"
        BY <3>0, <4>1 DEF KITCHEN_TRANSITIONS
      <4>3. tx'[w] = [Idle EXCEPT !.pc = "packing", !.o = ticketOf[t]] /\ ticketOf' = ticketOf
        BY <1>0, <2>3, <3>1, <4>2 DEF CommitTicket
      <4>4. tx'[w].pc = "packing" /\ tx'[w].o = ticketOf'[t]
        BY <4>3 DEF Idle
      <4> QED
        BY <4>4 DEF Packs
    <3>2. CASE tx[w].t # t
      <4>1. ticket[t] = "HANDED_OFF" /\ ticketOf' = ticketOf /\ order' = order
        BY <1>0, <2>3, <3>2 DEF CommitTicket
      <4>2. PICK v \in Workers : Packs(v, ticketOf[t])
        BY <4>1 DEF HandOffUnderWay
      <4>3. v # w
        BY <2>3, <4>2 DEF Packs, CommitTicket
      <4>4. tx'[v] = tx[v]
        BY <1>0, <2>3, <4>3 DEF CommitTicket
      <4> QED
        BY <4>1, <4>2, <4>4 DEF Packs
    <3> QED
      BY <3>1, <3>2
  <2>4. ASSUME NEW w \in Workers, CommitCooking(w)
        PROVE  \E v \in Workers : Packs(v, ticketOf[t])'
    <3> DEFINE o == ticketOf[t]
    <3>1. tx[w].t # t
      BY <1>0, <2>4 DEF CommitCooking
    <3>2. ticket[t] = "HANDED_OFF" /\ ticketOf'[t] = o
      BY <1>0, <2>4, <3>1 DEF CommitCooking
    <3>3. o \in Orders /\ t \in Issued(o)
      BY <1>0, <3>2 DEF TicketHasOrder, Issued
    <3>4. order[o] \in CookedStates
      BY <3>3 DEF IInv, CookedExactlyOnce
    <3>5. order[tx[w].o] = tx[w].from /\ tx[w].from \in {"PAID", "CONFIRMED"}
      BY <2>4, LockedRow DEF CommitCooking, IInv, RequestOK, ReqOK
    <3>6. tx[w].o # o
      BY <3>4, <3>5 DEF CookedStates
    <3>7. order[o] = "COOKING"
      BY <1>0, <2>4, <3>2, <3>3, <3>6 DEF CommitCooking
    <3>8. PICK v \in Workers : Packs(v, o)
      BY <3>2, <3>7 DEF HandOffUnderWay
    <3>9. v # w
      BY <2>4, <3>8 DEF Packs, CommitCooking
    <3>10. tx'[v] = tx[v]
      BY <1>0, <2>4, <3>9 DEF CommitCooking
    <3> QED
      BY <3>2, <3>8, <3>10 DEF Packs
  <2> QED
    BY <1>2, <2>1, <2>2, <2>3, <2>4, TicketWrites
<1> QED
  BY <1>1, <1>2

(* transition_ticket's cascade is not lost as long as the process lives:   *)
(* no conflict, deadlock or concurrent event can leave a handed-off ticket *)
(* with an order in COOKING and nobody to move it (kitchen_service.py).    *)
(* With fairness this is why HandOffAdvancesOrder.                         *)
THEOREM HandOffIsCarriedOut ==
    ASSUME ~MayCrash
    PROVE  Spec => []HandOffUnderWay
<1>1. Init => HandOffUnderWay
  BY DEF Init, HandOffUnderWay, Tickets
<1>2. IInv /\ HandOffUnderWay /\ [Next]_vars => HandOffUnderWay'
  BY NextHandOff
<1> QED
  BY <1>1, <1>2, Invariant, PTL DEF Spec

---------------------------------------------------------------------------
(* The stock and the ledger.  What a request has decremented so far is the *)
(* sum over the items it has taken.                                        *)
Taken(r, s) ==
    [p \in SaleItems(s) |->
        IF p[1] = r.o /\ p[2] \in r.taken THEN Items[p[1]][p[2]].qty ELSE 0]

DeltaOK(r) == \A s \in Tracked : r.delta[s] = SumFunction(Taken(r, s))

StockInv ==
    /\ IInv
    /\ StockMatchesLedger
    /\ \A w \in Workers : DeltaOK(tx[w])

LEMMA SaleItemsFacts ==
    ASSUME NEW s \in Tracked
    PROVE  /\ IsFiniteSet(SaleItems(s))
           /\ \A p \in SaleItems(s) :
                 /\ p = <<p[1], p[2]>> /\ p[1] \in Orders /\ p[2] \in ItemNo
                 /\ Items[p[1]][p[2]].qty \in Nat
<1>1. IsFiniteSet(ItemNo)
  BY FS_Interval, OrderTxAssumption DEF ItemNo
<1>2. IsFiniteSet(Orders \X ItemNo)
  BY <1>1, FS_Product, OrderTxAssumption
<1>3. IsFiniteSet(SaleItems(s))
  BY <1>2, FS_Subset DEF SaleItems
<1>4. ASSUME NEW p \in SaleItems(s)
      PROVE  /\ p = <<p[1], p[2]>> /\ p[1] \in Orders /\ p[2] \in ItemNo
             /\ Items[p[1]][p[2]].qty \in Nat
  <2>1. /\ p = <<p[1], p[2]>> /\ p[1] \in Orders /\ p[2] \in ItemNo
        /\ p[2] \in 1 .. Len(Items[p[1]])
    BY DEF SaleItems, Reservable
  <2>2. Items[p[1]] \in Seq(Item)
    BY <2>1, OrderTxAssumption
  <2>3. Items[p[1]][p[2]] \in Item
    BY <2>1, <2>2
  <2> QED BY <2>1, <2>3 DEF Item
<1> QED BY <1>3, <1>4

LEMMA TakenType ==
    ASSUME NEW r, NEW s \in Tracked
    PROVE  Taken(r, s) \in [SaleItems(s) -> Int]
BY SaleItemsFacts DEF Taken

(* A request that has taken nothing has decremented nothing.               *)
LEMMA NothingTaken ==
    ASSUME NEW r, r.taken = {}, \A s \in Tracked : r.delta[s] = 0
    PROVE  DeltaOK(r)
<1> SUFFICES ASSUME NEW s \in Tracked PROVE SumFunction(Taken(r, s)) = 0
  BY DEF DeltaOK
<1>1. \A p \in SaleItems(s) : Taken(r, s)[p] = 0
  BY DEF Taken
<1> QED BY <1>1, TakenType, SaleItemsFacts, SumOfNone

LEMMA SameTaken ==
    ASSUME NEW r, NEW q, r.o = q.o, r.taken = q.taken, r.delta = q.delta, DeltaOK(q)
    PROVE  DeltaOK(r)
BY DEF DeltaOK, Taken

(* Reserving one more item adds one term.                                  *)
LEMMA ReserveItemStock ==
    ASSUME IInv, NEW w \in Workers, ReserveItem(w), DeltaOK(tx[w])
    PROVE  DeltaOK(tx'[w])
<1> DEFINE o == tx[w].o
           i == tx[w].i
           it == NextItem(w)
           r == tx'[w]
<1>1. tx[w] \in Request /\ ReqOK(tx[w]) /\ tx[w].pc = "reserve"
  BY DEF ReserveItem, IInv, TypeOK, RequestOK
<1>2. /\ o \in Orders /\ i \in 1 .. Len(Items[o]) /\ i \in ItemNo
      /\ tx[w].taken = {k \in Reservable(o) : k < i}
  BY <1>1, OrderTxAssumption DEF ReserveItem, ItemsDone, ReqOK, CookingPC, Request, ItemNo
<1>3. it = Items[o][i] /\ it \in Item
  BY <1>2, OrderTxAssumption DEF NextItem
<1>4. r = IF it.sku \in Tracked
          THEN [tx[w] EXCEPT !.i = @ + 1, !.taken = @ \cup {tx[w].i}, !.delta[it.sku] = @ + it.qty]
          ELSE [tx[w] EXCEPT !.i = @ + 1]
  BY DEF ReserveItem, IInv, TypeOK
<1>5. CASE it.sku \notin Tracked
  <2>1. r.o = o /\ r.taken = tx[w].taken /\ r.delta = tx[w].delta
    BY <1>1, <1>4, <1>5 DEF Request
  <2>2. DeltaOK(r)
    BY <2>1, SameTaken
  <2> QED BY <2>2
<1>6. CASE it.sku \in Tracked
  <2>1. /\ r.o = o /\ r.taken = tx[w].taken \cup {i}
        /\ r.delta = [tx[w].delta EXCEPT ![it.sku] = @ + it.qty]
    BY <1>1, <1>4, <1>6 DEF Request
  <2>2. tx[w].delta \in [Tracked -> Int] /\ it.qty \in Nat /\ i \notin tx[w].taken /\ i \in Int
    BY <1>1, <1>2, <1>3 DEF Request, Item
  <2>3. i \in Reservable(o)
    BY <1>2, <1>3, <1>6 DEF Reservable
  <2> SUFFICES ASSUME NEW s \in Tracked PROVE r.delta[s] = SumFunction(Taken(r, s))
    BY DEF DeltaOK
  <2> HIDE DEF r, it
  <2> DEFINE a == <<o, i>>
             f == Taken(tx[w], s)
             k == Taken(r, s)
             h == [p \in SaleItems(s) |-> IF p = a THEN it.qty ELSE 0]
  <2>4. a \in SaleItems(s) <=> s = it.sku
    BY <1>2, <1>3, <2>3 DEF SaleItems
  <2>5. h \in [SaleItems(s) -> Int] /\ f \in [SaleItems(s) -> Int] /\ k \in [SaleItems(s) -> Int]
    BY <2>2, TakenType
  <2>6. ASSUME NEW p \in SaleItems(s) PROVE k[p] = f[p] + h[p]
    <3>1. p = <<p[1], p[2]>> /\ Items[p[1]][p[2]].qty \in Nat
      BY SaleItemsFacts
    <3>2. /\ k[p] = IF p[1] = o /\ (p[2] \in tx[w].taken \/ p[2] = i) THEN Items[p[1]][p[2]].qty ELSE 0
          /\ f[p] = IF p[1] = o /\ p[2] \in tx[w].taken THEN Items[p[1]][p[2]].qty ELSE 0
          /\ h[p] = IF p = a THEN it.qty ELSE 0
      BY <2>1 DEF Taken
    <3>3. p = a <=> p[1] = o /\ p[2] = i
      BY <3>1
    <3> HIDE DEF f, h, k, a
    <3> QED BY <1>3, <2>2, <3>1, <3>2, <3>3
  <2>7. SumFunction(h) = IF a \in SaleItems(s) THEN it.qty ELSE 0
    <3>1. /\ IsFiniteSet(SaleItems(s)) /\ h \in [SaleItems(s) -> Int]
          /\ \A p \in SaleItems(s) : h[p] = IF p = a THEN it.qty ELSE 0
      BY <2>5, SaleItemsFacts
    <3> HIDE DEF f, h, k, a
    <3>2. CASE a \in SaleItems(s)
      BY <3>1, <3>2, SumOfOne
    <3>3. CASE a \notin SaleItems(s)
      BY <3>1, <3>3, SumOfNone
    <3> QED BY <3>2, <3>3
  <2>8. SumFunction(k) = SumFunction(f) + SumFunction(h) /\ SumFunction(f) \in Int
    <3> HIDE DEF f, h, k
    <3> QED BY <2>5, <2>6, SaleItemsFacts, SumOfSums
  <2>9. tx[w].delta[s] = SumFunction(f)
    BY DEF DeltaOK
  <2>10. r.delta[s] = IF s = it.sku THEN tx[w].delta[s] + it.qty ELSE tx[w].delta[s]
    BY <2>1, <2>2
  <2> HIDE DEF f, h, k, a
  <2> QED BY <2>2, <2>4, <2>7, <2>8, <2>9, <2>10 DEF k
<1> QED BY <1>5, <1>6

(* The commit of START_COOKING adds to the ledger what it takes from stock.*)
LEMMA CommitCookingStock ==
    ASSUME IInv, StockMatchesLedger, NEW w \in Workers, CommitCooking(w), DeltaOK(tx[w])
    PROVE  StockMatchesLedger'
<1>1. tx[w] \in Request /\ tx[w].o \in Orders
  BY DEF CommitCooking, IInv, TypeOK, RequestOK, ReqOK, CookingPC
<1>2. /\ sales \in [Orders -> [ItemNo -> Nat]] /\ stock \in [Tracked -> Int]
      /\ InitStock \in [Tracked -> Int] /\ tx[w].delta \in [Tracked -> Int]
  BY <1>1, OrderTxAssumption DEF IInv, TypeOK, Request
<1>3. \A o \in Orders, i \in ItemNo :
         sales'[o][i] = IF o = tx[w].o /\ i \in tx[w].taken THEN sales[o][i] + 1 ELSE sales[o][i]
  BY <1>1, <1>2 DEF CommitCooking
<1> SUFFICES ASSUME NEW s \in Tracked PROVE stock'[s] = InitStock[s] - Sold(s)'
  BY DEF StockMatchesLedger
<1> DEFINE D == SaleItems(s)
           f == [p \in D |-> sales[p[1]][p[2]] * Items[p[1]][p[2]].qty]
           h == Taken(tx[w], s)
           k == [p \in D |-> sales'[p[1]][p[2]] * Items[p[1]][p[2]].qty]
<1>4. ASSUME NEW p \in D
      PROVE  /\ sales[p[1]][p[2]] \in Nat /\ Items[p[1]][p[2]].qty \in Nat
             /\ sales'[p[1]][p[2]] = IF p[1] = tx[w].o /\ p[2] \in tx[w].taken
                                     THEN sales[p[1]][p[2]] + 1 ELSE sales[p[1]][p[2]]
             /\ h[p] = IF p[1] = tx[w].o /\ p[2] \in tx[w].taken
                       THEN Items[p[1]][p[2]].qty ELSE 0
  BY <1>2, <1>3, SaleItemsFacts DEF Taken
<1>5. \A n, q \in Nat : n * q \in Int /\ (n + 1) * q \in Int /\ (n + 1) * q = n * q + q
  OBVIOUS
<1>6. ASSUME NEW p \in D
      PROVE  /\ f[p] \in Int /\ k[p] \in Int
             /\ k[p] = f[p] + h[p]
  <2> DEFINE n == sales[p[1]][p[2]]
             m == sales'[p[1]][p[2]]
             q == Items[p[1]][p[2]].qty
  <2>1. f[p] = n * q /\ k[p] = m * q
    OBVIOUS
  <2>2. n \in Nat /\ q \in Nat /\ ((m = n + 1 /\ h[p] = q) \/ (m = n /\ h[p] = 0))
    BY <1>4
  <2> HIDE DEF n, m, q, f, h, k
  <2> QED BY <1>5, <2>1, <2>2
<1>7. f \in [D -> Int] /\ k \in [D -> Int]
  BY <1>6
<1>8. h \in [D -> Int]
  BY TakenType
<1>9. SumFunction(k) = SumFunction(f) + SumFunction(h) /\ SumFunction(f) \in Int
  <2> HIDE DEF f, h, k, D
  <2> QED BY <1>6, <1>7, <1>8, SaleItemsFacts, SumOfSums DEF D
<1>10. Sold(s) = SumFunction(f) /\ Sold(s)' = SumFunction(k)
  BY DEF Sold, SaleItems, Reservable, ItemNo
<1>11. tx[w].delta[s] = SumFunction(h) /\ stock[s] = InitStock[s] - Sold(s)
  BY DEF DeltaOK, StockMatchesLedger
<1>12. stock'[s] = stock[s] - tx[w].delta[s]
  BY DEF CommitCooking
<1> HIDE DEF f, h, k, D
<1> QED BY <1>2, <1>9, <1>10, <1>11, <1>12

(* Every other step leaves stock and ledger alone, and a request either    *)
(* keeps what it has taken or starts or ends with nothing.                 *)
Carries(w) ==
    \/ tx'[w].o = tx[w].o /\ tx'[w].taken = tx[w].taken /\ tx'[w].delta = tx[w].delta
    \/ tx'[w].taken = {} /\ \A s \in Tracked : tx'[w].delta[s] = 0

LEMMA CarriesDelta ==
    ASSUME NEW w \in Workers, DeltaOK(tx[w]), Carries(w)
    PROVE  DeltaOK(tx'[w])
BY SameTaken, NothingTaken DEF Carries

(* A step that commits no cooking.                                         *)
LEMMA CarriesStock ==
    ASSUME StockInv, IInv', UNCHANGED <<stock, sales>>, \A w \in Workers : DeltaOK(tx'[w])
    PROVE  StockInv'
<1>1. StockMatchesLedger'
  BY DEF StockInv, StockMatchesLedger, Sold, SaleItems, Reservable, ItemNo
<1>2. \A w \in Workers : DeltaOK(tx[w])'
  BY DEF DeltaOK, Taken, SaleItems, Reservable, ItemNo
<1> QED BY <1>1, <1>2 DEF StockInv

(* A step in which request w keeps what it has taken, or has nothing.      *)
LEMMA RequestStock ==
    ASSUME StockInv, IInv', NEW w \in Workers, UNCHANGED <<stock, sales>>,
           \A v \in Workers \ {w} : tx'[v] = tx[v], Carries(w)
    PROVE  StockInv'
<1>1. ASSUME NEW v \in Workers PROVE DeltaOK(tx'[v])
  <2>1. DeltaOK(tx[v])
    BY DEF StockInv
  <2>2. CASE v = w
    BY <2>1, <2>2, CarriesDelta
  <2>3. CASE v # w
    BY <2>1, <2>3
  <2> QED BY <2>2, <2>3
<1> QED BY <1>1, CarriesStock

(* The request a program starts from, and its end, have taken nothing.     *)
Blank(r) == r.taken = {} /\ \A s \in Tracked : r.delta[s] = 0

LEMMA BlankRequests ==
    /\ Blank(Idle)
    /\ \A o, edge, cascade : Blank(Selected(o, edge, cascade))
    /\ \A o : Blank([Idle EXCEPT !.pc = "packing", !.o = o])
    /\ \A o : Blank([Idle EXCEPT !.pc = "closing", !.o = o])
    /\ \A t, from, ev, to :
          Blank([Idle EXCEPT !.pc = "kwrite", !.t = t, !.from = from, !.ev = ev, !.to = to])
BY DEF Blank, Idle, NoDelta, Selected

LEMMA NextStock == StockInv /\ [Next]_vars => StockInv'
<1> SUFFICES ASSUME StockInv, [Next]_vars PROVE StockInv'
  OBVIOUS
<1>1. IInv /\ IInv' /\ tx \in [Workers -> Request]
  BY NextInv DEF StockInv, IInv, TypeOK
<1>2. CASE tx' = tx /\ UNCHANGED <<stock, sales>>
  BY <1>1, <1>2, CarriesStock DEF StockInv
<1>3. ASSUME NEW w \in Workers, NEW r, Blank(r), tx' = [tx EXCEPT ![w] = r],
             UNCHANGED <<stock, sales>>
      PROVE  StockInv'
  <2>1. tx'[w] = r /\ \A v \in Workers \ {w} : tx'[v] = tx[v]
    BY <1>1, <1>3
  <2> QED BY <1>1, <1>3, <2>1, RequestStock DEF Carries, Blank
<1>4. ASSUME NEW w \in Workers, NEW r, r.o = tx[w].o, r.taken = tx[w].taken,
             r.delta = tx[w].delta, tx' = [tx EXCEPT ![w] = r], UNCHANGED <<stock, sales>>
      PROVE  StockInv'
  <2>1. tx'[w] = r /\ \A v \in Workers \ {w} : tx'[v] = tx[v]
    BY <1>1, <1>4
  <2> QED BY <1>1, <1>4, <2>1, RequestStock DEF Carries
<1>5. ASSUME NEW o \in Orders, CreateOrder(o) PROVE StockInv'
  BY <1>2, <1>5 DEF CreateOrder
<1>6. ASSUME NEW t \in Tickets, NEW o \in Orders, CreateTicket(t, o) PROVE StockInv'
  BY <1>2, <1>6 DEF CreateTicket
<1>7. ASSUME NEW w \in Workers, NEW o \in Orders, NEW edge \in ORDER_TRANSITIONS,
             TransitionOrder(w, o, edge)
      PROVE  StockInv'
  BY <1>3, <1>7, BlankRequests DEF TransitionOrder
<1>8. ASSUME NEW w \in Workers, NEW t \in Tickets, NEW edge \in KITCHEN_TRANSITIONS,
             TransitionTicket(w, t, edge)
      PROVE  StockInv'
  <2> DEFINE r == [Idle EXCEPT !.pc = "kwrite", !.t = t, !.from = edge[1],
                               !.ev = edge[2], !.to = edge[3]]
  <2>1. Blank(r)
    BY BlankRequests
  <2>2. tx' = [tx EXCEPT ![w] = r] /\ UNCHANGED <<stock, sales>>
    BY <1>8 DEF TransitionTicket
  <2> HIDE DEF r
  <2> QED BY <1>3, <2>1, <2>2
<1>9. CASE Crash
  <2>1. \A w \in Workers : DeltaOK(tx'[w])
    BY <1>9, BlankRequests, NothingTaken DEF Crash, Blank
  <2> QED BY <1>1, <1>9, <2>1, CarriesStock DEF Crash
<1>10. ASSUME NEW w \in Workers, Step(w) PROVE StockInv'
  <2>0. tx[w] \in Request
    BY <1>1
  <2>1. CASE TransitionOrderState(w)
    <3>1. CASE tx' = [tx EXCEPT ![w] = Idle]
      BY <1>3, <2>1, <3>1, BlankRequests DEF TransitionOrderState
    <3>2. CASE tx' = [tx EXCEPT ![w] = [tx[w] EXCEPT !.pc = "commit"]]
      BY <1>4, <2>0, <2>1, <3>2 DEF TransitionOrderState, Request
    <3> QED BY <2>1, <3>1, <3>2 DEF TransitionOrderState
  <2>2. CASE Commit(w)
    <3>1. CASE tx' = [tx EXCEPT ![w] = Idle]
      BY <1>3, <2>2, <3>1, BlankRequests DEF Commit
    <3>2. CASE tx' = [tx EXCEPT ![w] = [Idle EXCEPT !.pc = "closing", !.o = tx[w].o]]
      BY <1>3, <2>2, <3>2, BlankRequests DEF Commit
    <3> QED BY <2>2, <3>1, <3>2 DEF Commit
  <2>3. CASE ReserveItem(w)
    <3>1. ASSUME NEW v \in Workers PROVE DeltaOK(tx'[v])
      <4>1. DeltaOK(tx[v])
        BY DEF StockInv
      <4>2. CASE v = w
        BY <1>1, <2>3, <4>1, <4>2, ReserveItemStock
      <4>3. CASE v # w
        <5>1. tx'[v] = tx[v]
          BY <1>1, <2>3, <4>3 DEF ReserveItem
        <5> QED BY <4>1, <5>1
      <4> QED BY <4>2, <4>3
    <3> QED BY <1>1, <2>3, <3>1, CarriesStock DEF ReserveItem
  <2>4. ASSUME NEW t \in ProgramTickets, InsertTicket(w, t) PROVE StockInv'
    <3>1. tx' = [tx EXCEPT ![w] = [tx[w] EXCEPT !.pc = "ticketed", !.t = t]]
      BY <1>1, <2>4 DEF InsertTicket
    <3> QED BY <1>4, <2>0, <2>4, <3>1 DEF InsertTicket, Request
  <2>5. CASE WriteOrderStateCooking(w)
    <3>1. CASE tx' = [tx EXCEPT ![w] = Idle]
      BY <1>3, <2>5, <3>1, BlankRequests DEF WriteOrderStateCooking
    <3>2. CASE tx' = [tx EXCEPT ![w] = [tx[w] EXCEPT !.pc = "notify", !.from = order[tx[w].o]]]
      BY <1>4, <2>0, <2>5, <3>2 DEF WriteOrderStateCooking, Request
    <3> QED BY <2>5, <3>1, <3>2 DEF WriteOrderStateCooking
  <2>6. CASE NotifyStaff(w)
    <3>1. tx' = [tx EXCEPT ![w] = [tx[w] EXCEPT !.pc = "cooked"]]
      BY <1>1, <2>6 DEF NotifyStaff
    <3> QED BY <1>4, <2>0, <2>6, <3>1 DEF NotifyStaff, Request
  <2>7. CASE CommitCooking(w)
    <3>1. DeltaOK(tx[w])
      BY DEF StockInv
    <3>2. StockMatchesLedger'
      BY <1>1, <2>7, <3>1, CommitCookingStock DEF StockInv
    <3>3. ASSUME NEW v \in Workers PROVE DeltaOK(tx'[v])
      <4>1. tx'[v] = IF v = w THEN Idle ELSE tx[v]
        BY <1>1, <2>7 DEF CommitCooking
      <4> QED BY <4>1, BlankRequests, NothingTaken DEF Blank, StockInv
    <3>4. \A v \in Workers : DeltaOK(tx[v])'
      BY <3>3 DEF DeltaOK, Taken, SaleItems, Reservable, ItemNo
    <3> QED BY <1>1, <3>2, <3>4 DEF StockInv
  <2>8. CASE WriteKitchenState(w)
    <3>1. CASE tx' = [tx EXCEPT ![w] = Idle]
      BY <1>3, <2>8, <3>1, BlankRequests DEF WriteKitchenState
    <3>2. CASE tx' = [tx EXCEPT ![w] = [tx[w] EXCEPT !.pc = "kcommit"]]
      BY <1>4, <2>0, <2>8, <3>2 DEF WriteKitchenState, Request
    <3> QED BY <2>8, <3>1, <3>2 DEF WriteKitchenState
  <2>9. CASE CommitTicket(w)
    <3>1. CASE tx' = [tx EXCEPT ![w] = Idle]
      BY <1>3, <2>9, <3>1, BlankRequests DEF CommitTicket
    <3>2. CASE tx' = [tx EXCEPT ![w] = [Idle EXCEPT !.pc = "packing", !.o = ticketOf[tx[w].t]]]
      BY <1>3, <2>9, <3>2, BlankRequests DEF CommitTicket
    <3> QED BY <2>9, <3>1, <3>2 DEF CommitTicket
  <2>10. CASE CascadePacking(w) \/ CascadeClose(w)
    <3>1. PICK ev : CascadeTo(w, ev)
      BY <2>10 DEF CascadePacking, CascadeClose
    <3>2. \E r : Blank(r) /\ tx' = [tx EXCEPT ![w] = r]
      BY <3>1, BlankRequests DEF CascadeTo
    <3> QED BY <1>3, <3>1, <3>2 DEF CascadeTo
  <2>11. CASE AbortDeadlock(w)
    BY <1>3, <2>11, BlankRequests DEF AbortDeadlock
  <2> QED
    BY <1>10, <2>1, <2>2, <2>3, <2>4, <2>5, <2>6, <2>7, <2>8, <2>9, <2>10, <2>11 DEF Step
<1>11. CASE UNCHANGED vars
  BY <1>2, <1>11 DEF vars
<1> QED
  BY <1>5, <1>6, <1>7, <1>8, <1>9, <1>10, <1>11 DEF Next

LEMMA InitStockInv == Init => StockInv
<1> SUFFICES ASSUME Init PROVE StockInv
  OBVIOUS
<1>1. IInv
  BY InitInv
<1>2. \A w \in Workers : DeltaOK(tx[w])
  BY BlankRequests, NothingTaken DEF Init, Blank
<1>3. ASSUME NEW s \in Tracked PROVE stock[s] = InitStock[s] - Sold(s)
  <2> DEFINE f == [p \in SaleItems(s) |-> sales[p[1]][p[2]] * Items[p[1]][p[2]].qty]
  <2>1. \A p \in SaleItems(s) : f[p] = 0
    BY SaleItemsFacts DEF Init
  <2>2. f \in [SaleItems(s) -> Int]
    BY <2>1
  <2>3. Sold(s) = SumFunction(f)
    BY DEF Sold
  <2> HIDE DEF f
  <2>4. Sold(s) = 0
    BY <2>1, <2>2, <2>3, SaleItemsFacts, SumOfNone
  <2> QED BY <2>4, OrderTxAssumption DEF Init
<1> QED BY <1>1, <1>2, <1>3 DEF StockInv, StockMatchesLedger

(* reserve_inventory_items: the quantity on hand of every sku is what was  *)
(* there less what the SALE rows say, for any orders, item lists (one sku  *)
(* on several lines included) and concurrent requests.                     *)
THEOREM StockAddsUp == Spec => []StockMatchesLedger
<1>1. StockInv => StockMatchesLedger
  BY DEF StockInv
<1> QED BY <1>1, InitStockInv, NextStock, PTL DEF Spec

===========================================================================
