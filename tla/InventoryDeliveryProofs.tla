---------------------- MODULE InventoryDeliveryProofs ----------------------
(***************************************************************************)
(* The two tables whose requests race on single rows.  The ledger of       *)
(* Inventory, whose writers lock the row, adds up for any skus, writers    *)
(* and quantities; no stage of a Delivery task, whose requests read the    *)
(* row without a lock, is skipped, for any tasks and requests.  And the    *)
(* back office composed of five parts implements each of them, which makes *)
(* what is proved of a part a fact about the whole.                        *)
(***************************************************************************)
EXTENDS MCBackOffice, CheckoutProofs, TLAPS

(* A writer in flight has a sku with a row and the quantity it read there  *)
(* is the committed one, since nobody else has the row.                    *)
WriterOK(w) ==
    req[w].op # "idle" => /\ req[w].sku \in Skus
                          /\ req[w].read = quantity[req[w].sku]

(* No two writers have one row.                                            *)
RowsDistinct ==
    \A w, v \in Workers :
        (w # v /\ req[w].op # "idle" /\ req[v].op # "idle") => req[w].sku # req[v].sku

InventoryInv ==
    /\ InventoryTypeOK
    /\ LedgerMatchesQuantity
    /\ \A w \in Workers : WriterOK(w)
    /\ RowsDistinct

---------------------------------------------------------------------------
(* set_inventory_state derives one of the four states.                     *)
LEMMA StateForType == ASSUME NEW q \in Int PROVE StateFor(q) \in InventoryState
BY DEF StateFor, InventoryState

(* A writer that takes a free row reads the committed quantity.            *)
LEMMA LockRowInv ==
    ASSUME InventoryInv, NEW w \in Workers, NEW op \in Op, NEW s \in Skus, NEW n \in Int,
           LockRow(w, op, s, n)
    PROVE  InventoryInv'
<1> USE DEF LockRow, Op
<1>1. req' = [req EXCEPT ![w] = [op |-> op, sku |-> s, n |-> n, read |-> quantity[s]]]
  OBVIOUS
<1>2. InventoryTypeOK'
  BY DEF InventoryInv, InventoryTypeOK
<1>3. LedgerMatchesQuantity'
  BY DEF InventoryInv, LedgerMatchesQuantity
<1>4. ASSUME NEW v \in Workers PROVE WriterOK(v)'
  BY <1>1 DEF InventoryInv, InventoryTypeOK, WriterOK
<1>5. RowsDistinct'
  BY <1>1 DEF InventoryInv, InventoryTypeOK, RowsDistinct, Locked
<1> QED BY <1>2, <1>3, <1>4, <1>5 DEF InventoryInv

(* A commit whose delta is the change of the quantity.                     *)
LEMMA WriteInv ==
    ASSUME InventoryInv, NEW w \in Workers, NEW q \in Int, NEW delta \in Int,
           req[w].op # "idle", delta = q - quantity[req[w].sku],
           Write(w, q, delta), state' \in [Skus -> InventoryState]
    PROVE  InventoryInv'
<1> DEFINE s == req[w].sku
<1>1. s \in Skus
  BY DEF InventoryInv, WriterOK
<1>2. /\ quantity' = [quantity EXCEPT ![s] = q]
      /\ ledger' = [ledger EXCEPT ![s] = @ + delta]
      /\ req' = [req EXCEPT ![w] = NoReq]
      /\ listed' = listed
  BY DEF Write
<1>3. InventoryTypeOK'
  BY <1>1, <1>2 DEF InventoryInv, InventoryTypeOK, NoReq
<1>4. LedgerMatchesQuantity'
  BY <1>1, <1>2 DEF InventoryInv, InventoryTypeOK, LedgerMatchesQuantity
<1>5. ASSUME NEW v \in Workers PROVE WriterOK(v)'
  BY <1>1, <1>2 DEF InventoryInv, InventoryTypeOK, WriterOK, RowsDistinct, NoReq
<1>6. RowsDistinct'
  BY <1>2 DEF InventoryInv, InventoryTypeOK, RowsDistinct, NoReq
<1> QED BY <1>3, <1>4, <1>5, <1>6 DEF InventoryInv

(* A writer that fails leaves the tables alone.                            *)
LEMMA RollbackInv ==
    ASSUME InventoryInv, NEW w \in Workers, Rollback(w)
    PROVE  InventoryInv'
<1>1. InventoryTypeOK'
  BY DEF Rollback, InventoryInv, InventoryTypeOK, NoReq
<1>2. LedgerMatchesQuantity'
  BY DEF Rollback, InventoryInv, LedgerMatchesQuantity
<1>3. ASSUME NEW v \in Workers PROVE WriterOK(v)'
  BY DEF Rollback, InventoryInv, InventoryTypeOK, WriterOK, NoReq
<1>4. RowsDistinct'
  BY DEF Rollback, InventoryInv, InventoryTypeOK, RowsDistinct, NoReq
<1> QED BY <1>1, <1>2, <1>3, <1>4 DEF InventoryInv

(* Every step of every writer keeps the invariant.                         *)
LEMMA InventoryNextInv == InventoryInv /\ [Next]_vars => InventoryInv'
<1> SUFFICES ASSUME InventoryInv, [Next]_vars PROVE InventoryInv'
  OBVIOUS
<1>1. ASSUME NEW active \in SUBSET Skus, SyncFromMenu(active) PROVE InventoryInv'
  <2>1. UNCHANGED <<quantity, state, ledger, req>> /\ listed' = listed \cup active
    BY <1>1 DEF SyncFromMenu
  <2> QED
    BY <2>1 DEF InventoryInv, InventoryTypeOK, LedgerMatchesQuantity, WriterOK, RowsDistinct
<1>2. ASSUME NEW w \in Workers, NEW s \in Skus, NEW n \in Amounts,
             Sell(w, s, n) \/ Consume(w, s, n) \/ ApplyRestock(w, s, n)
      PROVE InventoryInv'
  <2>1. PICK op \in Op : LockRow(w, op, s, n)
    BY <1>2 DEF Sell, Consume, ApplyRestock, Op
  <2> QED BY <2>1, InventoryAssumption, LockRowInv
<1>3. ASSUME NEW w \in Workers, NEW s \in Skus, NEW n \in Counts, EditQuantity(w, s, n)
      PROVE InventoryInv'
  <2>1. "set" \in Op BY DEF Op
  <2> QED BY <1>3, <2>1, InventoryAssumption, LockRowInv DEF EditQuantity
<1>4. ASSUME NEW w \in Workers,
             Decrement(w) \/ IncrementInventory(w) \/ SetQuantity(w) \/ Rollback(w)
      PROVE InventoryInv'
  <2>1. /\ req[w].n \in Int /\ req[w].read \in Int
        /\ req[w].op # "idle" => /\ req[w].sku \in Skus /\ quantity[req[w].sku] \in Int
                                 /\ req[w].read = quantity[req[w].sku]
    BY DEF InventoryInv, InventoryTypeOK, WriterOK
  <2>2. state \in [Skus -> InventoryState]
    BY DEF InventoryInv, InventoryTypeOK
  <2>3. CASE Decrement(w)
    <3> DEFINE d == -req[w].n
    <3>1. /\ req[w].op # "idle" /\ Write(w, quantity[req[w].sku] - req[w].n, d)
          /\ state' \in [Skus -> InventoryState]
      BY <2>2, <2>3 DEF Decrement
    <3>2. /\ quantity[req[w].sku] - req[w].n \in Int /\ d \in Int
          /\ d = (quantity[req[w].sku] - req[w].n) - quantity[req[w].sku]
      BY <2>1, <3>1
    <3> HIDE DEF d
    <3> QED BY <3>1, <3>2, WriteInv
  <2>4. CASE IncrementInventory(w)
    <3>1. /\ req[w].op # "idle" /\ Write(w, quantity[req[w].sku] + req[w].n, req[w].n)
          /\ state' \in [Skus -> InventoryState]
      BY <2>2, <2>4 DEF IncrementInventory
    <3>2. /\ quantity[req[w].sku] + req[w].n \in Int
          /\ req[w].n = (quantity[req[w].sku] + req[w].n) - quantity[req[w].sku]
      BY <2>1, <3>1
    <3> QED BY <2>1, <3>1, <3>2, WriteInv
  <2>5. CASE SetQuantity(w)
    <3>1. state' \in [Skus -> InventoryState]
      BY <2>1, <2>2, <2>5, StateForType DEF SetQuantity
    <3> QED BY <2>1, <2>5, <3>1, WriteInv DEF SetQuantity
  <2>6. CASE Rollback(w)
    BY <2>6, RollbackInv
  <2> QED BY <1>4, <2>3, <2>4, <2>5, <2>6
<1>5. CASE UNCHANGED vars
  BY <1>5 DEF vars, InventoryInv, InventoryTypeOK, LedgerMatchesQuantity, WriterOK, RowsDistinct
<1> QED BY <1>1, <1>2, <1>3, <1>4, <1>5 DEF Next

(* However many sales, restocks, corrections and syncs race on however     *)
(* many rows, the state keeps its types.                                   *)
THEOREM InventoryTypeCorrect == Spec => []InventoryTypeOK
<1>1. Init => InventoryInv
  BY DEF Init, InventoryInv, InventoryTypeOK, LedgerMatchesQuantity, WriterOK, RowsDistinct,
         NoReq, InventoryState
<1>2. InventoryInv => InventoryTypeOK
  BY DEF InventoryInv
<1> QED BY <1>1, <1>2, InventoryNextInv, PTL DEF Spec

(* However many sales, restocks, corrections and syncs race on however     *)
(* many rows, the quantity of each is what its movements add up to.        *)
THEOREM LedgerAddsUp == Spec => []LedgerMatchesQuantity
<1>1. Init => InventoryInv
  BY DEF Init, InventoryInv, InventoryTypeOK, LedgerMatchesQuantity, WriterOK, RowsDistinct,
         NoReq, InventoryState
<1>2. InventoryInv => LedgerMatchesQuantity
  BY DEF InventoryInv
<1> QED BY <1>1, <1>2, InventoryNextInv, PTL DEF Spec

---------------------------------------------------------------------------
(* What a request of transition_task is about to write follows, in the     *)
(* table, a state that the task has had: the one the request read, which   *)
(* others may have overwritten since.                                      *)
Due(r) ==
    r.pc # "idle" =>
        /\ r.t \in Tasks /\ r.to \in DeliveryState
        /\ \E s \in been[r.t] : s # r.to /\ IsEdge(DELIVERY_TRANSITIONS, s, r.to)

(* The state of a task is one it has had.                                  *)
StateWasHad == \A t \in Tasks : task[t] # "ABSENT" => task[t] \in been[t]

DeliveryInv ==
    /\ DeliveryTypeOK
    /\ NoStageSkipped
    /\ StateWasHad
    /\ \A w \in Clients : Due(treq[w])

(* The table leads from one state to another.                              *)
LEMMA DeliveryEdges ==
    ASSUME NEW edge \in DELIVERY_TRANSITIONS
    PROVE  /\ edge[1] \in DeliveryState /\ edge[3] \in DeliveryState
           /\ edge[1] # edge[3] /\ edge[1] # "ABSENT"
           /\ IsEdge(DELIVERY_TRANSITIONS, edge[1], edge[3])
BY DEF DELIVERY_TRANSITIONS, DeliveryState, IsEdge

LEMMA NoRequest ==
    /\ NoTaskReq.pc = "idle"
    /\ NoTaskReq \in [pc : {"idle", "write", "commit"}, t : Tasks \cup {"none"},
                          to : DeliveryState \cup {"none"}]
BY DEF NoTaskReq

LEMMA DeliveryInitInv == DeliveryInit => DeliveryInv
<1> SUFFICES ASSUME DeliveryInit PROVE DeliveryInv
  OBVIOUS
<1>1. /\ task = [t \in Tasks |-> "ABSENT"] /\ been = [t \in Tasks |-> {}]
      /\ treq = [w \in Clients |-> NoTaskReq]
  BY DEF DeliveryInit
<1>2. DeliveryTypeOK
  BY <1>1, NoRequest DEF DeliveryTypeOK
<1>3. NoStageSkipped /\ StateWasHad
  BY <1>1 DEF NoStageSkipped, StateWasHad
<1>4. \A w \in Clients : Due(treq[w])
  BY <1>1, NoRequest DEF Due
<1> QED BY <1>2, <1>3, <1>4 DEF DeliveryInv

(* A step of requests alone.                                               *)
LEMMA RequestInv ==
    ASSUME DeliveryInv, UNCHANGED <<task, been>>,
           treq' \in [Clients -> [pc : {"idle", "write", "commit"}, t : Tasks \cup {"none"},
                                  to : DeliveryState \cup {"none"}]],
           \A w \in Clients : Due(treq'[w])
    PROVE  DeliveryInv'
<1>1. DeliveryTypeOK'
  BY DEF DeliveryInv, DeliveryTypeOK
<1>2. NoStageSkipped' /\ StateWasHad'
  BY DEF DeliveryInv, NoStageSkipped, StateWasHad
<1>3. \A w \in Clients : Due(treq[w])'
  BY DEF Due
<1> QED BY <1>1, <1>2, <1>3 DEF DeliveryInv

(* A commit of a state that follows one the task has had, or of the first. *)
LEMMA SetTaskInv ==
    ASSUME DeliveryInv, NEW t \in Tasks, NEW s \in DeliveryState,
           SetTask(t, s),
           \/ s = "UNASSIGNED"
           \/ \E r \in been[t] :
                r # s /\ IsEdge(DELIVERY_TRANSITIONS, r, s),
           treq' \in [Clients -> [pc : {"idle", "write", "commit"}, t : Tasks \cup {"none"},
                                  to : DeliveryState \cup {"none"}]],
           \A w \in Clients : Due(treq'[w])
    PROVE  DeliveryInv'
<1>1. /\ task \in [Tasks -> DeliveryState \cup {"ABSENT"}]
      /\ been \in [Tasks -> SUBSET DeliveryState]
  BY DEF DeliveryInv, DeliveryTypeOK
<1>2. /\ task' = [task EXCEPT ![t] = s]
      /\ been' = [been EXCEPT ![t] = been[t] \cup {s}]
  BY DEF SetTask
<1>3. \A u \in Tasks : /\ task'[u] = IF u = t THEN s ELSE task[u]
                       /\ been'[u] = IF u = t THEN been[t] \cup {s} ELSE been[u]
  BY <1>1, <1>2
<1>4. DeliveryTypeOK'
  BY <1>1, <1>2 DEF DeliveryTypeOK
<1>5. NoStageSkipped'
  <2> SUFFICES ASSUME NEW u \in Tasks, NEW x \in been'[u], x # "UNASSIGNED"
               PROVE  \E r \in been'[u] :
                         r # x /\ IsEdge(DELIVERY_TRANSITIONS, r, x)
    BY DEF NoStageSkipped, IsEdge, DELIVERY_TRANSITIONS
  <2>1. CASE x \in been[u]
    BY <1>3, <2>1 DEF DeliveryInv, NoStageSkipped
  <2>2. CASE x \notin been[u]
    BY <1>3, <2>2
  <2> QED BY <2>1, <2>2
<1>6. StateWasHad'
  BY <1>3 DEF DeliveryInv, StateWasHad
<1>7. \A w \in Clients : Due(treq[w])'
  <2> SUFFICES ASSUME NEW w \in Clients PROVE Due(treq[w])'
    OBVIOUS
  <2>1. Due(treq'[w])
    OBVIOUS
  <2> QED BY <1>3, <2>1 DEF Due
<1> QED BY <1>4, <1>5, <1>6, <1>7 DEF DeliveryInv

(* Every step of the requests, and a restart, keeps the invariant.         *)
LEMMA DeliveryNextInv == DeliveryInv /\ [DeliveryNext]_deliveryVars => DeliveryInv'
<1> SUFFICES ASSUME DeliveryInv, [DeliveryNext]_deliveryVars PROVE DeliveryInv'
  OBVIOUS
<1> DEFINE Req == [pc : {"idle", "write", "commit"}, t : Tasks \cup {"none"},
                   to : DeliveryState \cup {"none"}]
<1>0. treq \in [Clients -> Req] /\ \A w \in Clients : Due(treq[w])
  BY DEF DeliveryInv, DeliveryTypeOK
<1>1. ASSUME NEW t \in Tasks, CreateTask(t) PROVE DeliveryInv'
  <2>1. SetTask(t, "UNASSIGNED") /\ UNCHANGED treq
    BY <1>1 DEF CreateTask
  <2>2. "UNASSIGNED" \in DeliveryState
    BY DEF DeliveryState
  <2> QED BY <1>0, <2>1, <2>2, SetTaskInv
<1>2. ASSUME NEW w \in Clients, NEW t \in Tasks, NEW edge \in DELIVERY_TRANSITIONS,
             ReadTask(w, t, edge)
      PROVE DeliveryInv'
  <2> DEFINE to == [pc |-> "write", t |-> t, to |-> edge[3]]
  <2>1. /\ task[t] = edge[1] /\ treq' = [treq EXCEPT ![w] = to] /\ UNCHANGED <<task, been>>
    BY <1>2 DEF ReadTask
  <2>2. edge[1] \in been[t]
    BY <2>1, DeliveryEdges DEF DeliveryInv, StateWasHad
  <2>3. to \in Req /\ Due(to)
    BY <2>2, DeliveryEdges DEF Due
  <2> HIDE DEF to, Req
  <2>4. treq' \in [Clients -> Req] /\ \A v \in Clients : Due(treq'[v])
    BY <1>0, <2>1, <2>3
  <2> QED BY <2>1, <2>4, RequestInv DEF Req
<1>3. ASSUME NEW w \in Clients, WriteTask(w) PROVE DeliveryInv'
  <2> DEFINE to == [treq[w] EXCEPT !.pc = "commit"]
  <2>1. /\ treq[w].pc = "write" /\ treq' = [treq EXCEPT ![w] = to] /\ UNCHANGED <<task, been>>
    BY <1>0, <1>3 DEF WriteTask
  <2>2. to \in Req /\ to.t = treq[w].t /\ to.to = treq[w].to
    BY <1>0
  <2>3. Due(to)
    BY <1>0, <2>1, <2>2 DEF Due
  <2> HIDE DEF to, Req
  <2>4. treq' \in [Clients -> Req] /\ \A v \in Clients : Due(treq'[v])
    BY <1>0, <2>1, <2>2, <2>3
  <2> QED BY <2>1, <2>4, RequestInv DEF Req
<1>4. ASSUME NEW w \in Clients, CommitTask(w) PROVE DeliveryInv'
  <2>1. /\ treq[w].pc = "commit" /\ treq' = [treq EXCEPT ![w] = NoTaskReq]
        /\ SetTask(treq[w].t, treq[w].to)
    BY <1>4 DEF CommitTask
  <2>2. /\ treq[w].t \in Tasks /\ treq[w].to \in DeliveryState
        /\ \E r \in been[treq[w].t] :
             r # treq[w].to /\ IsEdge(DELIVERY_TRANSITIONS, r, treq[w].to)
    BY <1>0, <2>1 DEF Due
  <2>3. NoTaskReq \in Req /\ Due(NoTaskReq)
    BY NoRequest DEF Due
  <2> HIDE DEF Req
  <2>4. treq' \in [Clients -> Req] /\ \A v \in Clients : Due(treq'[v])
    BY <1>0, <2>1, <2>3
  <2> QED BY <2>1, <2>2, <2>4, SetTaskInv DEF Req
<1>5. CASE DeliveryCrash
  <2>1. treq' = [w \in Clients |-> NoTaskReq] /\ UNCHANGED <<task, been>>
    BY <1>5 DEF DeliveryCrash
  <2>2. treq' \in [Clients -> Req] /\ \A v \in Clients : Due(treq'[v])
    BY <2>1, NoRequest DEF Due
  <2> QED BY <2>1, <2>2, RequestInv
<1>6. CASE UNCHANGED deliveryVars
  <2>1. UNCHANGED <<task, been, treq>>
    BY <1>6 DEF deliveryVars
  <2> QED BY <1>0, <2>1, RequestInv
<1> QED BY <1>1, <1>2, <1>3, <1>4, <1>5, <1>6 DEF DeliveryNext

(* However many tasks and requests, the rows and requests are well formed. *)
THEOREM DeliveryTypeCorrect == DeliverySpec => []DeliveryTypeOK
<1>1. DeliveryInv => DeliveryTypeOK
  BY DEF DeliveryInv
<1> QED BY <1>1, DeliveryInitInv, DeliveryNextInv, PTL DEF DeliverySpec

(* Although transition_task re-checks nothing before its plain UPDATE, no  *)
(* task reaches a state without having had one that leads there.           *)
THEOREM StagesInOrder == DeliverySpec => []NoStageSkipped
<1>1. DeliveryInv => NoStageSkipped
  BY DEF DeliveryInv
<1> QED BY <1>1, DeliveryInitInv, DeliveryNextInv, PTL DEF DeliverySpec

---------------------------------------------------------------------------
(* The shop around the orders, as it is model-checked: a step of one table *)
(* is a step of its own module and leaves the others alone.                *)
LEMMA BackOfficeSteps ==
    ASSUME [BackOfficeNext]_<<part, checkoutVars, vars, deliveryVars, menuVars, schedVars>>
    PROVE  /\ [CheckoutNext]_checkoutVars
           /\ [Next]_vars
           /\ [DeliveryNext]_deliveryVars
           /\ [MenuNext]_menuVars
           /\ [ScheduleNext]_schedVars
<1>1. CASE UNCHANGED <<part, checkoutVars, vars, deliveryVars, menuVars, schedVars>> BY <1>1
<1>2. CASE BackOfficeNext BY <1>2 DEF BackOfficeNext
<1> QED BY <1>1, <1>2

(* Side by side, each table keeps its own specification: what the theorems *)
(* prove of Checkout, Inventory, Delivery, Menu and Schedule holds of the  *)
(* shop that composes them.                                                *)
THEOREM ShopImplementsParts ==
    BackOfficeSpec => CheckoutSpec /\ Spec /\ DeliverySpec /\ MenuSpec /\ ScheduleSpec
<1>1. BackOfficeInit => CheckoutInit /\ Init /\ DeliveryInit /\ MenuInit /\ ScheduleInit
    BY DEF BackOfficeInit
<1>2. [BackOfficeNext]_<<part, checkoutVars, vars, deliveryVars, menuVars, schedVars>>
        => /\ [CheckoutNext]_checkoutVars /\ [Next]_vars /\ [DeliveryNext]_deliveryVars
           /\ [MenuNext]_menuVars /\ [ScheduleNext]_schedVars
    BY BackOfficeSteps
<1> QED BY <1>1, <1>2, PTL DEF BackOfficeSpec, CheckoutSpec, Spec, DeliverySpec, MenuSpec, ScheduleSpec

(* In the composed shop the checkouts and the delivery tasks are well      *)
(* formed, whatever else goes on.                                          *)
THEOREM ShopTypeCorrect == BackOfficeSpec => []ShopTypeOK
<1>1. CheckoutTypeOK /\ DeliveryTypeOK => ShopTypeOK BY DEF ShopTypeOK
<1> QED BY <1>1, ShopImplementsParts, CheckoutTypeCorrect, DeliveryTypeCorrect, PTL

============================================================================
