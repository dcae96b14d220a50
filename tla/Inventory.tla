----------------------------- MODULE Inventory -----------------------------
(***************************************************************************)
(* The inventory table, its movements ledger and the writers that race on  *)
(* a row: sales (reserve_inventory_items), restocks by the agent, the      *)
(* admin's inline edit, and the sync from the menu.  A writer locks the    *)
(* row (SELECT ... FOR UPDATE), computes from what it read, and commits.   *)
(* A sale of several items takes one row after the other (OrderTx); here   *)
(* it is one writer per row.                                               *)
(***************************************************************************)
EXTENDS Integers

CONSTANTS
    Skus,       \* skus of the menu
    Workers,    \* concurrent writers (bound)
    Amounts,    \* quantities sold, restocked or consumed
    Counts,     \* quantities an admin may type, negative too
    Low, High   \* bound: the quantities explored

ASSUME InventoryAssumption ==
    /\ Amounts \subseteq Nat \ {0}
    /\ Counts \subseteq Int
    /\ Low \in Int /\ High \in Int

VARIABLES
    listed,     \* skus with an inventory row
    quantity,   \* inventory.quantity
    state,      \* inventory.state
    ledger,     \* the sum of the deltas in inventory_movements, per sku
    req         \* the writers in flight

vars == <<listed, quantity, state, ledger, req>>

InventoryState == {"AVAILABLE", "LOW_STOCK", "CRITICAL", "OUT_OF_STOCK"}

Op == {"sale", "restock", "consume", "set"}

NoReq == [op |-> "idle", sku |-> "none", n |-> 0, read |-> 0]

InventoryTypeOK ==
    /\ listed \subseteq Skus
    /\ quantity \in [Skus -> Int]
    /\ state \in [Skus -> InventoryState]
    /\ ledger \in [Skus -> Int]
    /\ req \in [Workers -> [op : Op \cup {"idle"}, sku : Skus \cup {"none"},
                            n : Int, read : Int]]

Init ==
    /\ listed = {}
    /\ quantity = [s \in Skus |-> 0]
    /\ state = [s \in Skus |-> "OUT_OF_STOCK"]
    /\ ledger = [s \in Skus |-> 0]
    /\ req = [w \in Workers |-> NoReq]

(* A slip: the thresholds' name for a full shelf is not a state.           *)
LooseStateFor(q) == IF q <= 0 THEN "OUT_OF_STOCK" ELSE "IN_STOCK"

(* The state set_inventory_state derives from a quantity.                  *)
StateFor(q) ==
    CASE q <= 0 -> "OUT_OF_STOCK"
      [] q \in 1 .. 4 -> "CRITICAL"
      [] q \in 5 .. 19 -> "LOW_STOCK"
      [] OTHER -> "AVAILABLE"

---------------------------------------------------------------------------
(* sync_from_menu: every active product's sku gets a row, at 0 and         *)
(* OUT_OF_STOCK, unless it has one.                                        *)
SyncFromMenu(active) ==
    /\ ~(active \subseteq listed)
    /\ listed' = listed \cup active
    /\ UNCHANGED <<quantity, state, ledger, req>>

(* Whether a writer holds the row of a sku.                                *)
Locked(s) == \E w \in Workers : req[w].op # "idle" /\ req[w].sku = s

(* A slip: SELECT without FOR UPDATE.                                      *)
UnlockedRow(w, op, s, n) ==
    /\ req[w].op = "idle" /\ s \in listed
    /\ op = "consume" => quantity[s] >= n
    /\ req' = [req EXCEPT ![w] = [op |-> op, sku |-> s, n |-> n, read |-> quantity[s]]]
    /\ UNCHANGED <<listed, quantity, state, ledger>>

(* SELECT ... FOR UPDATE.  A sku without a row is skipped by a sale and    *)
(* refused by the others; consuming more than there is is refused.         *)
LockRow(w, op, s, n) ==
    /\ req[w].op = "idle"
    /\ s \in listed /\ ~Locked(s)
    /\ op = "consume" => quantity[s] >= n
    /\ req' = [req EXCEPT ![w] = [op |-> op, sku |-> s, n |-> n, read |-> quantity[s]]]
    /\ UNCHANGED <<listed, quantity, state, ledger>>

(* reserve_inventory_items takes the row of an item.                       *)
Sell(w, s, n) == LockRow(w, "sale", s, n)

(* decrement_inventory takes the row.                                      *)
Consume(w, s, n) == LockRow(w, "consume", s, n)

(* The agent's apply phase looks for the row, then increment_inventory     *)
(* takes it; rows are never deleted, so the first look decides.            *)
ApplyRestock(w, s, n) == LockRow(w, "restock", s, n)

(* The admin's inline edit, PATCH /inventory/{sku}.                        *)
EditQuantity(w, s, n) == LockRow(w, "set", s, n)

(* The committed quantity of the row and the movement that explains it.    *)
Write(w, q, delta) ==
    /\ q \in Low .. High
    /\ quantity' = [quantity EXCEPT ![req[w].sku] = q]
    /\ ledger' = [ledger EXCEPT ![req[w].sku] = @ + delta]
    /\ req' = [req EXCEPT ![w] = NoReq]
    /\ UNCHANGED listed

(* reserve_inventory_items (below zero is allowed) and decrement_inventory. *)
Decrement(w) ==
    /\ req[w].op \in {"sale", "consume"}
    /\ Write(w, quantity[req[w].sku] - req[w].n, -req[w].n)
    /\ UNCHANGED state

(* increment_inventory.                                                    *)
IncrementInventory(w) ==
    /\ req[w].op = "restock"
    /\ Write(w, quantity[req[w].sku] + req[w].n, req[w].n)
    /\ UNCHANGED state

(* set_inventory_quantity and set_inventory_state: the typed value, the    *)
(* difference to what was read, and the state of the new value.            *)
SetQuantity(w) ==
    /\ req[w].op = "set"
    /\ Write(w, req[w].n, req[w].n - req[w].read)
    /\ state' = [state EXCEPT ![req[w].sku] = StateFor(req[w].n)]

(* The writer fails or the process restarts before the commit.             *)
Rollback(w) ==
    /\ req[w].op # "idle"
    /\ req' = [req EXCEPT ![w] = NoReq]
    /\ UNCHANGED <<listed, quantity, state, ledger>>

Next ==
    \/ \E active \in SUBSET Skus : SyncFromMenu(active)
    \/ \E w \in Workers, s \in Skus :
          \/ \E n \in Amounts : Sell(w, s, n) \/ Consume(w, s, n) \/ ApplyRestock(w, s, n)
          \/ \E n \in Counts : EditQuantity(w, s, n)
    \/ \E w \in Workers :
          Decrement(w) \/ IncrementInventory(w) \/ SetQuantity(w) \/ Rollback(w)

Spec == Init /\ [][Next]_vars

---------------------------------------------------------------------------
(* However sales, restocks and corrections race, the quantity of a row is  *)
(* what its movements add up to: no update is lost and none is recorded    *)
(* twice, a correction's delta included.                                   *)
LedgerMatchesQuantity == \A s \in Skus : quantity[s] = ledger[s]

============================================================================
