# Sieshka in TLA+

Sieshka is a restaurant back end: customers check out on a web page, pay by card
through YooKassa or in cash, the kitchen works on tickets, couriers deliver. The
server is one Python process (FastAPI, asyncio) over PostgreSQL; every request is
a coroutine with its own database session, so requests interleave at every
`await`, and what keeps them apart is row locks and re-checks. This directory
models that machinery, model-checks it with TLC and proves its core with TLAPS.

## The system's parts

| Part | State | Operations | What is hard |
|---|---|---|---|
| Lifecycle graphs (`app/domains/*`) | three transition tables | look-up of allowed events | consulted before any lock |
| Orders (`order_service`, `order_tools`, `order_programs`) | `orders`, `inventory`, `inventory_movements`, `kitchen_tickets` | create, transition (one program per event) | START_COOKING is a long transaction over four tables; it races CANCEL, payments and other orders' reservations |
| Kitchen (`kitchen_service`, `kitchen_tools`) | `kitchen_tickets` | create, transition, HAND_OFF cascade | the cascade runs after the commit, in further transactions |
| Payments (`payment_service`, `webhooks/yookassa`) | `payments`, `idempotency_keys`, traces in memory | create, verify, confirm, fail | provider calls between transactions; notifications late, repeated, untrue, or of a trace and a payment that do not belong together; restarts |
| Checkout (`routes/checkout`, `customer_service`, thanks page) | `idempotency_keys` payload, `customers`, the order's prices | claim, find or create the customer, price, create, pay or cook, save, answer again | a series of commits, any of which may be the last; events whose failure nobody looks at; promotions and fees change meanwhile |
| Delivery tasks (`delivery_service`) | `delivery_tasks` | create, transition | read-modify-write without a lock |
| Inventory (`inventory_service`, `inventory_tools`, `inventory_ledger`, `inventory_agent*`) | `inventory`, `inventory_movements` | sync, sale, restock, consume, correct | several writers of one row, a ledger that has to add up |
| Staff cards (`max_staff_notify`, `webhooks/max`, `staff_dispatch`) | messages in MAX, `max_message_refs` | announce, press, edit | cards edited one by one while others press buttons |
| Zone and promotion agents (`zone_agent*`, `promotion_agent*`, `routes/admin`) | `delivery_zones`, `promotions` | collect a command, apply it (create, update, activate, deactivate, expire, archive), the zone form | what was validated may have changed when it is applied; rows are found by name |
| Menu (`menu_agent*`, `menu_import_*`, admin routes) | `categories`, `products` | create and update of both, CSV import, sku batch | rows found by name, skus chosen from a snapshot, writers that lock in different orders |
| Schedule (`schedule_agent*`, `schedule_service`, pages) | `schedule_windows` | set hours, reset to default, for today or for good; show the pages | "today" ends while commands and pages are under way |
| Web pages, admin API, receipts, telemetry | none of their own | rendering, thin calls | not modelled |

Orders call the kitchen only through the program (a ticket is inserted in the
order's transaction); the kitchen calls back into orders after HAND_OFF; payments
call orders (PAYMENT_CONFIRMED in their own transaction, START_COOKING in another);
checkout calls orders and payments; the webhook of MAX calls kitchen and orders and
then edits cards. All of them share the `orders` row and its lock. The back office (menu,
schedule, zones, promotions, inventory, deliveries) changes tables of its own; checkout
reads prices, fees and promotions from them and keeps what it read in the order.

## Modules

**Lifecycles** holds the tables as sets of edges `<<from, event, to>>`. `ABSENT`
is a row that does not exist.

**OrderTx** models `transition_order` and `transition_ticket` as requests
(`tx[w]`, w in Workers) that take one step per statement that matters: the
unlocked read and choice of program (`TransitionOrder`, `TransitionTicket`), each
item of the reservation (`ReserveItem`), the ticket insert, the locked re-check
and write, the staff notification, the commit, the HAND_OFF cascade. Writes stay
in `tx[w]` until the commit. Locks are functions of the step reached (`HoldsRow`,
`HoldsKey`, `HoldsSku`, `HoldsTicket`): FOR UPDATE, and the KEY SHARE lock a
foreign key takes on the parent row, which conflicts with FOR UPDATE. `Blockers`
is whom a request waits for; a cycle is broken by PostgreSQL's deadlock detector
(`AbortDeadlock`). `Crash` is a restart: open transactions are rolled back and
whatever a request still had to do after a commit is lost. Every other order event
(CONFIRM, CANCEL, PAYMENT_*, ...) is a simple program: read, lock, re-check, write.

**OrderContract** is the abstract specification: every request is one atomic step,
and the step into COOKING issues one ticket and one sale per reservable item.
`OrderTx!ImplementsContract` is the refinement (committed tables map to the
contract's variables, everything before a commit is a stutter).

**Payments** models `PaymentService` and the YooKassa webhook: the provider call,
the insert (KEY SHARE on the order), the REQUEST_PAYMENT program (FOR UPDATE), the
commit whatever the program's result was, notifications, verification against
the provider, the idempotency key that is committed first, the settlement and the
START_COOKING that follows. A notification names a trace and a payment, two fields that
the code never compares (`Bodies` says which pairs arrive): the trace picks the order and
the key, the payment the row. `create_payment` is the only code that records traces, one
per payment, so a trace is named by its payment; `keys` holds what `idempotency_keys` does,
the key (trace and outcome) and the payment in its payload. `Matched(p)` says that the keys
show no body that named `p` with another's trace or `p`'s trace with another payment. An
order starts CONFIRMED, or as a DRAFT if its checkout's CONFIRM failed. Order events from
elsewhere are single steps (`ApiEvent`); OrderTx shows that requests behave so. The events
route accepts every event, also those that stand for a payment: `steered` is a history
variable with the orders it moved in a payment's or the checkout's stead (`Steers`). The provider (`ProviderCreates`,
`ProviderErrs`, `ProviderSettles`) is external: it may reject, time out after having
created the payment, capture, cancel, and notify any number of times.

**PaymentContract** is what this promises: a payment is started and recorded once; a
notification is claimed once for its trace and outcome; a claim settles the payment it names
in one step with the move of its trace's order; a payment that was only claimed under its
own trace is settled once, and an order that waits for such a payment, its only one, is not
left behind by the settlement; an order is sent to the kitchen only under a claim of its own.
Who notified whom, how often and in which order, locks and restarts do not show. `Payments!ImplementsPayments` is the refinement.

**Checkout** models POST /api/orders as a series of commits with a failure or a
restart possible between any two, and repeated calls with the same key: the claim of
the key, the customer found by phone and inserted in a second statement (`FindCustomer`,
`CreateCustomer`: two calls of a new customer may both find nobody, and then the second
insert fails), the items, the promotion (`resolve_promo_effect`), the fee and the total
(`compute_checkout_total`), the order's row (`CreateOrder`), payment or cooking, the saved
answer. `SendEvent` may leave the order as it is although the event is allowed: any failure
in `transition_order` only shows in its result, which the checkout does not look at (for
START_COOKING it logs it), so a call may go on with a DRAFT order and answer 200. Which promotion has the code, what the goods cost and what a zone charges is any
of a small set at the moment each is read, since admins edit them meanwhile; `bill` is
what the order keeps. `ThanksFee` is the remainder the thanks page shows.

**Delivery** models the unlocked read, check and write of a task.

**Inventory** models all writers of an inventory row and of its ledger: sales, the
restock agent, consumption, the admin's inline edit and the sync from the menu.

**Menu** models everything that writes categories and products. A writer's transaction
is a list of statements still `todo`, taken one at a time: validation, SELECT ... FOR UPDATE
in two parts (`FindCategory` sees a snapshot, `LockCategory` waits and looks again), the
searches for namesakes and skus, the INSERT or UPDATE with its unique index and foreign
key, the commit. An import resolves all its lines first (`ResolveLines`, `DedupeLines`) and
then finds and writes them one by one; the sku batch reads the skus in use, then the
products without one, then assigns. `c` and `p` are a transaction's own versions of rows,
`owned` and `shared` its locks; `MenuBlockers` and `AbortMenuDeadlock` are PostgreSQL's waits
and deadlock detector. Names are told apart up to case, `Norm` up to white space (the
import compares names without it, its SELECT does not). `Slugs` lists the codes the batch
tries for a name; the code's numbering never ends, the model's does with the list.

**Schedule** models the rows by period and date, the clock (`Tick`, with midnight), the
commands from collection to commit, and the pages, which bind their date, query, and
look at the clock again. **ScheduleBoard** is the abstract specification: usual hours per
period, special hours for the current day, gone the next day, one change at a time.
`Schedule!ImplementsBoard` is the refinement.

**StaffCards** models, for one order, the buttons each staff member sees, the
presses, and the sequence of notify calls each request makes: a call reads what it
was not told (`Build`), then edits one card after the other (`SendOrEdit`). An edit
with an empty keyboard sends no attachments, so the old buttons may stay: both
outcomes are explored. START_COOKING's calls are made before its commit. Presses
that are out of date are rejected by the tables. Recipients of a role are listed
in row order, which is taken to be the same for every call; a member is listed once and
has one role (`staff.role`, and `max_user_id` is unique).

**AgentApply** models the apply phase of the zone and promotion agents, one SQL
statement per step under READ COMMITTED: early validation (`Validate`), SELECT ... FOR
UPDATE in two parts, the rows its snapshot shows (`Find`) and, once nobody else has
them, the second look that PostgreSQL takes at rows it had to wait for (`Lock`), the
search for namesakes (`Check`), the INSERT or UPDATE that waits for or collides with
another entry of the unique index (`Write`), the commit. `table` says which of the two
tables a behaviour is about: they differ in the graph, in which rows a name finds
and in what is indexed (active zones' names, promotions' codes, but not promotions'
names). `Form` is the admin's zone form, which looks a zone up by id and then
names it. The validation of several statements is one step: nothing relies on it.

**OrderTxProofs**, **CheckoutProofs**, **PaymentsProofs**, **MenuProofs**, **AgentApplyProofs**,
**ScheduleProofs** and **StaffCardsProofs** hold the proofs about the modules they are named
after, **InventoryDeliveryProofs** those about Inventory, Delivery and the composed back office. The MC modules give the constants
their values. **MCBackOffice** puts Checkout, Inventory, Delivery, Menu and Schedule into
one run: none writes a row of another, so a behaviour exercises one of them (`part`).

## Runs

| Run | Shows |
|---|---|
| `order_stock` | two orders, skus in opposite order, one sku without inventory, 2 requests, restarts: `CookedExactlyOnce`, `StockMatchesLedger`, refinement of the contract |
| `order_races` | one order, 2 program tickets and a manual one, 2 requests: types, lock stability, only legal edges, every request ends, a HAND_OFF moves its order |
| `order_phantom` | expected violation: a card for a ticket that was rolled back |
| `payments` | 2 orders, 2 payments, 2 requests, bodies with any trace and any payment, untrue and repeated, CANCEL and START_COOKING from outside, restarts: outcomes match the provider; an order that was not steered is paid only under a trace of its own with a captured payment; the capture of an order's only payment has moved the order, unless bodies paired it otherwise; refinement of PaymentContract |
| `payment_live` | one order, the provider's own bodies (each payment with its trace), no restarts, with fairness: captures are recorded, orders leave PAYMENT_PENDING |
| `payment_handed` | expected violation: a deadlock between two creations loses a payment whose link was handed out |
| `checkout_retry` | expected violation: after a failed call its key is refused for ever |
| `back_office` | the tables around the orders, one part per behaviour (`MCBackOffice`): a card and a cash key, 3 orders, 2 calls; a sku with quantities -3..6; a task; 2 menu writers with 10 commands; 2 editors and a page around one midnight. One order per key, every answer backed, the thanks page adds up; quantity equals the ledger; no stage skipped in spite of lost updates; skus unique, categories resolved by name stay the ones named, commits keep to their fields, every menu write ends; the schedule implements its board, commands take effect at once, a covered day has no gap |
| `menu_skus` | expected violation: the sku batch overwrites a sku that was set meanwhile |
| `agent_apply` | 2 rows, 2 names, a code, 2 commands at a time, zones or promotions, restarts: active names and codes unique, a locked row is still the one the command named, only legal steps, every apply phase ends |
| `zone_form` | expected violation: the edit of a renamed zone lands on the zone that got its name |
| `staff_cards` | two cooks, a courier, a staff member, 2 requests: the first cook's card never loses its button, every ticket gets handed off |

Bounds. Two concurrent requests suffice for the races that were found and for every
pairwise lock conflict; two orders with two shared skus are the smallest
reservation deadlock; an order without a reservable item is the case in which
nothing serialises two START_COOKING requests before their ticket inserts; three
order ids leave room for a checkout to create an order too many. A second payment
is what lets an old notification race a newer payment; two orders with a payment each are
the smallest case in which a body can name the trace of one order and the payment of the
other. `AckStops` says whether a 200 ends the provider's repetitions: for safety it does not
(any body may come at any time, `unsent` is then never emptied), for liveness it does, which
is the harder case. Quantities cross the
thresholds 0 and 5. One inventory row and one task are enough since no writer takes
two; two zones are enough for a name to move from one to the other. The menu's commands
are chosen to meet: renames against lookups, two categories as parents of each other, a
sku set by hand against the batch, a file with two names that differ in white space; three
commands in a behaviour, two at a time, let a third find what two left behind. A day has
four ticks (before, in, at the end of and after the last whole second of a window), two
days make one midnight, and two commands are enough for one to undo or race the other.
A fixed discount above the price of the goods is among the promotions. Deadlock checking is off where the system comes to rest when
ids run out or all orders are closed.

Fairness. A request that was made goes on: the event loop resumes its coroutine and
PostgreSQL queues lock requests in order, hence strong fairness of a request's
steps. In `payment_live` the provider repeats its own notification (the payment with its
trace) until it is answered 200, and its API, asked about it again and again, answers
eventually. In `staff_cards` the
first cook presses a useful button sooner or later; nothing is assumed of others.
`MenuWriteEnds` assumes strong fairness of each menu transaction's next statement, for
the reason given for requests; the abort of a deadlock is one of these steps.
Restarts are excluded where a property is about something only kept in memory
(`HandOffAdvancesOrder`, `CaptureIsRecorded`, `PendingEnds`, `KitchenIsServed`).

## What the code does that its comments do not say

Five disagreements are runs of their own (see `findings` in PROJECT.json). The
models show more windows, each at its hazard:

- the events route accepts PAYMENT_CONFIRMED and START_COOKING for a card order that nobody
  paid (such orders are `steered`; `payments` sends CANCEL and START_COOKING, the proofs
  take any set of events);
- `verify_provider_payment` does not compare the order of the payment's row with the order
  of the trace: a body that names the trace of one order and the captured payment of another
  records that payment, moves the order of the trace, and uses up the trace's key, so that
  the trace's own capture is later skipped as a duplicate (`Matched` tells these payments
  apart, and `PaidOnlyIfCharged` says exactly what is left: the order has a payment of its
  own, started under that trace, but the one captured may be another);
- the checkout ignores what CONFIRM, REQUEST_PAYMENT and, for cash, START_COOKING return, so
  it may answer 200 for an order that is still a DRAFT (`ReplyIsBacked` says what holds);
- `pay_order` checks CONFIRMED in one session and creates the payment in another;
- a notification that overtakes the commit of the payment's row is dropped with 200
  (`payment_live` excludes it by `EarlyCancel = FALSE`);
- a START_COOKING that fails after the payment was recorded is not repeated;
- of two requests that read a delivery task ON_ROUTE, the second can turn DELIVERED
  into FAILED;
- two concurrent creates of one promotion name both insert (no unique index, and FOR
  UPDATE locks nothing when there is no row); every later command on the name is
  refused because it finds two rows;
- a zone name that was created and deactivated twice leaves two retired rows, neither
  of which can be activated again;
- two first checkouts of one customer at a time: the loser's insert violates the unique
  phone, and its key stays claimed (a case of `checkout_retry`);
- two categories can be made parents of each other: only a category being its own parent
  is refused, and the two updates need not even be concurrent;
- product names have no unique index: two creates, or a create and an import, may both
  insert a name; from then on every import skips it as ambiguous;
- an import resolves category names without a lock, so a rename in between puts its rows
  into a category of another name (`CategoryStands` is about commands);
- a page binds its date before it asks for the rows and reads the clock after, so one that
  is opened at midnight shows yesterday's hours against today's time;
- `schedule_agent._run_apply` uses `trace_id` unassigned when the write fails: the rollback
  happens, the answer is an exception;
- the CSV export of movements finds the price of a sale by the product that has the sku
  now, so a sku that moved to another product leaves old sales without a price;
- sales and restocks leave `inventory.state` as it was;
- START_COOKING's notify calls read the order before the commit, so admin and staff
  cards keep the CANCEL button until the next kitchen event; a slow HAND_OFF request
  can overwrite the staff card after the courier has moved on.

## Proofs

`OrderTxProofs` proves, for any sets of orders, skus, tickets and requests, any item
lists and with restarts allowed:

- `TypeCorrect`, `RowLocks`, `CookedOnce`: `TypeOK`, `RowLockStable` and
  `CookedExactlyOnce` are invariants;
- `StockAddsUp`: `StockMatchesLedger`, also with one sku on several lines of an order;
- `OrderSteps`, `TicketSteps`: only edges of the tables are committed;
- `Refinement`: `Spec => Abstract!Contract`;
- `NobodyIsStuck`: follow the locks a request waits for, and there is a request that waits
  for nobody or one on a circle, which PostgreSQL breaks (`WaitsEnd`); `DeadlocksAreCooks`:
  only a START_COOKING can be the victim (`OnlyCooksDeadlock`);
- `HandOffIsCarriedOut`: without restarts, a handed-off ticket never has an order in COOKING
  and nobody about to move it (`HandOffUnderWay`).

The assumptions are those of `OrderTxAssumption` (finitely many order ids and requests, ids distinct
from the null values, the two ticket id sets are disjoint, item lists are bounded by `MaxItems`).
The invariants are not inductive alone. `IInv` adds: `RequestOK` (what a request at
each step holds: which edge it took, which items it has reserved up to `i`, whether it
has a ticket id), `TicketsDistinct` (no two requests and no committed row share a
program ticket id), `TicketHasOrder` and `TicketLockStable` (the ticket's analogue of
`RowLockStable`). `CookedExactlyOnce` then follows at the commit of START_COOKING:
the row lock says the order is still PAID or CONFIRMED, hence had no ticket and no
sales, and `RequestOK` says the request took every reservable item exactly once
(`CookingTakesAll`). Each action has a lemma of its own; `NextInv` combines them;
the refinement and the step properties use the same invariant (`OrderWrites`).

`StockAddsUp` is about a sum over the items of all orders. `StockInv` adds to `IInv` that
what a request has decremented is the sum over the items it has taken (`DeltaOK`):
`ReserveItem` adds one term to it (`SumOfOne`), and the commit adds that sum to the one over
the ledger (`SumOfSums`). The lemmas about `SumFunction` avoid the induction rules of the
library, which the provers cannot instantiate: a property of all subsets of a finite set
is proved from a smallest counterexample (`SmallestSet`), which shows that a sum exists
whatever the order of its terms (`SumsExist`) and that the fold computes it (`SumValue`).

`NobodyIsStuck` is about chains of waits. `IInv` says that whoever is waited for has begun
(`WaitFacts`), so a chain can be followed until it ends (`ChainGoesOn`, by a shortest chain
that could not), and one as long as there are requests passes one of them twice
(`LongChain`, by the pigeonhole principle). That is the only use of the requests being
finitely many. A request that is waited for is cooking or at its commit, which is why no
other request can be on a circle. `HandOffUnderWay` says that, while the order of a handed-off
ticket is COOKING, a request is on its way to START_PACKING for it (`Packs`).

`InventoryDeliveryProofs` proves `InventoryTypeOK` and `LedgerMatchesQuantity` for any number of
writers (`InventoryTypeCorrect`, `LedgerAddsUp`), from `InventoryAssumption`. The
invariant adds `WriterOK` (what a writer read under the lock is still the committed
quantity) and `RowsDistinct` (one writer has a row at a time); the difference a write
puts into the ledger is then the difference it makes to the row. For any tasks and
requests it also proves Delivery's type invariant and `NoStageSkipped` (`StagesInOrder`):
`DeliveryInv` adds that a task's state is one it has had and `Due`, that what a request is
about to write follows in the table from a state the task has had. That state need not be
the current one, which is why the requests may overwrite each other and yet skip nothing.
It also proves that the composition of `MCBackOffice` implements each of its five parts
(`ShopImplementsParts`: a step of the whole is a step of one part and a stutter of the
others), whence what is proved of Checkout, Inventory, Delivery, Menu and Schedule holds of
the behaviours the run explores, and its type invariant `ShopTypeOK` (`ShopTypeCorrect`).

`CheckoutProofs` proves, for any keys, customers, orders, prices, fees, promotions and
calls, from `CheckoutAssumption`: `OneOrderPerKey` (`KeyHasOneOrder`), `ReplyIsBacked`
(`RepliesAreBacked`) and `ThanksPageAddsUp` (`ThanksAddsUp`), and the type invariant.
`CheckoutInv` adds `CallOK` (what a call at each step has: its key is claimed, before the
insert the key has no order, after it the call's order is the key's), `KeysApart` (two calls
in flight have different keys), `OrdersKeyed` (an order's key is claimed) and that what is
stored for a key may be answered. Most steps only go `Forward` (no key is freed, no order
disappears, no link is lost, no cash order begins to wait for a payment), and one lemma
covers them all. None of this supposes that an event succeeds. The bill is arithmetic:
each effect of `resolve_promo_effect` yields a discount between 0 and the goods.

`PaymentsProofs` proves, for any orders, payments and requests, any pairs of trace and
payment in the bodies, any events from outside and with restarts, from `PaymentsAssumption`
alone: `PayTypeOK`, `OutcomeMatchesProvider` (`RowsMatchProvider`), that a settled payment
never changes (`SettledStays`), `PaidOnlyIfCharged` (`PaidIsCharged`) and `CaptureMovesOrder`
(`CaptureMoves`). `PayInv` is the invariant behind them: `JobOK` (what a request knows at
each step: its order is the trace's, a notification past verification agrees with the
provider about the payment it names, a locked order is in the state read), `LocksApart`,
`CreatorsApart` and `PaysKnown`.

`SettledOnce` says what the idempotency key achieves (`KeysOK`): there is one request, ever,
for a trace and an outcome (`KeysApart`); a request that goes on owns its key, and a key's
outcome is the provider's (`KeysOwned`); and a payment that is `Matched` is PENDING for the
request that may settle it, which is the only one (`SettlersAlone`). Without `Matched` the
last fails: two traces with one payment have two keys. They then write the same outcome,
which is why `SettledStays` needs no such condition. `CaptureMoves` rests on `LonePaysOK`,
about orders with a single, `Matched` payment that were not steered.

`PaymentsImplementContract` is the refinement of PaymentContract, without hypotheses on
bodies or events. It uses `KeysOK` (a settlement's key is a claim of the contract),
`LonePaysOK` for the order of an only payment, and `CooksPaid` (an order about to be sent to
the kitchen has left DRAFT, CONFIRMED and PAYMENT_PENDING for good): the commits of a key and
of a settlement are then one step of the contract each, every other step a stutter or a
single change. `OutcomeNotForgotten` is about what happens without restarts: a `Matched`
payment that the provider has settled and that is PENDING here has its notification still to
come, or a request that has its key and will settle it (`OutcomeUnderWay`). `Matched` is
needed: a body with its trace and another payment uses up the key. The inductive parts are
`AllTraced` (the trace of every payment that was started is in memory), `HandedLast` (the
customer has the link only when the creation is over, and nothing is captured before) and
`KeyIsUsed` (for a key that is recorded the payment in it is settled, or a request is about
to settle it).

`MenuProofs` proves, for any tables, names, commands, files and writers, from
`MenuAssumption` (finite tables, no two skus alike at the start): `MenuTypeOK`, `SkusUnique`
(`SkusStayUnique`), `CategoryStands` (`CategoriesStand`) and `OtherFieldsKept`
(`FieldsKept`). `MenuInv` says of each transaction: which statements it has left and in
which order (`TxTypes`, `Ordered`), that its locked rows exist (`Held`), what earlier
statements have left for later ones (`Staged`), that it writes only rows it has locked or
created (`Covered`), commands just before their commit (`WritesLast`), that its category is
locked under the name given (`Linked`), what it changes (`Keeps`) and that the skus it sees
are distinct (`Distinct`); and of two transactions, that their locks, rows and uncommitted
skus are disjoint (`Apart`). `SkusUnique` is then preserved by a commit: the new table is
what the transaction saw. `Distinct` and `Apart` come from the unique index alone, no step
uses what `Validate` or `CheckSku` read; `Linked` survives because LockCategory looks again
after its wait and a rename needs the same lock.

About waits, `MenuNobodyIsStuck` says of menu transactions what `NobodyIsStuck` says of
requests (`MenuWaitsEnd`), along the same argument, and `CreatesAreNotAborted` that a create
is never a deadlock's victim (`CreatesSurvive`); only updates, files and the batch are. The
invariant they add is `Tidy`: every transaction has its commit left, one that is over has no
lock, and a create has its one lock only when it waits for nothing any more.

`StaffCardsProofs` proves, for any staff and number of requests, from
`StaffCardsAssumption`: `CardTypeOK` and `FirstCookCurrent` (`FirstCookStaysCurrent`).
`StaffInv` adds, while nothing was disturbed and before HAND_OFF: the calls to the kitchen
come first in a request and the first cook first in the call (`Orderly`), requests in
flight tell of states the ticket has had, different ones, and one that `Owes` the first
cook an edit tells of the current one (`Pending`, `Apart`); no card shows the button that is
due before the first cook's does (`CardsInStep`). So the next transition can be pressed
only after the first cook's edit, and no older edit of that card is still to come.

`AgentApplyProofs` proves `AgentTypeOK`, `KeysUnique`, `CommandStands` and
`RowStepsLegal` for any rows, names, codes and number of concurrent commands
(`AgentTypeCorrect`, `KeysStayUnique`, `CommandsStand`, `RowsStepLegally`), from
`AgentApplyAssumption` (null is none of the values, rows and commands are finitely many). `AgentInv` adds: `TxOK` (what each
command has and knows at its step; a locked row is live, has the name and a state the
action leads from, and `to` is that edge's target), `IdsDistinct` (one command per
row), `IndexOK` (the key of an uncommitted row is no other row's and no other
uncommitted row's), `KeysDistinct` (committed keys are distinct) and `StatesOK`. That
uniqueness rests on `IndexOK`, and no step of its proof uses what `Validate` or `Check`
found, is the formal side of the remark that these SELECTs alone prevent nothing.
`NoCommandIsStuck` says more than its counterparts of orders and menu (`WaitsAreShort`): a chain
of waits has at most two links, from a row's lock to the unique index to a commit, so there
are no circles here, somebody at its end can take its next statement, and an id is left
for every insert (`Room`, by counting rows and commands that create).

`ScheduleProofs` proves, for any length of day and number of days, editors, pages and
commands, from `ScheduleAssumption`: `ScheduleTypeCorrect`, `PermanentRowStays` (no reset,
race or restart removes a permanent row) and `RowsImplementBoard`, the refinement of
ScheduleBoard. `ScheduleInv` adds `EditOK` (what a command is about to write at each step,
a date that is not after today, never nothing for the permanent row) and `FutureIsFree`
(no row has a date after today). The latter is why midnight maps to the board's: the rows
of the new day do not exist yet. A commit is one change of the board when its date is
today or permanent, and a stutter when midnight overtook it (`CommitOnBoard`). `CommandsTakeEffect`
rests on `EditsMean` (what a transaction is about to write is what its command says, for a
date between the day it was given and today), `CoveredDayStaysOpen` on `PagesShow` (a page
that has its rows has hours for both periods, and the comparison of windows leaves no gap).

Only model-checked: the liveness properties (`EveryRequestEnds`, `HandOffAdvancesOrder`,
`CaptureIsRecorded`, `PendingEnds`, `MenuWriteEnds`, `ApplyEnds`, `KitchenIsServed`), since the
prover does not handle fairness. What each of them rests on besides fairness is proved:

| Liveness (TLC) | Its safety half (TLAPS) |
|---|---|
| `EveryRequestEnds` | `NobodyIsStuck` |
| `HandOffAdvancesOrder` | `HandOffIsCarriedOut` |
| `CaptureIsRecorded`, `PendingEnds` | `OutcomeNotForgotten` |
| `MenuWriteEnds` | `MenuNobodyIsStuck` |
| `ApplyEnds` | `NoCommandIsStuck` |
| `KitchenIsServed` | `FirstCookStaysCurrent` |

Every other property of a passing run is a theorem. What the theorems do not say is that a
statement that waits for nobody is enabled: ENABLED is out of the prover's reach, so
`WaitsEnd` and `MenuWaitsEnd` speak of locks, and TLC's liveness runs of the steps.

## Not modelled, and what is left

The plan is carried out. What could be added: the cart's state in `cart.js`, the tool
policy, and proofs of liveness with a prover for fairness.

Not modelled: the language models behind the agents and their fallback chain (stateless
calls of external services; what they produce is any well-formed command), the policy
snapshot (a static table of tools per program), receipts and telemetry (formatting of
traces, no state that anything reads back), page rendering, CSP, authentication of Mini
Apps, logging, and customer notifications (fire and forget, no state of ours). The
business-hours and inventory state machines under `app/domains` have no caller.
